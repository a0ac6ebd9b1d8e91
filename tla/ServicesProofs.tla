--------------------------- MODULE ServicesProofs ---------------------------
(* Theorems about Services, for any number of requests, items, stages,         *)
(* sessions and triggers at once. What holds of a service that runs alone, by  *)
(* the theorems of its own module, holds among the others too; those of        *)
(* sessions, logins, the history of tables and storage are proved here.        *)
EXTENDS Services, Sequences, FiniteSetTheorems, TLAPS

-----------------------------------------------------------------------------
(* High concurrency sessions.                                                *)

\* A REPL is its fields: nothing here depends on what numbers groups have.
IsRepl(x) == x \in [group : {x.group}, tag : Tag \cup {Untagged}, deleted : BOOLEAN,
                    backend : Nat, registered : BOOLEAN]

Requests ==
  {L!Idle} \cup [at : {"ensure", "native", "register", "execute"}, repl : DOMAIN repl]
         \cup [at : {"teardown"}, repl : DOMAIN repl, backend : Nat]

SessionsTyped ==
  /\ opened \in Nat
  /\ \E n \in Nat : DOMAIN repl = 1 .. n
  /\ repl = [r \in DOMAIN repl |-> repl[r]] /\ \A r \in DOMAIN repl : IsRepl(repl[r])
  /\ livyReq \in [LivyCaller -> Requests]
  /\ late \subseteq DOMAIN repl
  /\ open \subseteq [repl : DOMAIN repl, id : Nat \ {0}]

\* A statement under way is for a REPL that is there, or that was released under it.
UnderWay == \A c \in LivyCaller : L!At(c, "ensure") => livyReq[c].repl \in L!Live \cup late

SessionsInv == SessionsTyped /\ UnderWay /\ L!NoBackendLeft

LEMMA SameCardinality == ASSUME NEW S PROVE L!Cardinality(S) = Cardinality(S)
  BY DEF L!Cardinality, Cardinality

\* The number of REPLs, and what the next one is called.
LEMMA NextRepl ==
  ASSUME SessionsTyped, NEW r, r = L!Cardinality(DOMAIN repl) + 1
  PROVE  /\ r \notin DOMAIN repl
         /\ \E n \in Nat : DOMAIN repl \cup {r} = 1 .. n
<1>1. PICK n \in Nat : DOMAIN repl = 1 .. n
  BY DEF SessionsTyped
<1>2. L!Cardinality(1 .. n) = n
  <2>1. Cardinality(1 .. n) = IF 1 > n THEN 0 ELSE n - 1 + 1
    BY FS_Interval
  <2> QED BY <2>1, SameCardinality
<1>3. r = n + 1
  BY <1>1, <1>2
<1> QED BY <1>1, <1>3

LEMMA RequestTyped ==
  ASSUME SessionsTyped, NEW c \in LivyCaller
  PROVE  /\ livyReq[c] = L!Idle <=> livyReq[c].at = "idle"
         /\ livyReq[c].at # "idle" => livyReq[c].repl \in DOMAIN repl
         /\ livyReq[c].at = "teardown" =>
              livyReq[c] \in [at : {"teardown"}, repl : DOMAIN repl, backend : Nat]
         /\ livyReq[c].at \notin {"idle", "teardown"} =>
              livyReq[c] \in [at : {"ensure", "native", "register", "execute"}, repl : DOMAIN repl]
<1>1. livyReq[c] \in Requests
  BY DEF SessionsTyped
<1> QED BY <1>1 DEF Requests, L!Idle

LEMMA SessionsInit == L!Init => SessionsInv
<1> SUFFICES ASSUME L!Init PROVE SessionsInv
  OBVIOUS
<1>1. DOMAIN repl = 1 .. 0 /\ repl = [r \in DOMAIN repl |-> repl[r]] /\ DOMAIN repl = {}
  BY DEF L!Init
<1>2. \A c \in LivyCaller : livyReq[c] = L!Idle
  BY DEF L!Init
<1>3. SessionsTyped
  <2>1. \E n \in Nat : DOMAIN repl = 1 .. n
    BY <1>1
  <2>2. livyReq \in [LivyCaller -> Requests]
    BY DEF L!Init, Requests
  <2>3. opened \in Nat /\ late = {} /\ open = {}
    BY DEF L!Init
  <2> QED BY <1>1, <2>1, <2>2, <2>3 DEF SessionsTyped
<1>4. UnderWay
  BY <1>2 DEF UnderWay, L!At, L!Idle
<1>5. L!NoBackendLeft
  BY DEF L!Init, L!NoBackendLeft
<1> QED BY <1>3, <1>4, <1>5 DEF SessionsInv

\* A statement's thread moves on; nothing else does.
LEMMA Answered ==
  ASSUME SessionsInv, NEW c \in LivyCaller, UNCHANGED <<repl, opened, open, late, stray>>,
         NEW r \in Requests, livyReq' = [livyReq EXCEPT ![c] = r],
         r.at = "ensure" => r.repl \in L!Live \cup late,
         ~L!At(c, "teardown")
  PROVE  SessionsInv'
<1>1. SessionsTyped'
  <2>1. Requests' = Requests
    BY DEF Requests, L!Idle
  <2>2. livyReq' \in [LivyCaller -> Requests]
    BY DEF SessionsInv, SessionsTyped
  <2> QED BY <2>1, <2>2 DEF SessionsInv, SessionsTyped, IsRepl
<1>2. \A d \in LivyCaller : livyReq'[d] = IF d = c THEN r ELSE livyReq[d]
  BY DEF SessionsInv, SessionsTyped
<1>3. L!Live' = L!Live
  BY DEF L!Live
<1>4. UnderWay'
  BY <1>2, <1>3 DEF SessionsInv, UnderWay, L!At
<1>5. L!NoBackendLeft'
  <2>1. \A d \in LivyCaller : L!At(d, "teardown") => livyReq'[d] = livyReq[d]
    BY <1>2
  <2> QED BY <1>3, <2>1 DEF SessionsInv, L!NoBackendLeft, L!At
<1> QED BY <1>1, <1>4, <1>5 DEF SessionsInv

LEMMA SessionsNext == SessionsInv /\ [L!Next]_(L!vars) => SessionsInv'
<1> SUFFICES ASSUME SessionsInv, [L!Next]_(L!vars) PROVE SessionsInv'
  OBVIOUS
<1>typed. SessionsTyped /\ UnderWay /\ L!NoBackendLeft
  BY DEF SessionsInv
<1>repl. \A x \in DOMAIN repl : IsRepl(repl[x])
  BY <1>typed DEF SessionsTyped
<1>1. ASSUME NEW c \in LivyCaller, NEW tag \in Tag \cup {Untagged}, L!Acquire(c, tag)
      PROVE  SessionsInv'
  <2> DEFINE r == L!Cardinality(DOMAIN repl) + 1
             free == IF tag = Untagged THEN {} ELSE L!Roomy(tag)
             g == IF free = {} THEN lastSeq + 1 ELSE CHOOSE x \in free : \A y \in free : x <= y
             m == [group |-> g, tag |-> tag, deleted |-> FALSE, backend |-> 0,
                   registered |-> FALSE]
  <2>1. repl' = [x \in DOMAIN repl \cup {r} |-> IF x = r THEN m ELSE repl[x]]
    BY <1>1, Zenon DEF L!Acquire
  <2>m. IsRepl(m)
    BY DEF IsRepl
  <2>2. UNCHANGED <<opened, open, livyReq, late, stray>>
    BY <1>1 DEF L!Acquire
  <2>3. r \notin DOMAIN repl /\ \E n \in Nat : DOMAIN repl \cup {r} = 1 .. n
    BY <1>typed, NextRepl
  <2> HIDE DEF r, free, g, m
  <2>4. DOMAIN repl' = DOMAIN repl \cup {r} /\ \A x \in DOMAIN repl : repl'[x] = repl[x]
    BY <2>1, <2>3
  <2>5. SessionsTyped'
    <3>1. \A x \in DOMAIN repl' : IsRepl(repl'[x])
      BY <1>repl, <2>1, <2>m
    <3>2. livyReq' \in [LivyCaller -> Requests']
      BY <1>typed, <2>2, <2>4 DEF SessionsTyped, Requests, L!Idle
    <3>3. repl' = [x \in DOMAIN repl' |-> repl'[x]] /\ \E n \in Nat : DOMAIN repl' = 1 .. n
      BY <2>1, <2>3
    <3>4. open' \subseteq [repl : DOMAIN repl', id : Nat \ {0}] /\ late' \subseteq DOMAIN repl'
          /\ opened' \in Nat
      BY <1>typed, <2>2, <2>4 DEF SessionsTyped
    <3> QED BY <3>1, <3>2, <3>3, <3>4 DEF SessionsTyped, IsRepl
  <2>6. L!Live \subseteq L!Live'
    BY <2>4 DEF L!Live
  <2>7. UnderWay'
    BY <1>typed, <2>2, <2>6 DEF UnderWay, L!At
  <2>8. L!NoBackendLeft'
    <3>1. \A b \in open : b.repl \in DOMAIN repl
      BY <1>typed DEF SessionsTyped
    <3> QED BY <1>typed, <2>2, <2>4, <2>6, <3>1 DEF L!NoBackendLeft, L!At
  <2> QED BY <2>5, <2>7, <2>8 DEF SessionsInv
<1>2. ASSUME NEW c \in LivyCaller, NEW r \in DOMAIN repl, L!Release(c, r) PROVE SessionsInv'
  <2>1. /\ UNCHANGED <<opened, open, stray>> /\ L!At(c, "idle") /\ r \in L!Live
        /\ repl' = [repl EXCEPT ![r].deleted = TRUE]
        /\ late' = IF \E d \in LivyCaller : livyReq[d] # L!Idle /\ livyReq[d].repl = r
                   THEN late \cup {r} ELSE late
        /\ livyReq' = [livyReq EXCEPT ![c] = [at |-> "teardown", repl |-> r,
                                                backend |-> repl[r].backend]]
    BY <1>2 DEF L!Release
  <2>2. /\ DOMAIN repl' = DOMAIN repl /\ \A x \in DOMAIN repl \ {r} : repl'[x] = repl[x]
        /\ repl'[r] = [repl[r] EXCEPT !.deleted = TRUE]
        /\ repl' = [x \in DOMAIN repl' |-> repl'[x]]
    BY <1>typed, <2>1 DEF SessionsTyped
  <2>3. IsRepl(repl'[r]) /\ repl'[r].backend = repl[r].backend /\ repl[r].backend \in Nat
    BY <1>repl, <2>2 DEF IsRepl
  <2>4. \A d \in LivyCaller \ {c} : livyReq'[d] = livyReq[d]
    BY <2>1 DEF SessionsTyped
  <2>5. /\ livyReq'[c].at = "teardown" /\ livyReq'[c].backend = repl[r].backend
        /\ livyReq'[c] \in Requests
    BY <1>typed, <2>1, <2>3 DEF SessionsTyped, Requests
  <2>6. SessionsTyped'
    <3>1. Requests' = Requests
      BY <2>2 DEF Requests, L!Idle
    <3>2. livyReq' \in [LivyCaller -> Requests]
      BY <1>typed, <2>1, <2>5 DEF SessionsTyped
    <3>3. \A x \in DOMAIN repl' : IsRepl(repl'[x])
      BY <1>repl, <2>2, <2>3
    <3>4. late' \subseteq DOMAIN repl'
      BY <1>typed, <2>1, <2>2 DEF SessionsTyped
    <3> QED BY <1>typed, <2>1, <2>2, <3>1, <3>2, <3>3, <3>4 DEF SessionsTyped, IsRepl
  <2>7. \A x \in DOMAIN repl : x # r /\ x \in L!Live => x \in L!Live'
    BY <2>2 DEF L!Live
  <2>8. UnderWay'
    <3> SUFFICES ASSUME NEW d \in LivyCaller, L!At(d, "ensure")'
                 PROVE  livyReq'[d].repl \in L!Live' \cup late'
      BY DEF UnderWay
    <3>1. d # c /\ livyReq'[d] = livyReq[d] /\ L!At(d, "ensure")
      BY <2>4, <2>5 DEF L!At
    <3>2. livyReq[d] # L!Idle /\ livyReq[d].repl \in L!Live \cup late
      BY <1>typed, <3>1 DEF L!At, L!Idle, UnderWay
    <3>3. livyReq[d].repl = r => r \in late'
      BY <2>1, <3>2
    <3> QED BY <2>1, <2>7, <3>1, <3>2, <3>3 DEF L!Live
  <2>9. L!NoBackendLeft'
    <3> SUFFICES ASSUME NEW b \in open \ stray
                 PROVE  /\ repl'[b.repl].backend = b.id
                        /\ b.repl \in L!Live' \cup late'
                           \/ \E d \in LivyCaller : /\ L!At(d, "teardown")'
                                                  /\ livyReq'[d].backend = b.id
      BY <2>1 DEF L!NoBackendLeft
    <3>1. /\ b.repl \in DOMAIN repl /\ repl[b.repl].backend = b.id
          /\ b.repl \in L!Live \cup late
             \/ \E d \in LivyCaller : L!At(d, "teardown") /\ livyReq[d].backend = b.id
      BY <1>typed DEF SessionsTyped, L!NoBackendLeft
    <3>2. CASE b.repl = r
      <4>1. L!At(c, "teardown")' /\ livyReq'[c].backend = b.id
        BY <2>5, <3>1, <3>2 DEF L!At
      <4> QED BY <2>3, <3>1, <3>2, <4>1
    <3>3. CASE b.repl # r
      <4>1. \A d \in LivyCaller : L!At(d, "teardown") => livyReq'[d] = livyReq[d]
        BY <2>1, <2>4 DEF L!At
      <4>2. CASE b.repl \in L!Live \cup late
        BY <2>1, <2>2, <2>7, <3>1, <3>3, <4>2 DEF L!Live
      <4>3. CASE \E d \in LivyCaller : L!At(d, "teardown") /\ livyReq[d].backend = b.id
        BY <2>2, <3>1, <3>3, <4>1, <4>3 DEF L!At
      <4> QED BY <3>1, <4>2, <4>3
    <3> QED BY <3>2, <3>3
  <2> QED BY <2>6, <2>8, <2>9 DEF SessionsInv
<1>3. ASSUME NEW c \in LivyCaller, L!Teardown(c) PROVE SessionsInv'
  <2> DEFINE mine == {b \in open : b.id = livyReq[c].backend}
  <2>1. /\ UNCHANGED <<repl, opened, late>>
        /\ livyReq' = [livyReq EXCEPT ![c] = L!Idle]
        /\ \/ open' = open \ mine /\ stray' = stray
           \/ open' = open /\ stray' = stray \cup mine
    BY <1>3 DEF L!Teardown
  <2>gone. \A b \in open' \ stray' : b \in open \ stray /\ b.id # livyReq[c].backend
    BY <2>1
  <2>fewer. open' \subseteq open
    BY <2>1
  <2> HIDE DEF mine
  <2>2. \A d \in LivyCaller : livyReq'[d] = IF d = c THEN L!Idle ELSE livyReq[d]
    BY <1>typed, <2>1 DEF SessionsTyped
  <2>3. SessionsTyped'
    <3>1. Requests' = Requests
      BY <2>1 DEF Requests, L!Idle
    <3>2. livyReq' \in [LivyCaller -> Requests]
      BY <1>typed, <2>1 DEF SessionsTyped, Requests
    <3> QED BY <1>typed, <2>1, <2>fewer, <3>1, <3>2 DEF SessionsTyped, IsRepl
  <2>4. L!Live' = L!Live
    BY <2>1 DEF L!Live
  <2>5. UnderWay'
    BY <1>typed, <2>1, <2>2, <2>4 DEF UnderWay, L!At, L!Idle
  <2>6. L!NoBackendLeft'
    <3>1. \A b \in open' \ stray', d \in LivyCaller :
            livyReq[d].backend = b.id => livyReq'[d] = livyReq[d]
      BY <2>gone, <2>2
    <3> QED BY <1>typed, <2>1, <2>gone, <2>4, <3>1 DEF L!NoBackendLeft, L!At
  <2> QED BY <2>3, <2>5, <2>6 DEF SessionsInv
<1>4. ASSUME NEW c \in LivyCaller, NEW r \in DOMAIN repl, L!Submit(c, r) PROVE SessionsInv'
  <2>1. PICK where \in {"native", "ensure"} : L!Goto(c, where, r)
    BY <1>4 DEF L!Submit
  <2>2. /\ UNCHANGED <<repl, opened, open, late, stray>> /\ r \in L!Live /\ ~L!At(c, "teardown")
    BY <1>4 DEF L!Submit, L!At
  <2>3. [at |-> where, repl |-> r] \in Requests
    BY DEF Requests
  <2> QED BY <2>1, <2>2, <2>3, Answered DEF L!Goto
<1>5. ASSUME NEW c \in LivyCaller, L!Ensure(c) PROVE SessionsInv'
  <2>1. /\ UNCHANGED late /\ livyReq' = [livyReq EXCEPT ![c] = L!Idle]
        /\ L!At(c, "ensure") /\ L!Idle \in Requests
    BY <1>5 DEF L!Ensure, L!Answer, Requests
  <2> DEFINE new == [repl |-> livyReq[c].repl, id |-> opened + 1]
  <2>2. CASE UNCHANGED <<opened, open, repl, stray>>
    BY <2>1, <2>2, Answered DEF L!At, L!Idle
  <2>4. ASSUME opened' = opened + 1, open' = open \cup {new}, stray' = stray \cup {new},
               UNCHANGED repl
        PROVE  SessionsInv'
    <3>1. livyReq[c].repl \in DOMAIN repl
      BY <1>typed, <2>1, RequestTyped DEF L!At
    <3>2. \A d \in LivyCaller : livyReq'[d] = IF d = c THEN L!Idle ELSE livyReq[d]
      BY <1>typed, <2>1 DEF SessionsTyped
    <3>3. SessionsTyped'
      <4>1. Requests' = Requests
        BY <2>4 DEF Requests, L!Idle
      <4>2. livyReq' \in [LivyCaller -> Requests]
        BY <1>typed, <2>1 DEF SessionsTyped
      <4>3. opened' \in Nat /\ open' \subseteq [repl : DOMAIN repl, id : Nat \ {0}]
        BY <1>typed, <2>4, <3>1 DEF SessionsTyped
      <4> QED BY <1>typed, <2>1, <2>4, <4>1, <4>2, <4>3 DEF SessionsTyped, IsRepl
    <3>4. L!Live' = L!Live
      BY <2>4 DEF L!Live
    <3>5. UnderWay'
      BY <1>typed, <2>1, <3>2, <3>4 DEF UnderWay, L!At, L!Idle
    <3>6. L!NoBackendLeft'
      <4>1. open' \ stray' \subseteq open \ stray
        BY <2>4
      <4>2. \A d \in LivyCaller : L!At(d, "teardown") => livyReq'[d] = livyReq[d]
        BY <2>1, <3>2 DEF L!At
      <4> QED BY <1>typed, <2>1, <2>4, <3>4, <4>1, <4>2 DEF L!NoBackendLeft, L!At
    <3> QED BY <3>3, <3>5, <3>6 DEF SessionsInv
  <2>3. ASSUME repl[livyReq[c].repl].backend = 0, opened' = opened + 1, open' = open \cup {new},
               repl' = [repl EXCEPT ![livyReq[c].repl].backend = opened + 1], UNCHANGED stray
        PROVE  SessionsInv'
    <3>1. PICK r \in DOMAIN repl : r = livyReq[c].repl
      BY <1>typed, <2>1, RequestTyped DEF L!At
    <3>2. PICK id \in Nat \ {0} : id = opened + 1
      <4>1. opened \in Nat
        BY <1>typed DEF SessionsTyped
      <4> QED BY <4>1
    <3>3. /\ DOMAIN repl' = DOMAIN repl /\ \A x \in DOMAIN repl \ {r} : repl'[x] = repl[x]
          /\ repl'[r] = [repl[r] EXCEPT !.backend = id]
          /\ repl' = [x \in DOMAIN repl' |-> repl'[x]]
      BY <1>typed, <2>3, <3>1, <3>2 DEF SessionsTyped
    <3>4. IsRepl(repl'[r]) /\ repl'[r].backend = id /\ repl'[r].deleted = repl[r].deleted
      BY <1>repl, <3>3 DEF IsRepl
    <3>5. \A d \in LivyCaller : livyReq'[d] = IF d = c THEN L!Idle ELSE livyReq[d]
      BY <1>typed, <2>1 DEF SessionsTyped
    <3>6. SessionsTyped'
      <4>1. Requests' = Requests
        BY <3>3 DEF Requests, L!Idle
      <4>2. livyReq' \in [LivyCaller -> Requests]
        BY <1>typed, <2>1 DEF SessionsTyped
      <4>3. \A x \in DOMAIN repl' : IsRepl(repl'[x])
        BY <1>repl, <3>3, <3>4
      <4>4. open' \subseteq [repl : DOMAIN repl', id : Nat \ {0}]
        BY <1>typed, <2>3, <3>1, <3>2, <3>3 DEF SessionsTyped
      <4>5. opened' \in Nat
        BY <2>3, <3>2
      <4> QED BY <1>typed, <2>1, <3>3, <4>1, <4>2, <4>3, <4>4, <4>5 DEF SessionsTyped, IsRepl
    <3>7. L!Live' = L!Live
      BY <3>3, <3>4 DEF L!Live
    <3>8. UnderWay'
      BY <1>typed, <2>1, <3>5, <3>7 DEF UnderWay, L!At, L!Idle
    <3>9. L!NoBackendLeft'
      <4> SUFFICES ASSUME NEW b \in open' \ stray'
                   PROVE  /\ repl'[b.repl].backend = b.id
                          /\ b.repl \in L!Live \cup late
                             \/ \E d \in LivyCaller : /\ L!At(d, "teardown")'
                                                  /\ livyReq'[d].backend = b.id
        BY <2>1, <3>7 DEF L!NoBackendLeft
      <4>1. CASE b = [repl |-> r, id |-> id]
        <5>1. r \in L!Live \cup late
          BY <1>typed, <2>1, <3>1 DEF UnderWay
        <5> QED BY <3>4, <4>1, <5>1
      <4>2. CASE b \in open \ stray
        <5>1. /\ b.repl \in DOMAIN repl /\ repl[b.repl].backend = b.id /\ b.id # 0
              /\ b.repl \in L!Live \cup late
                 \/ \E d \in LivyCaller : L!At(d, "teardown") /\ livyReq[d].backend = b.id
          BY <1>typed, <4>2 DEF SessionsTyped, L!NoBackendLeft
        <5>2. b.repl # r
          BY <2>3, <3>1, <5>1
        <5>3. \A d \in LivyCaller : L!At(d, "teardown") => livyReq'[d] = livyReq[d]
          BY <2>1, <3>5 DEF L!At
        <5> QED BY <3>3, <5>1, <5>2, <5>3 DEF L!At
      <4> QED BY <2>3, <3>1, <3>2, <4>1, <4>2
    <3> QED BY <3>6, <3>8, <3>9 DEF SessionsInv
  <2> QED BY <1>5, <2>2, <2>3, <2>4 DEF L!Ensure
<1>6. ASSUME NEW c \in LivyCaller, L!Mark(c) PROVE SessionsInv'
  <2>1. UNCHANGED <<opened, open, late, stray>> /\ L!At(c, "native")
    BY <1>6 DEF L!Mark
  <2>2. PICK where \in {"execute", "register"} :
          livyReq' = [livyReq EXCEPT ![c] = [at |-> where, repl |-> livyReq[c].repl]]
    BY <1>6 DEF L!Mark, L!Goto
  <2>3. PICK r \in DOMAIN repl : r = livyReq[c].repl
    BY <1>typed, <2>1, RequestTyped DEF L!At
  <2>4. repl' = [repl EXCEPT ![r].registered = TRUE]
    BY <1>6, <2>3 DEF L!Mark
  <2>5. /\ DOMAIN repl' = DOMAIN repl /\ \A x \in DOMAIN repl \ {r} : repl'[x] = repl[x]
        /\ repl'[r] = [repl[r] EXCEPT !.registered = TRUE]
        /\ repl' = [x \in DOMAIN repl' |-> repl'[x]]
    BY <1>typed, <2>4 DEF SessionsTyped
  <2>6. IsRepl(repl'[r]) /\ repl'[r].backend = repl[r].backend /\ repl'[r].deleted = repl[r].deleted
    BY <1>repl, <2>5 DEF IsRepl
  <2>7. \A d \in LivyCaller : livyReq'[d] = IF d = c THEN [at |-> where, repl |-> r] ELSE livyReq[d]
    BY <1>typed, <2>2, <2>3 DEF SessionsTyped
  <2>8. SessionsTyped'
    <3>1. Requests' = Requests
      BY <2>5 DEF Requests, L!Idle
    <3>2. livyReq' \in [LivyCaller -> Requests]
      BY <1>typed, <2>2, <2>3 DEF SessionsTyped, Requests
    <3>3. \A x \in DOMAIN repl' : IsRepl(repl'[x])
      BY <1>repl, <2>5, <2>6
    <3> QED BY <1>typed, <2>1, <2>5, <3>1, <3>2, <3>3 DEF SessionsTyped, IsRepl
  <2>9. L!Live' = L!Live
    BY <2>5, <2>6 DEF L!Live
  <2>10. UnderWay'
    BY <1>typed, <2>1, <2>7, <2>9 DEF UnderWay, L!At
  <2>11. L!NoBackendLeft'
    <3>1. \A b \in open : b.repl \in DOMAIN repl /\ repl'[b.repl].backend = repl[b.repl].backend
      BY <1>typed, <2>5, <2>6 DEF SessionsTyped
    <3>2. \A d \in LivyCaller : L!At(d, "teardown") => livyReq'[d] = livyReq[d]
      BY <2>1, <2>7 DEF L!At
    <3> QED BY <1>typed, <2>1, <2>9, <3>1, <3>2 DEF L!NoBackendLeft, L!At
  <2> QED BY <2>8, <2>10, <2>11 DEF SessionsInv
<1>7. ASSUME NEW c \in LivyCaller, L!Register(c) PROVE SessionsInv'
  <2>1. /\ UNCHANGED <<repl, opened, open, late, stray>> /\ L!At(c, "register")
        /\ livyReq' = [livyReq EXCEPT ![c] = [at |-> "execute", repl |-> livyReq[c].repl]]
    BY <1>7 DEF L!Register, L!Goto
  <2>2. [at |-> "execute", repl |-> livyReq[c].repl] \in Requests
    BY <1>typed, <2>1, RequestTyped DEF L!At, Requests
  <2> QED BY <2>1, <2>2, Answered DEF L!At
<1>8. ASSUME NEW c \in LivyCaller, L!Execute(c) PROVE SessionsInv'
  <2>1. L!Idle \in Requests /\ L!Idle.at = "idle"
    BY DEF Requests, L!Idle
  <2> QED BY <1>8, <2>1, Answered DEF L!Execute, L!Answer, L!At
<1>9. CASE UNCHANGED L!vars
  BY <1>9 DEF L!vars, SessionsInv, SessionsTyped, Requests, IsRepl, UnderWay, L!NoBackendLeft,
             L!At, L!Live
<1> QED
  BY <1>1, <1>2, <1>3, <1>4, <1>5, <1>6, <1>7, <1>8, <1>9 DEF L!Next

-----------------------------------------------------------------------------
(* Logins to the SQL endpoint.                                               *)

\* A login at a table, or anywhere past its Reflector's lock.
AtTable(c) == loginPc[c] \in {"read", "drop", "create", "insert", "record"}
Inside(c) == AtTable(c) \/ loginPc[c] \in {"ask", "next", "reflected"}
Replaces(c) == AtTable(c) /\ loginPc[c] # "record"

LoginsTyped ==
  /\ src \in [LakeTable -> Nat] /\ dst \in [LakeTable -> Int]
  /\ seen \in [Reflector -> [LakeTable -> Nat]]
  /\ itemMu \in [Reflector -> Login \cup {NoLogin}]
  /\ loginPc \in [Login -> {"out", "lock", "ask", "next", "read", "drop", "create", "insert",
                       "record", "reflected", "in"}]
  /\ todo \in [Login -> SUBSET LakeTable] /\ cur = [c \in Login |-> cur[c]]
  /\ present \in [Login -> SUBSET LakeTable] /\ known \in [Login -> BOOLEAN]
  /\ fp \in [Login -> Nat] /\ read \in [Login -> Nat]
  /\ since \in [Login -> [LakeTable -> Nat]]

Locked == \A c \in Login : Inside(c) => itemMu[Uses[c]] = c

\* A log is only appended to.
Appended ==
  \A t \in LakeTable :
    /\ \A c \in Login : since[c][t] <= src[t]
    /\ \A r \in Reflector : seen[r][t] <= src[t]

\* Who replaces a table that is not crossed is alone: a login of its Reflector is kept
\* out by the lock, and one of another makes the table crossed.
AloneOrCrossed ==
  \A c, d \in Login : c # d /\ Replaces(c) /\ Inside(d) => cur[c] \in crossed

\* What the engine has of a table is what any Reflector recorded, or later; or nothing,
\* or it is being loaded; or a load was cut off: then the log has moved on, but for those
\* in half.
Copied(t) ==
  t \notin crossed => \A r \in Reflector :
    \/ dst[t] = R!Absent
    \/ seen[r][t] <= dst[t]
    \/ dst[t] = R!Empty /\ (t \in half \/ seen[r][t] < src[t])
    \/ \E d \in Login : loginPc[d] = "insert" /\ cur[d] = t

\* The table at hand: what is read is what it had when the login began, or later.
HandTyped(c) ==
  /\ cur[c] \in LakeTable /\ cur[c] \notin todo[c]
  /\ since[c][cur[c]] <= fp[c] /\ fp[c] <= src[cur[c]]
  /\ loginPc[c] # "read" => fp[c] <= read[c]
HandCopied(c) ==
  cur[c] \notin crossed =>
    /\ Replaces(c) => \A r \in Reflector : seen[r][cur[c]] <= fp[c]
    /\ loginPc[c] = "insert" => dst[cur[c]] \in {R!Absent, R!Empty}
    /\ loginPc[c] = "record" =>
         /\ dst[cur[c]] = R!Absent \/ fp[c] <= dst[cur[c]]
         /\ since[c][cur[c]] > 0 => fp[c] <= dst[cur[c]]
TableInHand(c) == AtTable(c) => HandTyped(c) /\ HandCopied(c)

\* The tables the login is done with.
DoneTables(c) ==
  /\ loginPc[c] = "reflected" => todo[c] = {}
  /\ \A t \in LakeTable :
       /\ since[c][t] > 0
       /\ t \notin todo[c] /\ ~(AtTable(c) /\ cur[c] = t)
       /\ t \notin half /\ t \notin crossed
       => since[c][t] <= dst[t]

\* What the engine had when it was asked, it has until the login drops it.
StillThere(c) ==
  loginPc[c] # "ask" =>
    \A t \in todo[c] \cap present[c] :
      t \notin crossed /\ known[c] /\ since[c][t] > 0 => dst[t] # R!Absent

LoginInv(c) == Inside(c) => TableInHand(c) /\ DoneTables(c) /\ StillThere(c)

ReflectionInv ==
  /\ LoginsTyped /\ Locked /\ Appended /\ AloneOrCrossed
  /\ \A t \in LakeTable : Copied(t)
  /\ \A c \in Login : LoginInv(c)

LEMMA Places ==
  /\ \A c \in Login : (R!Inside(c) <=> Inside(c)) /\ (R!Working(c) <=> Replaces(c))
  /\ \A c \in Login :
       /\ R!Others(c) = {d \in Login \ {c} : Inside(d)}
       /\ R!AtHand(R!Others(c)) = {cur[d] : d \in {e \in Login \ {c} : Replaces(e)}}
<1>1. \A c \in Login : (R!Inside(c) <=> Inside(c)) /\ (R!Working(c) <=> Replaces(c))
  BY DEF R!Inside, R!Working, Inside, AtTable, Replaces
<1>2. \A c \in Login : Replaces(c) => Inside(c)
  BY DEF Replaces, Inside
<1> QED BY <1>1, <1>2 DEF R!Others, R!AtHand

LEMMA ReflectionInit == R!ReflectionAssumption /\ R!Init => ReflectionInv
<1> SUFFICES ASSUME R!ReflectionAssumption, R!Init PROVE ReflectionInv
  OBVIOUS
<1>1. \A c \in Login : loginPc[c] = "out" /\ ~Inside(c)
  BY DEF R!Init, Inside, AtTable
<1>2. LoginsTyped
  BY DEF R!Init, LoginsTyped, R!Nothing, R!Absent
<1>3. Appended
  BY <1>2 DEF R!Init, Appended, R!Nothing, LoginsTyped
<1>4. \A t \in LakeTable : Copied(t)
  BY DEF R!Init, Copied
<1> QED BY <1>1, <1>2, <1>3, <1>4 DEF ReflectionInv, Locked, AloneOrCrossed, LoginInv

\* A login that leaves holds nothing any more.
LEMMA LoginLeaves ==
  ASSUME R!ReflectionAssumption, ReflectionInv, NEW c \in Login, Inside(c),
         NEW place \in {"out", "in"}, R!Goto(c, place), R!Forgotten(c),
         UNCHANGED <<src, dst, seen, crossed>>, half \subseteq half',
         loginPc[c] = "insert" /\ dst[cur[c]] = R!Empty =>
           cur[c] \in half' \/ \A r \in Reflector : seen[r][cur[c]] # fp[c]
  PROVE  ReflectionInv'
<1>typed. LoginsTyped
  BY DEF ReflectionInv
<1>1. /\ ~Inside(c)'
      /\ \A d \in Login \ {c} :
           /\ loginPc'[d] = loginPc[d] /\ todo'[d] = todo[d] /\ cur'[d] = cur[d]
           /\ present'[d] = present[d] /\ known'[d] = known[d] /\ fp'[d] = fp[d]
           /\ read'[d] = read[d] /\ since'[d] = since[d]
  BY <1>typed DEF LoginsTyped, R!Goto, R!Forgotten, Inside, AtTable
<1>2. LoginsTyped'
  BY <1>typed DEF LoginsTyped, R!Goto, R!Forgotten, R!Nothing, R!ReflectionAssumption
<1>3. Appended'
  BY <1>typed DEF ReflectionInv, Appended, LoginsTyped, R!Forgotten, R!Nothing
<1>4. ASSUME NEW t \in LakeTable PROVE Copied(t)'
  <2> SUFFICES ASSUME t \notin crossed, NEW r \in Reflector
               PROVE  \/ dst[t] = R!Absent
                      \/ seen[r][t] <= dst[t]
                      \/ dst[t] = R!Empty /\ (t \in half' \/ seen[r][t] < src[t])
                      \/ \E d \in Login : loginPc'[d] = "insert" /\ cur'[d] = t
    BY DEF Copied
  <2>1. Copied(t)
    BY DEF ReflectionInv
  <2>2. CASE loginPc[c] = "insert" /\ cur[c] = t
    <3>1. /\ dst[t] \in {R!Absent, R!Empty} /\ seen[r][t] <= fp[c] /\ fp[c] <= src[t]
      BY <2>2 DEF ReflectionInv, LoginInv, TableInHand, HandTyped, HandCopied, AtTable, Replaces
    <3>2. seen[r][t] \in Nat /\ fp[c] \in Nat /\ src[t] \in Nat
      BY <1>typed DEF LoginsTyped
    <3> QED BY <2>2, <3>1, <3>2
  <2>3. CASE ~(loginPc[c] = "insert" /\ cur[c] = t)
    BY <1>1, <2>1, <2>3 DEF Copied
  <2> QED BY <2>2, <2>3
<1>5. ASSUME NEW d \in Login PROVE LoginInv(d)'
  <2> SUFFICES ASSUME Inside(d)' PROVE TableInHand(d)' /\ DoneTables(d)' /\ StillThere(d)'
    BY DEF LoginInv
  <2>1. d # c /\ Inside(d)
    BY <1>1 DEF Inside, AtTable
  <2>2. TableInHand(d) /\ DoneTables(d) /\ StillThere(d)
    BY <2>1 DEF ReflectionInv, LoginInv
  <2>3. TableInHand(d)'
    BY <1>1, <2>1, <2>2 DEF TableInHand, HandTyped, HandCopied, AtTable, Replaces
  <2>4. DoneTables(d)'
    BY <1>1, <2>1, <2>2 DEF DoneTables, AtTable
  <2>5. StillThere(d)'
    BY <1>1, <2>1, <2>2 DEF StillThere
  <2> QED BY <2>3, <2>4, <2>5
<1>6. Locked'
  <2> SUFFICES ASSUME NEW d \in Login, Inside(d)' PROVE itemMu'[Uses[d]] = d
    BY DEF Locked
  <2>1. d # c /\ Inside(d)
    BY <1>1 DEF Inside, AtTable
  <2>2. itemMu[Uses[d]] = d /\ itemMu[Uses[c]] = c
    BY <2>1 DEF ReflectionInv, Locked
  <2>3. itemMu' = [itemMu EXCEPT ![Uses[c]] = NoLogin]
    BY DEF R!Forgotten
  <2> QED BY <1>typed, <2>1, <2>2, <2>3 DEF LoginsTyped, R!ReflectionAssumption
<1>7. AloneOrCrossed'
  BY <1>1 DEF ReflectionInv, AloneOrCrossed, Replaces, Inside, AtTable
<1> QED BY <1>2, <1>3, <1>4, <1>5, <1>6, <1>7 DEF ReflectionInv

\* A step of a login inside leaves the others what they found, but at tables that are
\* crossed, or that it loaded to the newest commit.
Settled(t) ==
  \/ t \in crossed'
  \/ t \notin crossed /\ dst'[t] = dst[t] /\ (t \in half => t \in half')
  \/ dst'[t] = src[t]

LEMMA LoginGoesOn ==
  ASSUME R!ReflectionAssumption, ReflectionInv, NEW c \in Login, Inside(c),
         UNCHANGED <<src, since, itemMu>>, LoginsTyped', Inside(c)',
         \A d \in Login \ {c} :
           /\ loginPc'[d] = loginPc[d] /\ todo'[d] = todo[d] /\ cur'[d] = cur[d]
           /\ present'[d] = present[d] /\ known'[d] = known[d] /\ fp'[d] = fp[d]
           /\ read'[d] = read[d],
         \A r \in Reflector, t \in LakeTable : seen'[r][t] <= src[t],
         \A t \in LakeTable : Copied(t)',
         AloneOrCrossed',
         \A d \in Login \ {c} : Inside(d) => \A t \in LakeTable : Settled(t),
         TableInHand(c)', DoneTables(c)', StillThere(c)'
  PROVE  ReflectionInv'
<1>typed. LoginsTyped
  BY DEF ReflectionInv
<1>1. ASSUME NEW d \in Login \ {c} PROVE (Inside(d)' <=> Inside(d)) /\ (AtTable(d)' <=> AtTable(d))
  BY DEF Inside, AtTable
<1>2. Locked'
  BY <1>1 DEF ReflectionInv, Locked
<1>3. Appended'
  BY DEF ReflectionInv, Appended
<1>4. ASSUME NEW d \in Login \ {c}, Inside(d)
      PROVE  TableInHand(d)' /\ DoneTables(d)' /\ StillThere(d)'
  <2>1. TableInHand(d) /\ DoneTables(d) /\ StillThere(d)
    BY <1>4 DEF ReflectionInv, LoginInv
  <2>2. \A t \in LakeTable : /\ Settled(t) /\ since[d][t] <= src[t]
                            /\ since[d][t] \in Nat /\ src[t] \in Nat
    BY <1>4, <1>typed DEF ReflectionInv, Appended, LoginsTyped
  <2>3. TableInHand(d)'
    <3> SUFFICES ASSUME AtTable(d) PROVE HandTyped(d)' /\ HandCopied(d)'
      BY <1>1 DEF TableInHand
    <3>1. HandTyped(d) /\ HandCopied(d) /\ cur[d] \in LakeTable
      BY <2>1 DEF TableInHand, HandTyped
    <3>2. HandTyped(d)'
      BY <3>1 DEF HandTyped
    <3>3. HandCopied(d)'
      <4> SUFFICES ASSUME cur[d] \notin crossed' PROVE HandCopied(d)'
        BY DEF HandCopied
      <4>1. loginPc[d] = "record"
        BY <1>1 DEF AloneOrCrossed, Replaces
      <4>2. fp[d] <= src[cur[d]] /\ Settled(cur[d])
        BY <2>2, <3>1 DEF HandTyped
      <4> QED BY <3>1, <4>1, <4>2 DEF HandCopied, Settled, Replaces, AtTable
    <3> QED BY <3>2, <3>3
  <2>4. DoneTables(d)'
    BY <1>1, <2>1, <2>2 DEF DoneTables, Settled
  <2>5. StillThere(d)'
    <3>1. todo[d] \subseteq LakeTable /\ \A t \in LakeTable : src[t] # R!Absent
      BY <1>typed, <2>2 DEF LoginsTyped, R!Absent
    <3> QED BY <2>1, <2>2, <3>1 DEF StillThere, Settled
  <2> QED BY <2>3, <2>4, <2>5
<1>5. \A d \in Login : LoginInv(d)'
  BY <1>1, <1>4 DEF LoginInv
<1> QED BY <1>2, <1>3, <1>5 DEF ReflectionInv

LEMMA ReflectionNext ==
  R!ReflectionAssumption /\ ReflectionInv /\ [R!Next]_(R!vars) => ReflectionInv'
<1> SUFFICES ASSUME R!ReflectionAssumption, ReflectionInv, [R!Next]_(R!vars)
             PROVE  ReflectionInv'
  OBVIOUS
<1>typed. LoginsTyped
  BY DEF ReflectionInv
<1>uses. \A c \in Login : Uses[c] \in Reflector
  BY DEF R!ReflectionAssumption
<1>alone. AloneOrCrossed
  BY DEF ReflectionInv
<1>copied. \A t \in LakeTable : Copied(t)
  BY DEF ReflectionInv
<1>login. ASSUME NEW c \in Login, Inside(c)
          PROVE  TableInHand(c) /\ DoneTables(c) /\ StillThere(c)
  BY <1>login DEF ReflectionInv, LoginInv
<1>appended. Appended
  BY DEF ReflectionInv
<1>1. ASSUME NEW t \in LakeTable, R!Commit(t) PROVE ReflectionInv'
  <2>1. /\ UNCHANGED <<dst, seen, itemMu, loginPc, todo, cur, present, known, fp, read, since>>
        /\ UNCHANGED <<half, crossed>>
    BY <1>1 DEF R!Commit, R!login
  <2>2. \A x \in LakeTable : src'[x] \in Nat /\ src[x] <= src'[x]
    BY <1>1, <1>typed DEF R!Commit, LoginsTyped
  <2>3. LoginsTyped'
    BY <1>1, <1>typed, <2>1, <2>2 DEF R!Commit, LoginsTyped
  <2>4. Appended'
    BY <1>typed, <1>appended, <2>1, <2>2 DEF Appended, LoginsTyped
  <2>5. ASSUME NEW x \in LakeTable PROVE Copied(x)'
    BY <1>typed, <1>copied, <1>uses, <2>1, <2>2 DEF Copied, LoginsTyped
  <2>6. ASSUME NEW c \in Login PROVE LoginInv(c)'
    <3> SUFFICES ASSUME Inside(c) PROVE TableInHand(c)' /\ DoneTables(c)' /\ StillThere(c)'
      BY <2>1 DEF LoginInv, Inside, AtTable
    <3>1. TableInHand(c)'
      <4>1. AtTable(c) =>
              /\ fp[c] \in Nat /\ cur[c] \in LakeTable
              /\ src[cur[c]] \in Nat /\ src'[cur[c]] \in Nat /\ src[cur[c]] <= src'[cur[c]]
        BY <1>typed, <1>login, <2>2 DEF TableInHand, HandTyped, LoginsTyped
      <4> QED BY <1>login, <2>1, <4>1 DEF TableInHand, HandTyped, HandCopied, AtTable, Replaces
    <3>2. DoneTables(c)' /\ StillThere(c)'
      BY <1>login, <2>1 DEF DoneTables, StillThere, AtTable
    <3> QED BY <3>1, <3>2
  <2>7. Locked' /\ AloneOrCrossed'
    BY <2>1 DEF ReflectionInv, Locked, AloneOrCrossed, Replaces, Inside, AtTable
  <2> QED BY <2>3, <2>4, <2>5, <2>6, <2>7 DEF ReflectionInv
<1>2. CASE R!LoseTables
  <2>1. UNCHANGED <<src, seen, itemMu, loginPc, todo, cur, present, known, fp, read, crossed>>
    BY <1>2 DEF R!LoseTables, R!login
  <2>2. /\ \A t \in LakeTable : dst'[t] = R!Absent
        /\ \A c \in Login, t \in LakeTable : since'[c][t] = 0
    BY <1>2 DEF R!LoseTables, R!Nothing
  <2>3. LoginsTyped'
    BY <1>2, <1>typed, <2>1 DEF R!LoseTables, LoginsTyped, R!Nothing, R!Absent
  <2>4. Appended'
    BY <1>typed, <1>appended, <2>1, <2>2 DEF Appended, LoginsTyped
  <2>5. \A t \in LakeTable : Copied(t)'
    BY <2>2 DEF Copied, R!Absent
  <2>6. ASSUME NEW c \in Login, Inside(c) PROVE TableInHand(c)'
    <3> SUFFICES ASSUME AtTable(c) PROVE TableInHand(c)'
      BY <2>1 DEF TableInHand, AtTable
    <3>1. cur[c] \in LakeTable /\ fp[c] \in Nat
      BY <1>typed, <1>login, <2>6 DEF TableInHand, HandTyped, LoginsTyped
    <3> QED BY <1>login, <2>1, <2>2, <2>6, <3>1
            DEF TableInHand, HandTyped, HandCopied, AtTable, Replaces, R!Absent
  <2>7. ASSUME NEW c \in Login, Inside(c) PROVE DoneTables(c)' /\ StillThere(c)'
    BY <1>typed, <1>login, <2>1, <2>2, <2>7 DEF DoneTables, StillThere, LoginsTyped
  <2>8. Locked' /\ AloneOrCrossed' /\ \A c \in Login : LoginInv(c)'
    BY <2>1, <2>6, <2>7
    DEF ReflectionInv, Locked, AloneOrCrossed, Replaces, LoginInv, Inside, AtTable
  <2> QED BY <2>3, <2>4, <2>5, <2>8 DEF ReflectionInv
<1>3. ASSUME NEW c \in Login, R!Connect(c) PROVE ReflectionInv'
  <2>1. /\ UNCHANGED <<src, dst, seen, itemMu, todo, cur, present, known, fp, read, half, crossed>>
        /\ loginPc[c] = "out" /\ loginPc' = [loginPc EXCEPT ![c] = "lock"]
        /\ since' = [since EXCEPT ![c] = src]
    BY <1>3 DEF R!Connect, R!Goto, R!outside, R!login
  <2>2. /\ ~Inside(c)' /\ loginPc'[c] = "lock"
        /\ \A d \in Login \ {c} : loginPc'[d] = loginPc[d] /\ since'[d] = since[d]
    BY <1>typed, <2>1 DEF LoginsTyped, Inside, AtTable
  <2>3. LoginsTyped'
    BY <1>typed, <2>1 DEF LoginsTyped
  <2>4. Appended'
    BY <1>typed, <1>appended, <2>1 DEF Appended, LoginsTyped
  <2>5. ASSUME NEW t \in LakeTable PROVE Copied(t)'
    BY <1>copied, <2>1, <2>2 DEF Copied
  <2>6. ASSUME NEW d \in Login PROVE LoginInv(d)'
    <3> SUFFICES ASSUME Inside(d)' PROVE TableInHand(d)' /\ DoneTables(d)' /\ StillThere(d)'
      BY DEF LoginInv
    <3>1. d # c /\ Inside(d) /\ loginPc'[d] = loginPc[d] /\ since'[d] = since[d]
      BY <2>2 DEF Inside, AtTable
    <3>2. TableInHand(d)'
      BY <1>login, <2>1, <3>1 DEF TableInHand, HandTyped, HandCopied, AtTable, Replaces
    <3> QED BY <1>login, <2>1, <3>1, <3>2 DEF DoneTables, StillThere, AtTable
  <2>7. Locked' /\ AloneOrCrossed'
    BY <2>1, <2>2 DEF ReflectionInv, Locked, AloneOrCrossed, Replaces, Inside, AtTable
  <2> QED BY <2>3, <2>4, <2>5, <2>6, <2>7 DEF ReflectionInv
<1>4. ASSUME NEW c \in Login, R!Lock(c) PROVE ReflectionInv'
  <2>1. /\ UNCHANGED <<src, dst, seen, cur, present, known, fp, read, since, half>>
        /\ loginPc[c] = "lock" /\ loginPc' = [loginPc EXCEPT ![c] = "ask"]
        /\ itemMu[Uses[c]] = NoLogin /\ itemMu' = [itemMu EXCEPT ![Uses[c]] = c]
        /\ todo' = [todo EXCEPT ![c] = {t \in LakeTable : src[t] > 0}]
        /\ crossed' = crossed \cup {cur[d] : d \in {e \in Login \ {c} : Replaces(e)}}
    BY <1>4, Places DEF R!Lock, R!Goto, R!outside
  <2>2. /\ loginPc'[c] = "ask" /\ todo'[c] = {t \in LakeTable : src[t] > 0}
        /\ \A d \in Login \ {c} :
             loginPc'[d] = loginPc[d] /\ todo'[d] = todo[d] /\ (Inside(d)' <=> Inside(d))
        /\ ~Replaces(c)'
    BY <1>typed, <2>1 DEF LoginsTyped, Inside, AtTable, Replaces
  <2>3. LoginsTyped'
    BY <1>typed, <2>1 DEF LoginsTyped
  <2>4. Appended'
    BY <1>appended, <2>1 DEF Appended
  <2>more. /\ \A t : t \in crossed => t \in crossed'
           /\ \A d \in Login \ {c} : Replaces(d) => cur[d] \in crossed'
    BY <2>1
  <2>5. ASSUME NEW t \in LakeTable PROVE Copied(t)'
    BY <1>copied, <2>1, <2>2, <2>more DEF Copied
  <2>6. TableInHand(c)' /\ StillThere(c)'
    BY <2>2 DEF TableInHand, StillThere, AtTable
  <2>7. DoneTables(c)'
    BY <1>typed, <1>appended, <2>1, <2>2 DEF DoneTables, Appended, LoginsTyped
  <2>8. ASSUME NEW d \in Login \ {c}, Inside(d)
        PROVE  TableInHand(d)' /\ DoneTables(d)' /\ StillThere(d)'
    <3>1. loginPc'[d] = loginPc[d] /\ todo'[d] = todo[d]
      BY <2>2
    <3>2. TableInHand(d)'
      BY <1>login, <2>1, <2>8, <2>more, <3>1
      DEF TableInHand, HandTyped, HandCopied, AtTable, Replaces
    <3> QED BY <1>login, <2>1, <2>8, <2>more, <3>1, <3>2 DEF DoneTables, StillThere, AtTable
  <2>9. Locked'
    <3>1. ASSUME NEW d \in Login \ {c}, Inside(d) PROVE itemMu'[Uses[d]] = d
      <4>1. itemMu[Uses[d]] = d /\ d # NoLogin
        BY <3>1 DEF ReflectionInv, Locked, R!ReflectionAssumption
      <4> QED BY <1>typed, <2>1, <4>1 DEF LoginsTyped
    <3>2. itemMu'[Uses[c]] = c
      BY <1>typed, <1>uses, <2>1 DEF LoginsTyped
    <3> QED BY <2>2, <3>1, <3>2 DEF Locked
  <2>10. AloneOrCrossed'
    <3> SUFFICES ASSUME NEW e \in Login, NEW d \in Login, e # d, Replaces(e)', Inside(d)'
                 PROVE  cur[e] \in crossed'
      BY <2>1 DEF AloneOrCrossed
    <3>1. e # c /\ Replaces(e)
      BY <2>2 DEF Replaces, AtTable
    <3> QED BY <2>more, <3>1
  <2> QED BY <2>2, <2>3, <2>4, <2>5, <2>6, <2>7, <2>8, <2>9, <2>10 DEF ReflectionInv, LoginInv
<1>5. ASSUME NEW c \in Login, R!Ask(c) PROVE ReflectionInv'
  <2>1. /\ UNCHANGED <<src, dst, seen, itemMu, todo, cur, fp, read, since, half, crossed>>
        /\ loginPc[c] = "ask" /\ loginPc' = [loginPc EXCEPT ![c] = "next"]
    BY <1>5 DEF R!Ask, R!Goto
  <2>2. PICK has \in SUBSET LakeTable, answered \in BOOLEAN :
          /\ present' = [present EXCEPT ![c] = has] /\ known' = [known EXCEPT ![c] = answered]
          /\ \A t \in has : dst[t] # R!Absent
    <3>1. CASE present' = [present EXCEPT ![c] = {}] /\ known' = [known EXCEPT ![c] = FALSE]
      <4>1. {} \in SUBSET LakeTable /\ (\A t \in {} : dst[t] # R!Absent) /\ FALSE \in BOOLEAN
        OBVIOUS
      <4> QED BY <3>1, <4>1
    <3>2. CASE /\ present' = [present EXCEPT ![c] = {t \in LakeTable : dst[t] # R!Absent}]
               /\ known' = [known EXCEPT ![c] = TRUE]
      <4> DEFINE has == {t \in LakeTable : dst[t] # R!Absent}
      <4>1. has \in SUBSET LakeTable /\ (\A t \in has : dst[t] # R!Absent) /\ TRUE \in BOOLEAN
        OBVIOUS
      <4>2. present' = [present EXCEPT ![c] = has] /\ known' = [known EXCEPT ![c] = TRUE]
        BY <3>2
      <4> HIDE DEF has
      <4> QED BY <4>1, <4>2
    <3> QED BY <1>5, <3>1, <3>2 DEF R!Ask
  <2>3. /\ Inside(c) /\ Inside(c)' /\ loginPc'[c] = "next" /\ ~Replaces(c)'
        /\ \A d \in Login \ {c} :
             loginPc'[d] = loginPc[d] /\ present'[d] = present[d] /\ known'[d] = known[d]
    BY <1>typed, <2>1, <2>2 DEF LoginsTyped, Inside, AtTable, Replaces
  <2>4. LoginsTyped'
    BY <1>typed, <2>1, <2>2 DEF LoginsTyped
  <2>5. ASSUME NEW t \in LakeTable PROVE Copied(t)'
    BY <1>copied, <2>1, <2>3 DEF Copied
  <2>6. TableInHand(c)'
    BY <2>3 DEF TableInHand, AtTable
  <2>7. DoneTables(c)'
    BY <1>login, <2>1, <2>3 DEF DoneTables, AtTable
  <2>8. StillThere(c)'
    BY <1>typed, <2>1, <2>2 DEF StillThere, LoginsTyped
  <2>9. \A r \in Reflector, t \in LakeTable : seen'[r][t] <= src[t]
    BY <1>appended, <2>1 DEF Appended
  <2>10. AloneOrCrossed' /\ \A t \in LakeTable : Settled(t)
    BY <1>alone, <2>1, <2>3 DEF AloneOrCrossed, Settled, Replaces, Inside, AtTable
  <2> QED BY <2>1, <2>3, <2>4, <2>5, <2>6, <2>7, <2>8, <2>9, <2>10, LoginGoesOn
<1>6. ASSUME NEW c \in Login, R!Fingerprint(c) PROVE ReflectionInv'
  <2> DEFINE alike(t) == seen[Uses[c]][t] = src[t] /\ known[c] /\ t \in present[c]
  <2>1. PICK t \in todo[c] :
          /\ loginPc[c] = "next" /\ todo' = [todo EXCEPT ![c] = @ \ {t}]
          /\ IF alike(t)
             THEN UNCHANGED <<loginPc, cur, fp, crossed>>
             ELSE /\ cur' = [cur EXCEPT ![c] = t]
                  /\ fp' = [fp EXCEPT ![c] = src[t]]
                  /\ crossed' = IF R!Others(c) # {} THEN crossed \cup {t} ELSE crossed
                  /\ R!Goto(c, "read")
          /\ UNCHANGED <<src, half, dst, seen, itemMu, present, known, read, since>>
    BY <1>6 DEF R!Fingerprint
  <2>2. t \in LakeTable /\ Inside(c) /\ ~AtTable(c)
    BY <1>typed, <2>1 DEF LoginsTyped, Inside, AtTable
  <2>3. /\ todo'[c] = todo[c] \ {t}
        /\ \A d \in Login \ {c} :
             /\ loginPc'[d] = loginPc[d] /\ todo'[d] = todo[d] /\ cur'[d] = cur[d]
             /\ fp'[d] = fp[d]
    BY <1>typed, <2>1 DEF LoginsTyped, R!Goto
  <2>others. R!Others(c) = {d \in Login \ {c} : Inside(d)}
    BY Places
  <2>more. /\ \A x : x \in crossed => x \in crossed'
           /\ ~alike(t) /\ t \notin crossed' => \A d \in Login \ {c} : ~Inside(d)
    BY <2>1, <2>others
  <2>4. LoginsTyped'
    <3>1. todo' \in [Login -> SUBSET LakeTable]
      BY <1>typed, <2>1 DEF LoginsTyped
    <3>2. CASE UNCHANGED <<loginPc, cur, fp>>
      BY <1>typed, <2>1, <3>1, <3>2 DEF LoginsTyped
    <3>3. CASE /\ cur' = [cur EXCEPT ![c] = t] /\ fp' = [fp EXCEPT ![c] = src[t]]
               /\ R!Goto(c, "read")
      BY <1>typed, <2>1, <2>2, <3>1, <3>3 DEF LoginsTyped, R!Goto
    <3> QED BY <2>1, <3>2, <3>3
  <2>5. ASSUME NEW x \in LakeTable PROVE Copied(x)'
    <3>1. \A d \in Login : loginPc[d] = "insert" => d # c
      BY <2>1
    <3> QED BY <1>copied, <2>1, <2>3, <2>more, <3>1 DEF Copied
  <2>6. StillThere(c)'
    BY <1>login, <2>1, <2>2, <2>3, <2>more DEF StillThere
  <2>7. \A r \in Reflector, x \in LakeTable : seen'[r][x] <= src[x]
    BY <1>appended, <2>1 DEF Appended
  <2>8. CASE alike(t)
    <3>1. UNCHANGED <<loginPc, cur, fp, crossed>>
      BY <2>1, <2>8
    <3>2. Inside(c)' /\ ~AtTable(c)' /\ TableInHand(c)'
      BY <2>2, <3>1 DEF Inside, AtTable, TableInHand
    <3>3. since[c][t] > 0 /\ t \notin half /\ t \notin crossed => since[c][t] <= dst[t]
      <4>1. ASSUME NEW d \in Login, loginPc[d] = "insert", cur[d] = t PROVE t \in crossed
        <5>1. d # c /\ Replaces(d)
          BY <2>1, <4>1 DEF Replaces, AtTable
        <5> QED BY <1>alone, <2>2, <4>1, <5>1 DEF AloneOrCrossed
      <4>2. since[c][t] > 0 /\ t \notin crossed => dst[t] # R!Absent
        BY <1>login, <2>1, <2>2, <2>8 DEF StillThere
      <4>3. since[c][t] <= src[t] /\ since[c][t] \in Nat /\ src[t] \in Nat /\ dst[t] \in Int
        BY <1>typed, <1>appended, <2>2 DEF Appended, LoginsTyped
      <4> QED BY <1>copied, <1>uses, <2>2, <2>8, <4>1, <4>2, <4>3 DEF Copied
    <3>4. DoneTables(c)'
      BY <1>login, <2>1, <2>2, <2>3, <3>1, <3>2, <3>3 DEF DoneTables
    <3>5. AloneOrCrossed' /\ \A x \in LakeTable : Settled(x)
      BY <1>alone, <2>1, <3>1 DEF AloneOrCrossed, Settled, Replaces, Inside, AtTable
    <3> HIDE DEF alike
    <3> QED BY <2>1, <2>2, <2>3, <2>4, <2>5, <2>6, <2>7, <3>2, <3>4, <3>5, LoginGoesOn
  <2>9. CASE ~alike(t)
    <3>1. cur'[c] = t /\ fp'[c] = src[t] /\ loginPc'[c] = "read"
      BY <1>typed, <2>1, <2>9 DEF LoginsTyped, R!Goto
    <3>2. Inside(c)' /\ AtTable(c)' /\ Replaces(c)'
      BY <3>1 DEF Inside, AtTable, Replaces
    <3>3. TableInHand(c)'
      <4>1. /\ since[c][t] <= src[t] /\ src[t] <= src[t]
            /\ \A r \in Reflector : seen[r][t] <= src[t]
        BY <1>typed, <1>appended, <2>2 DEF Appended, LoginsTyped
      <4> QED BY <2>1, <2>2, <2>3, <3>1, <4>1 DEF TableInHand, HandTyped, HandCopied
    <3>4. DoneTables(c)'
      BY <1>login, <2>1, <2>2, <2>3, <2>more, <3>1, <3>2 DEF DoneTables
    <3>5. AloneOrCrossed'
      <4> SUFFICES ASSUME NEW e \in Login, NEW d \in Login, e # d, Replaces(e)', Inside(d)'
                   PROVE  cur'[e] \in crossed'
        BY DEF AloneOrCrossed
      <4>1. CASE e = c
        BY <2>3, <2>9, <2>more, <3>1, <4>1 DEF Inside, AtTable
      <4>2. CASE e # c
        <5>1. Replaces(e) /\ Inside(d)
          BY <2>2, <2>3, <4>2 DEF Replaces, Inside, AtTable
        <5> QED BY <1>alone, <2>3, <2>more, <4>2, <5>1 DEF AloneOrCrossed
      <4> QED BY <4>1, <4>2
    <3>6. \A d \in Login \ {c} : Inside(d) => \A x \in LakeTable : Settled(x)
      <4>1. \A x : x \in crossed' => x \in crossed \/ x = t
        BY <2>1
      <4> QED BY <2>1, <2>9, <2>more, <4>1 DEF Settled
    <3> HIDE DEF alike
    <3> QED BY <2>1, <2>2, <2>3, <2>4, <2>5, <2>6, <2>7, <3>2, <3>3, <3>4, <3>5, <3>6, LoginGoesOn
  <2> QED BY <2>8, <2>9
<1>7. ASSUME NEW c \in Login, R!ReadDeltaTable(c) PROVE ReflectionInv'
  <2>1. /\ UNCHANGED <<src, dst, seen, itemMu, todo, cur, present, known, fp, since, half, crossed>>
        /\ loginPc[c] = "read" /\ loginPc' = [loginPc EXCEPT ![c] = "drop"]
        /\ read' = [read EXCEPT ![c] = src[cur[c]]]
    BY <1>7 DEF R!ReadDeltaTable, R!Goto, R!outside
  <2>2. /\ Inside(c) /\ AtTable(c) /\ Inside(c)' /\ AtTable(c)' /\ loginPc'[c] = "drop"
        /\ \A d \in Login \ {c} : loginPc'[d] = loginPc[d] /\ read'[d] = read[d]
    BY <1>typed, <2>1 DEF LoginsTyped, Inside, AtTable
  <2>3. cur[c] \in LakeTable /\ src[cur[c]] \in Nat
    BY <1>typed, <1>login, <2>2 DEF TableInHand, HandTyped, LoginsTyped
  <2>4. LoginsTyped' /\ read'[c] = src[cur[c]]
    BY <1>typed, <2>1, <2>3 DEF LoginsTyped
  <2>5. ASSUME NEW t \in LakeTable PROVE Copied(t)'
    BY <1>copied, <2>1, <2>2 DEF Copied
  <2>6. TableInHand(c)'
    BY <1>login, <2>1, <2>2, <2>4 DEF TableInHand, HandTyped, HandCopied, Replaces, AtTable
  <2>7. DoneTables(c)' /\ StillThere(c)'
    BY <1>login, <2>1, <2>2 DEF DoneTables, StillThere
  <2>8. \A r \in Reflector, t \in LakeTable : seen'[r][t] <= src[t]
    BY <1>appended, <2>1 DEF Appended
  <2>9. AloneOrCrossed' /\ \A t \in LakeTable : Settled(t)
    BY <1>alone, <2>1, <2>2 DEF AloneOrCrossed, Settled, Replaces, Inside, AtTable
  <2> QED BY <2>1, <2>2, <2>4, <2>5, <2>6, <2>7, <2>8, <2>9, LoginGoesOn
<1>8. ASSUME NEW c \in Login, NEW place \in {"create", "insert", "record"}, NEW have \in Int,
             UNCHANGED <<src, seen, itemMu, todo, cur, present, known, fp, read, since>>,
             loginPc[c] \in {"drop", "create", "insert"}, R!Goto(c, place),
             dst' = [dst EXCEPT ![cur[c]] = have], half' \in {half, half \ {cur[c]}},
             place = "create" => have = R!Absent /\ half' = half /\ crossed' = crossed,
             place = "insert" => have = R!Empty /\ half' = half /\ crossed' = crossed,
             place = "record" => have = read[c],
             \/ crossed' = crossed
             \/ /\ place = "record" /\ crossed' = crossed \ {cur[c]} /\ have = src[cur[c]]
                /\ \A d \in Login \ {c} : Replaces(d) => cur[d] # cur[c]
      PROVE  ReflectionInv'
  <2>1. /\ Inside(c) /\ AtTable(c) /\ Replaces(c)
        /\ Inside(c)' /\ AtTable(c)' /\ loginPc'[c] = place
        /\ \A d \in Login \ {c} : loginPc'[d] = loginPc[d]
        /\ Replaces(c)' => place # "record"
    BY <1>8, <1>typed DEF LoginsTyped, R!Goto, Inside, AtTable, Replaces
  <2>2. /\ cur[c] \in LakeTable /\ dst'[cur[c]] = have
        /\ \A t \in LakeTable \ {cur[c]} :
             dst'[t] = dst[t] /\ (t \in half' <=> t \in half) /\ (t \in crossed' <=> t \in crossed)
    BY <1>8, <1>typed, <1>login, <2>1 DEF TableInHand, HandTyped, LoginsTyped
  <2>3. LoginsTyped'
    BY <1>8, <1>typed DEF LoginsTyped, R!Goto
  <2>4. HandTyped(c) /\ HandCopied(c)
    BY <1>login, <2>1 DEF TableInHand
  <2>5. /\ fp[c] \in Nat /\ read[c] \in Nat /\ since[c][cur[c]] \in Nat /\ src[cur[c]] \in Nat
        /\ \A r \in Reflector : seen[r][cur[c]] \in Nat /\ seen[r][cur[c]] <= src[cur[c]]
    BY <1>typed, <1>appended, <2>2 DEF LoginsTyped, Appended
  <2>record. place = "record" => fp[c] <= have
    BY <1>8, <2>4 DEF HandTyped
  <2>6. ASSUME NEW t \in LakeTable PROVE Copied(t)'
    <3>1. CASE t # cur[c]
      <4>1. \A d \in Login : loginPc[d] = "insert" /\ cur[d] = t => d # c
        BY <3>1
      <4> QED BY <1>8, <1>copied, <2>1, <2>2, <3>1, <4>1 DEF Copied
    <3>2. CASE t = cur[c] /\ place = "record"
      <4> SUFFICES ASSUME t \notin crossed', NEW r \in Reflector PROVE seen[r][t] <= have
        BY <1>8, <2>2, <3>2 DEF Copied
      <4>1. CASE t \in crossed
        BY <1>8, <2>5, <3>2, <4>1
      <4>2. CASE t \notin crossed
        BY <2>1, <2>4, <2>5, <2>record, <3>2, <4>2 DEF HandCopied
      <4> QED BY <4>1, <4>2
    <3>3. CASE t = cur[c] /\ place # "record"
      BY <1>8, <2>1, <2>2, <3>3 DEF Copied, R!Absent
    <3> QED BY <3>1, <3>2, <3>3
  <2>7. TableInHand(c)'
    <3>1. HandTyped(c)'
      BY <1>8, <2>1, <2>4 DEF HandTyped
    <3>2. HandCopied(c)'
      <4>1. CASE place = "record"
        BY <1>8, <2>1, <2>2, <2>record, <4>1 DEF HandCopied, Replaces
      <4>2. CASE place # "record"
        BY <1>8, <2>1, <2>2, <2>4, <4>2 DEF HandCopied
      <4> QED BY <4>1, <4>2
    <3> QED BY <3>1, <3>2 DEF TableInHand
  <2>8. DoneTables(c)'
    BY <1>8, <1>login, <2>1, <2>2 DEF DoneTables
  <2>9. StillThere(c)'
    <3>1. cur[c] \notin todo[c]
      BY <2>4 DEF HandTyped
    <3>2. todo[c] \subseteq LakeTable /\ loginPc[c] # "ask"
      BY <1>8, <1>typed DEF LoginsTyped
    <3> QED BY <1>8, <1>login, <2>1, <2>2, <3>1, <3>2 DEF StillThere
  <2>10. \A r \in Reflector, t \in LakeTable : seen'[r][t] <= src[t]
    BY <1>8, <1>appended DEF Appended
  <2>11. AloneOrCrossed'
    <3> SUFFICES ASSUME NEW e \in Login, NEW d \in Login, e # d, Replaces(e)', Inside(d)'
                 PROVE  cur[e] \in crossed'
      BY <1>8 DEF AloneOrCrossed
    <3>1. Replaces(e) /\ Inside(d)
      BY <2>1 DEF Replaces, Inside, AtTable
    <3>2. cur[e] \in crossed
      BY <1>alone, <3>1 DEF AloneOrCrossed
    <3>3. crossed' = crossed \/ cur[e] # cur[c]
      BY <1>8, <2>1, <3>1
    <3> QED BY <1>8, <3>2, <3>3
  <2>12. ASSUME NEW d \in Login \ {c}, Inside(d), NEW t \in LakeTable PROVE Settled(t)
    <3>1. cur[c] \in crossed
      BY <1>alone, <2>1, <2>12 DEF AloneOrCrossed
    <3>2. CASE t = cur[c]
      BY <1>8, <2>2, <3>1, <3>2 DEF Settled
    <3>3. CASE t # cur[c]
      BY <2>2, <3>3 DEF Settled
    <3> QED BY <3>2, <3>3
  <2> QED BY <1>8, <2>1, <2>3, <2>6, <2>7, <2>8, <2>9, <2>10, <2>11, <2>12, LoginGoesOn
<1>9. ASSUME NEW c \in Login, R!DropReflected(c) PROVE ReflectionInv'
  <2>1. /\ UNCHANGED <<src, seen, itemMu, todo, cur, present, known, fp, read, since, half, crossed>>
        /\ loginPc[c] = "drop" /\ R!Goto(c, "create") /\ dst' = [dst EXCEPT ![cur[c]] = R!Absent]
    BY <1>9 DEF R!DropReflected, R!outside, R!login
  <2>2. R!Absent \in Int
    BY DEF R!Absent
  <2> QED BY <1>8, <2>1, <2>2
<1>10. ASSUME NEW c \in Login, R!CreateTable(c) PROVE ReflectionInv'
  <2>1. /\ UNCHANGED <<src, seen, itemMu, todo, cur, present, known, fp, read, since, half, crossed>>
        /\ loginPc[c] = "create" /\ R!Goto(c, "insert") /\ dst' = [dst EXCEPT ![cur[c]] = R!Empty]
    BY <1>10 DEF R!CreateTable, R!outside, R!login
  <2>2. R!Empty \in Int
    BY DEF R!Empty
  <2> QED BY <1>8, <2>1, <2>2
<1>11. ASSUME NEW c \in Login, R!BulkInsert(c) PROVE ReflectionInv'
  <2>1. read[c] \in Int
    BY <1>typed DEF LoginsTyped
  <2>2. /\ UNCHANGED <<src, seen, itemMu, todo, cur, present, known, fp, read, since>>
        /\ loginPc[c] = "insert" /\ R!Goto(c, "record")
        /\ dst' = [dst EXCEPT ![cur[c]] = read[c]] /\ half' = half \ {cur[c]}
    BY <1>11 DEF R!BulkInsert, R!login
  <2>3. \/ crossed' = crossed
        \/ /\ crossed' = crossed \ {cur[c]} /\ read[c] = src[cur[c]]
           /\ \A d \in Login \ {c} : Replaces(d) => cur[d] # cur[c]
    BY <1>11, Places DEF R!BulkInsert
  <2> QED BY <1>8, <2>1, <2>2, <2>3
<1>12. ASSUME NEW c \in Login, R!Record(c) PROVE ReflectionInv'
  <2>1. /\ UNCHANGED <<src, dst, itemMu, todo, cur, present, known, fp, read, since, half, crossed>>
        /\ loginPc[c] = "record" /\ loginPc' = [loginPc EXCEPT ![c] = "next"]
        /\ seen' = [seen EXCEPT ![Uses[c]][cur[c]] = fp[c]]
    BY <1>12 DEF R!Record, R!Goto, R!outside, R!login
  <2>2. /\ Inside(c) /\ AtTable(c) /\ Inside(c)' /\ ~AtTable(c)' /\ loginPc'[c] = "next"
        /\ \A d \in Login \ {c} : loginPc'[d] = loginPc[d]
    BY <1>typed, <2>1 DEF LoginsTyped, Inside, AtTable
  <2>3. HandTyped(c) /\ HandCopied(c) /\ cur[c] \in LakeTable
    BY <1>login, <2>2 DEF TableInHand, HandTyped
  <2>4. LoginsTyped'
    BY <1>typed, <1>uses, <2>1, <2>3 DEF LoginsTyped
  <2>5. \A r \in Reflector, t \in LakeTable :
          seen'[r][t] = IF r = Uses[c] /\ t = cur[c] THEN fp[c] ELSE seen[r][t]
    BY <1>typed, <1>uses, <2>1, <2>3 DEF LoginsTyped
  <2>6. ASSUME NEW t \in LakeTable PROVE Copied(t)'
    <3>1. \A d \in Login : loginPc[d] = "insert" => d # c
      BY <2>1
    <3> SUFFICES ASSUME t \notin crossed, NEW r \in Reflector
                 PROVE  \/ dst[t] = R!Absent
                        \/ seen'[r][t] <= dst[t]
                        \/ dst[t] = R!Empty /\ (t \in half \/ seen'[r][t] < src[t])
                        \/ \E d \in Login : loginPc'[d] = "insert" /\ cur[d] = t
      BY <2>1 DEF Copied
    <3>2. CASE t = cur[c] /\ r = Uses[c]
      BY <2>1, <2>3, <2>5, <3>2 DEF HandCopied
    <3>3. CASE ~(t = cur[c] /\ r = Uses[c])
      BY <1>copied, <2>2, <2>5, <3>1, <3>3 DEF Copied
    <3> QED BY <3>2, <3>3
  <2>7. TableInHand(c)' /\ StillThere(c)'
    BY <1>login, <2>1, <2>2 DEF TableInHand, StillThere
  <2>8. DoneTables(c)'
    <3>1. since[c][cur[c]] > 0 /\ cur[c] \notin crossed => since[c][cur[c]] <= dst[cur[c]]
      <4>1. since[c][cur[c]] \in Nat /\ fp[c] \in Nat /\ dst[cur[c]] \in Int
        BY <1>typed, <2>3 DEF LoginsTyped
      <4> QED BY <2>1, <2>2, <2>3, <4>1 DEF HandTyped, HandCopied
    <3> QED BY <1>login, <2>1, <2>2, <3>1 DEF DoneTables
  <2>9. \A r \in Reflector, t \in LakeTable : seen'[r][t] <= src[t]
    BY <1>appended, <2>2, <2>3, <2>5 DEF Appended, HandTyped
  <2>10. AloneOrCrossed' /\ \A t \in LakeTable : Settled(t)
    BY <1>alone, <2>1, <2>2 DEF AloneOrCrossed, Settled, Replaces, Inside, AtTable
  <2> QED BY <2>1, <2>2, <2>4, <2>6, <2>7, <2>8, <2>9, <2>10, LoginGoesOn
<1>13. ASSUME NEW c \in Login, R!Reflected(c) PROVE ReflectionInv'
  <2>1. /\ UNCHANGED <<src, dst, seen, itemMu, todo, cur, present, known, fp, read, since>>
        /\ UNCHANGED <<half, crossed>>
        /\ loginPc[c] = "next" /\ todo[c] = {} /\ loginPc' = [loginPc EXCEPT ![c] = "reflected"]
    BY <1>13 DEF R!Reflected, R!Goto, R!outside, R!login
  <2>2. /\ Inside(c) /\ ~AtTable(c) /\ Inside(c)' /\ ~AtTable(c)' /\ loginPc'[c] = "reflected"
        /\ \A d \in Login \ {c} : loginPc'[d] = loginPc[d]
    BY <1>typed, <2>1 DEF LoginsTyped, Inside, AtTable
  <2>3. LoginsTyped'
    BY <1>typed, <2>1 DEF LoginsTyped
  <2>4. ASSUME NEW t \in LakeTable PROVE Copied(t)'
    BY <1>copied, <2>1, <2>2 DEF Copied
  <2>5. TableInHand(c)' /\ DoneTables(c)' /\ StillThere(c)'
    BY <1>login, <2>1, <2>2 DEF TableInHand, DoneTables, StillThere
  <2>6. \A r \in Reflector, t \in LakeTable : seen'[r][t] <= src[t]
    BY <1>appended, <2>1 DEF Appended
  <2>7. AloneOrCrossed' /\ \A t \in LakeTable : Settled(t)
    BY <1>alone, <2>1, <2>2 DEF AloneOrCrossed, Settled, Replaces, Inside, AtTable
  <2> QED BY <2>1, <2>2, <2>3, <2>4, <2>5, <2>6, <2>7, LoginGoesOn
<1>14. ASSUME NEW c \in Login, R!Succeed(c) PROVE ReflectionInv'
  BY <1>14, LoginLeaves DEF R!Succeed, R!outside, Inside, AtTable
<1>15. ASSUME NEW c \in Login, R!Goto(c, "out"), R!CutOff(c), R!Forgotten(c), Inside(c),
              UNCHANGED <<src, dst, seen, crossed>>
       PROVE  ReflectionInv'
  <2>1. half \subseteq half'
    BY <1>15 DEF R!CutOff
  <2>2. loginPc[c] = "insert" /\ dst[cur[c]] = R!Empty =>
          cur[c] \in half' \/ \A r \in Reflector : seen[r][cur[c]] # fp[c]
    BY <1>15 DEF R!CutOff
  <2> QED BY <1>15, <2>1, <2>2, LoginLeaves
<1>16. ASSUME NEW c \in Login, R!Fail(c) PROVE ReflectionInv'
  BY <1>15, <1>16 DEF R!Fail, R!Working, Inside, AtTable
<1>17. ASSUME NEW c \in Login, R!LoginTimeout(c) PROVE ReflectionInv'
  BY <1>15, <1>17 DEF R!LoginTimeout, R!Working, Inside, AtTable
<1>18. ASSUME NEW c \in Login, R!Disconnect(c) PROVE ReflectionInv'
  <2>1. /\ UNCHANGED <<src, dst, seen, itemMu, todo, cur, present, known, fp, read, since>>
        /\ UNCHANGED <<half, crossed>>
        /\ loginPc[c] = "in" /\ loginPc' = [loginPc EXCEPT ![c] = "out"]
    BY <1>18 DEF R!Disconnect, R!Goto, R!outside, R!login
  <2>2. loginPc'[c] = "out" /\ ~Inside(c)' /\ \A d \in Login \ {c} : loginPc'[d] = loginPc[d]
    BY <1>typed, <2>1 DEF LoginsTyped, Inside, AtTable
  <2>3. LoginsTyped' /\ Appended'
    BY <1>typed, <1>appended, <2>1 DEF LoginsTyped, Appended
  <2>4. ASSUME NEW t \in LakeTable PROVE Copied(t)'
    BY <1>copied, <2>1, <2>2 DEF Copied
  <2>5. ASSUME NEW d \in Login PROVE LoginInv(d)'
    <3> SUFFICES ASSUME Inside(d)' PROVE TableInHand(d)' /\ DoneTables(d)' /\ StillThere(d)'
      BY DEF LoginInv
    <3>1. d # c /\ Inside(d) /\ loginPc'[d] = loginPc[d]
      BY <2>2 DEF Inside, AtTable
    <3>2. TableInHand(d)'
      BY <1>login, <2>1, <3>1 DEF TableInHand, HandTyped, HandCopied, AtTable, Replaces
    <3> QED BY <1>login, <2>1, <3>1, <3>2 DEF DoneTables, StillThere, AtTable
  <2>6. Locked' /\ AloneOrCrossed'
    BY <2>1, <2>2 DEF ReflectionInv, Locked, AloneOrCrossed, Replaces, Inside, AtTable
  <2> QED BY <2>3, <2>4, <2>5, <2>6 DEF ReflectionInv
<1>19. CASE UNCHANGED R!vars
  <2>1. /\ UNCHANGED <<src, dst, seen, itemMu, loginPc, todo, cur, present, known>>
        /\ UNCHANGED <<fp, read, since, half, crossed>>
    BY <1>19 DEF R!vars, R!login
  <2> QED BY <2>1 DEF ReflectionInv, LoginsTyped, Locked, Appended, AloneOrCrossed, Copied, LoginInv,
                      TableInHand, HandTyped, HandCopied, DoneTables, StillThere, Inside, AtTable,
                      Replaces
<1> QED
  BY <1>1, <1>2, <1>3, <1>4, <1>5, <1>6, <1>7, <1>9, <1>10, <1>11, <1>12, <1>13, <1>14, <1>16,
     <1>17, <1>18, <1>19 DEF R!Next, R!Step

-----------------------------------------------------------------------------
(* The history of warehouse tables.                                         *)

Statements == [kind : {"write", "drop", "rename"}, name : SqlTable, to : SqlTable]
VersionCommits == [at : Nat, adds : SUBSET Nat, removes : SUBSET Nat]

\* A statement is where its observer is; only writes are observed in several steps.
HistoryTyped ==
  /\ time \in Nat /\ executed \in Nat
  /\ table = [n \in SqlTable |-> table[n]] /\ data = [n \in SqlTable |-> data[n]]
  /\ log \in [SqlTable -> Seq(VersionCommits)]
  /\ pc \in [Connection -> {"idle", "accepted", "commit", "data", "expire"}]
  /\ flow = [s \in Connection |-> flow[s]] /\ snap = [s \in Connection |-> snap[s]]
  /\ \A s \in Connection :
       /\ pc[s] # "idle" => flow[s] \in Statements
       /\ pc[s] # "idle" /\ flow[s].kind = "rename" => flow[s].name # flow[s].to
       /\ pc[s] \in {"commit", "data", "expire"} => flow[s].kind = "write"
  /\ versionMu \in Connection \cup {NoConnection}

\* Made up to t, one after another, every commit adds the file of its version and removes
\* the one before.
InOrder(commits, t) ==
  \A i \in 1 .. Len(commits) :
    /\ commits[i].adds = {i - 1} /\ commits[i].removes = (IF i = 1 THEN {} ELSE {i - 2})
    /\ commits[i].at <= t
    /\ \A j \in 1 .. i : commits[j].at <= commits[i].at

\* Base, of a cutoff.
BaseAt(commits, c) ==
  LET old == {i \in DOMAIN commits : commits[i].at <= c}
  IN IF old = {} THEN 0 ELSE CHOOSE i \in old : \A j \in old : j <= i

\* The files of the commit in force at the cutoff, and of those after it, are there.
WindowKept(n) ==
  \A i \in 1 .. Len(log[n]) : i >= BaseAt(log[n], H!RetentionCutoff) => i - 1 \in DOMAIN data[n]

\* Between its file and its commit, an observer holds the lock.
DataUnderLock(s) ==
  pc[s] = "data" =>
    LET n == flow[s].name
    IN /\ versionMu = s
       /\ Len(log[n]) \in DOMAIN data[n] /\ data[n][Len(log[n])] = snap[s]

WindowInv ==
  /\ \A n \in SqlTable : InOrder(log[n], time) /\ WindowKept(n)
  /\ \A s \in Connection : DataUnderLock(s)

-----------------------------------------------------------------------------
\* The versions of n are of object o; the newest is what the table is.
FilesOf(n, o) ==
  \A i \in 1 .. Len(log[n]) : i - 1 \in DOMAIN data[n] => data[n][i - 1].obj = o
NewestIs(n, t) == Len(log[n]) > 0 /\ data[n][Len(log[n]) - 1] = t

HistorySettled(n) ==
  IF table[n] = H!NoTable THEN log[n] = <<>>
  ELSE FilesOf(n, table[n].obj) /\ (n \notin gap => NewestIs(n, table[n]))

\* What an observer is about to make of the history of its statement's table.
Writing(s) ==
  LET n == flow[s].name
  IN /\ table[n] # H!NoTable /\ FilesOf(n, table[n].obj)
     /\ pc[s] \in {"commit", "data"} => snap[s] = table[n]
     /\ pc[s] = "expire" => HistorySettled(n)

Renaming(s) ==
  LET n == flow[s].name  to == flow[s].to
  IN /\ n # to /\ to \notin torn
     /\ table[n] = H!NoTable /\ table[to] # H!NoTable
     /\ FilesOf(n, table[to].obj) /\ (to \notin gap => NewestIs(n, table[to]))
     /\ log[to] = <<>>

Observing(s) ==
  /\ flow[s].kind = "write" => Writing(s)
  /\ flow[s].kind = "drop" => table[flow[s].name] = H!NoTable
  /\ flow[s].kind = "rename" => Renaming(s)

ObjectInv ==
  /\ \A n \in SqlTable \ torn :
       /\ ~H!Pending(n) => HistorySettled(n)
       /\ \A r, s \in Connection :
            /\ pc[r] # "idle" /\ n \in H!Touched(flow[r])
            /\ pc[s] # "idle" /\ n \in H!Touched(flow[s])
            => r = s
  /\ \A s \in Connection : pc[s] # "idle" /\ flow[s].kind = "rename" =>
       (flow[s].name \in torn <=> flow[s].to \in torn)
  /\ \A s \in Connection : pc[s] # "idle" /\ flow[s].name \notin torn => Observing(s)

HistoryInv == HistoryTyped /\ WindowInv /\ ObjectInv

-----------------------------------------------------------------------------
\* A set of numbers that holds 0, and with a number the next, holds them all: were
\* n left out, k - 1 would map those left out up to n one to one into themselves,
\* and so onto themselves; but nothing maps to n.
LEMMA Induction ==
  ASSUME NEW T, 0 \in T, \A n \in Nat : n \in T => n + 1 \in T
  PROVE  Nat \subseteq T
<1> SUFFICES ASSUME NEW n \in Nat, n \notin T PROVE FALSE
  OBVIOUS
<1> DEFINE Out == {k \in 0 .. n : k \notin T}
           f == [k \in Out |-> k - 1]
<1>1. IsFiniteSet(Out)
  <2>1. Out \in SUBSET Nat /\ \A s \in Out : s <= n
    OBVIOUS
  <2> HIDE DEF Out
  <2> QED BY <2>1, FS_BoundedSetOfNaturals
<1>2. \A k \in Out : k - 1 \in Out
  <2> SUFFICES ASSUME NEW k \in Out PROVE k - 1 \in Out
    OBVIOUS
  <2>1. k \in Nat /\ k # 0 /\ k <= n /\ k \notin T
    OBVIOUS
  <2>2. k - 1 \in Nat /\ k - 1 + 1 = k
    BY <2>1
  <2>3. k - 1 \notin T
    BY <2>1, <2>2
  <2> QED BY <2>1, <2>2, <2>3
<1>3. f \in Injection(Out, Out)
  <2>1. \A k \in Out : k \in Int
    OBVIOUS
  <2>2. f \in [Out -> Out]
    BY <1>2
  <2>3. \A a, b \in Out : f[a] = f[b] => a = b
    BY <2>1
  <2> QED BY <2>2, <2>3 DEF Injection, IsInjective
<1>4. f \in Surjection(Out, Out)
  <2> HIDE DEF Out, f
  <2> QED BY <1>1, <1>3, FS_Injection
<1>5. \E k \in Out : f[k] = n
  <2>1. n \in Out
    OBVIOUS
  <2> QED BY <1>4, <2>1 DEF Surjection
<1> QED BY <1>5

LEMMA Greatest ==
  ASSUME NEW m \in Nat, NEW S \in SUBSET (0 .. m), S # {}
  PROVE  \E i \in S : \A j \in S : j <= i
<1> DEFINE U == {k \in Nat : \A s \in SUBSET (0 .. k) : s # {} => \E i \in s : \A j \in s : j <= i}
<1>1. 0 \in U
  <2> SUFFICES ASSUME NEW s \in SUBSET (0 .. 0), s # {} PROVE \E i \in s : \A j \in s : j <= i
    OBVIOUS
  <2>1. \A j \in s : j = 0
    OBVIOUS
  <2>2. PICK i \in s : TRUE
    OBVIOUS
  <2>3. i \in s /\ \A j \in s : j <= i
    BY <2>1
  <2> QED BY <2>3
<1>2. ASSUME NEW k \in Nat, k \in U PROVE k + 1 \in U
  <2> SUFFICES ASSUME NEW s \in SUBSET (0 .. k + 1), s # {} PROVE \E i \in s : \A j \in s : j <= i
    OBVIOUS
  <2>1. CASE k + 1 \in s
    BY <2>1
  <2>2. CASE k + 1 \notin s
    <3>1. s \in SUBSET (0 .. k)
      BY <2>2
    <3> QED BY <1>2, <3>1
  <2> QED BY <2>1, <2>2
<1>3. Nat \subseteq U
  <2> HIDE DEF U
  <2> QED BY <1>1, <1>2, Induction
<1> QED BY <1>3

-----------------------------------------------------------------------------
(* Logs.                                                                     *)

LEMMA CommitIs ==
  ASSUME NEW commits, NEW t, InOrder(commits, t), Len(commits) \in Nat, NEW i \in 1 .. Len(commits)
  PROVE  /\ commits[i].adds = {i - 1} /\ commits[i].removes = IF i = 1 THEN {} ELSE {i - 2}
         /\ commits[i].at <= t
         /\ \A j \in 1 .. i : commits[j].at <= commits[i].at
BY DEF InOrder

LEMMA LiveIs ==
  ASSUME NEW commits, NEW t, InOrder(commits, t), Len(commits) \in Nat, NEW k \in 0 .. Len(commits)
  PROVE  H!Live(commits, k) = IF k = 0 THEN {} ELSE {k - 1}
<1> DEFINE Goes(f) == f = [i \in 0 .. k |->
             IF i = 0 THEN {} ELSE (f[i - 1] \cup commits[i].adds) \ commits[i].removes]
           g == [i \in 0 .. k |-> IF i = 0 THEN {} ELSE {i - 1}]
           live == CHOOSE f : Goes(f)
<1>0. \A i \in 1 .. k : /\ commits[i].adds = {i - 1}
                        /\ commits[i].removes = IF i = 1 THEN {} ELSE {i - 2}
  <2> TAKE i \in 1 .. k
  <2>1. i \in 1 .. Len(commits)
    OBVIOUS
  <2> HIDE DEF g, live, Goes
  <2> QED BY <2>1, CommitIs
<1>k. k \in Nat
  OBVIOUS
<1>1. Goes(g)
  <2>1. ASSUME NEW i \in 0 .. k
        PROVE  g[i] = IF i = 0 THEN {} ELSE (g[i - 1] \cup commits[i].adds) \ commits[i].removes
    <3>1. CASE i = 0
      BY <3>1
    <3>2. CASE i = 1
      <4>1. commits[1].adds = {1 - 1} /\ commits[1].removes = {}
        <5>1. 1 \in 1 .. k
          BY <1>k, <3>2
        <5>2. /\ commits[1].adds = {1 - 1}
              /\ commits[1].removes = IF 1 = 1 THEN {} ELSE {1 - 2}
          BY <1>0, <5>1
        <5> QED BY <5>2
      <4>2. 1 - 1 = 0
        OBVIOUS
      <4>3. commits[1].adds = {0}
        BY <4>1, <4>2
      <4>4. g[1] = {0} /\ g[0] = {}
        BY <3>2, <4>2
      <4> HIDE DEF g
      <4> QED BY <3>2, <4>1, <4>2, <4>3, <4>4
    <3>3. CASE i > 1
      <4>1. commits[i].adds = {i - 1} /\ commits[i].removes = {i - 2}
        <5>1. i \in 1 .. k /\ i # 1
          BY <1>k, <3>3
        <5> HIDE DEF g, live, Goes
        <5>2. /\ commits[i].adds = {i - 1}
              /\ commits[i].removes = IF i = 1 THEN {} ELSE {i - 2}
          BY <1>0, <5>1
        <5> QED BY <5>1, <5>2
      <4>2. i - 1 \in 0 .. k /\ i - 1 # 0 /\ i - 1 - 1 = i - 2 /\ i - 1 # i - 2
        BY <3>3
      <4>3. g[i] = {i - 1} /\ g[i - 1] = {i - 2}
        BY <3>3, <4>2
      <4> HIDE DEF g
      <4> QED BY <3>3, <4>1, <4>2, <4>3
    <3> QED BY <3>1, <3>2, <3>3
  <2>2. g = [i \in 0 .. k |-> g[i]]
    OBVIOUS
  <2> HIDE DEF g
  <2> QED BY <2>1, <2>2
<1>2. Goes(live)
  <2> HIDE DEF Goes, g
  <2> QED BY <1>1
<1> HIDE DEF live
<1>3. live[0] = {}
      /\ \A i \in 1 .. k : live[i] = (live[i - 1] \cup commits[i].adds) \ commits[i].removes
  <2> DEFINE h == [i \in 0 .. k |->
             IF i = 0 THEN {} ELSE (live[i - 1] \cup commits[i].adds) \ commits[i].removes]
  <2>1. live = h
    BY <1>2
  <2>2. h[0] = {}
        /\ \A i \in 1 .. k : h[i] = (live[i - 1] \cup commits[i].adds) \ commits[i].removes
    OBVIOUS
  <2> HIDE DEF h
  <2> QED BY <2>1, <2>2
<1> DEFINE T == {i \in Nat : i <= k => live[i] = IF i = 0 THEN {} ELSE {i - 1}}
<1>4. 0 \in T
  BY <1>3
<1>5. ASSUME NEW i \in Nat, i \in T PROVE i + 1 \in T
  <2>0. k \in Nat
    OBVIOUS
  <2>1. ASSUME i + 1 <= k PROVE live[i + 1] = {i}
    <3>1. live[i] = IF i = 0 THEN {} ELSE {i - 1}
      BY <1>5, <2>0, <2>1
    <3> HIDE DEF T
    <3>2. i + 1 \in 1 .. k /\ i + 1 - 1 = i /\ i + 1 - 2 = i - 1
      BY <2>0, <2>1
    <3>3. (i + 1 = 1 <=> i = 0) /\ i - 1 # i
      OBVIOUS
    <3>4. live[i + 1] = (live[i] \cup commits[i + 1].adds) \ commits[i + 1].removes
      BY <1>3, <3>2
    <3>5. PICK j \in 1 .. k : j = i + 1
      BY <3>2
    <3>6. commits[i + 1].adds = {i} /\ commits[i + 1].removes = IF i = 0 THEN {} ELSE {i - 1}
      <4>1. commits[j].adds = {j - 1} /\ commits[j].removes = IF j = 1 THEN {} ELSE {j - 2}
        BY <1>0
      <4>2. j - 1 = i /\ j - 2 = i - 1 /\ (j = 1 <=> i = 0)
        BY <3>5
      <4>3. {j - 1} = {i} /\ {j - 2} = {i - 1}
        BY <4>2
      <4> QED BY <3>5, <4>1, <4>2, <4>3
    <3>7. CASE i = 0
      BY <3>1, <3>4, <3>6, <3>7
    <3>8. CASE i # 0
      BY <3>1, <3>3, <3>4, <3>6, <3>8
    <3> QED BY <3>7, <3>8
  <2>2. i + 1 # 0 /\ i + 1 - 1 = i
    OBVIOUS
  <2> QED BY <2>1, <2>2
<1>6. Nat \subseteq T
  <2> HIDE DEF T
  <2> QED BY <1>4, <1>5, Induction
<1>7. H!Live(commits, k) = live[k]
  BY DEF H!Live, live
<1>8. k \in T /\ k <= k
  <2>1. k \in Nat
    OBVIOUS
  <2> HIDE DEF T
  <2> QED BY <1>6, <2>1
<1> QED BY <1>7, <1>8

LEMMA Dated ==
  ASSUME NEW commits \in Seq(VersionCommits), NEW i \in 1 .. Len(commits)
  PROVE  commits[i].at \in Nat
<1>1. commits[i] \in VersionCommits
  OBVIOUS
<1> QED BY <1>1 DEF VersionCommits

LEMMA BaseIs ==
  ASSUME NEW c \in Int, NEW commits \in Seq(VersionCommits)
  PROVE  /\ BaseAt(commits, c) \in 0 .. Len(commits)
         /\ BaseAt(commits, c) # 0 => commits[BaseAt(commits, c)].at <= c
         /\ \A i \in 1 .. Len(commits) : commits[i].at <= c => i <= BaseAt(commits, c)
<1> DEFINE old == {i \in DOMAIN commits : commits[i].at <= c}
<1>1. old \in SUBSET (0 .. Len(commits)) /\ old \subseteq 1 .. Len(commits) /\ Len(commits) \in Nat
  OBVIOUS
<1>2. BaseAt(commits, c) = IF old = {} THEN 0 ELSE CHOOSE i \in old : \A j \in old : j <= i
  BY DEF BaseAt
<1>3. CASE old = {}
  BY <1>2, <1>3
<1>4. CASE old # {}
  <2>1. \E i \in old : \A j \in old : j <= i
    <3> HIDE DEF old
    <3> QED BY <1>1, <1>4, Greatest
  <2>2. BaseAt(commits, c) \in old /\ \A j \in old : j <= BaseAt(commits, c)
    <3> HIDE DEF old
    <3> QED BY <1>2, <1>4, <2>1
  <2>3. \A i \in 1 .. Len(commits) : commits[i].at <= c => i \in old
    OBVIOUS
  <2> QED BY <1>1, <2>2, <2>3
<1> QED BY <1>3, <1>4

\* A later cutoff, and a longer log, have a later base.
LEMMA BaseGrows ==
  ASSUME NEW c \in Int, NEW d \in Int, c <= d, NEW before \in Seq(VersionCommits),
         NEW after \in Seq(VersionCommits), Len(before) <= Len(after),
         \A i \in 1 .. Len(before) : after[i] = before[i]
  PROVE  BaseAt(before, c) <= BaseAt(after, d)
<1>1. BaseAt(before, c) \in 0 .. Len(before) /\ BaseAt(after, d) \in 0 .. Len(after)
  BY BaseIs
<1>2. Len(before) \in Nat /\ Len(after) \in Nat
  OBVIOUS
<1>3. PICK b \in 0 .. Len(before) : b = BaseAt(before, c)
  BY <1>1
<1>4. CASE b = 0
  BY <1>1, <1>2, <1>3, <1>4
<1>5. CASE b # 0
  <2>1. b \in 1 .. Len(before) /\ b \in 1 .. Len(after)
    BY <1>2, <1>5
  <2>2. before[b].at <= c /\ before[b].at \in Nat
    BY <1>3, <1>5, <2>1, BaseIs, Dated
  <2>3. after[b].at <= d
    <3>1. after[b].at = before[b].at
      BY <2>1
    <3> QED BY <2>2, <3>1
  <2> QED BY <1>3, <2>1, <2>3, BaseIs
<1> QED BY <1>4, <1>5

LEMMA AppliedIs ==
  ASSUME NEW u \in Nat, NEW c \in Int, NEW commits \in Seq(VersionCommits), InOrder(commits, u),
         NEW t \in Nat, t >= c
  PROVE  /\ H!AppliedAt(commits, t) \in 0 .. Len(commits)
         /\ H!AppliedAt(commits, t) >= BaseAt(commits, c)
<1> DEFINE Fits(k) ==
      /\ \A i \in 1 .. k : commits[i].at <= t
      /\ k < Len(commits) => commits[k + 1].at > t
           S == {k \in 0 .. Len(commits) : \A i \in 1 .. k : commits[i].at <= t}
<1>1. Len(commits) \in Nat /\ S \in SUBSET (0 .. Len(commits)) /\ 0 \in S
  OBVIOUS
<1>2. PICK k \in S : \A j \in S : j <= k
  <2> HIDE DEF S
  <2> QED BY <1>1, Greatest
<1>3. k \in 0 .. Len(commits) /\ Fits(k)
  <2> SUFFICES ASSUME k < Len(commits), ~(commits[k + 1].at > t) PROVE FALSE
    OBVIOUS
  <2>1. k + 1 \in 1 .. Len(commits) /\ commits[k + 1].at \in Nat
    <3> HIDE DEF S, Fits
    <3>1. k + 1 \in 1 .. Len(commits)
      BY <1>1
    <3> QED BY <3>1, Dated
  <2>2. \A i \in 1 .. k + 1 : commits[i].at <= t
    BY <2>1
  <2>3. k + 1 \in S
    BY <2>1, <2>2
  <2> QED BY <1>2, <2>3
<1>4. H!AppliedAt(commits, t) \in 0 .. Len(commits) /\ Fits(H!AppliedAt(commits, t))
  <2>1. H!AppliedAt(commits, t) = CHOOSE j \in 0 .. Len(commits) : Fits(j)
    BY DEF H!AppliedAt
  <2> HIDE DEF Fits
  <2> QED BY <1>3, <2>1
<1>5. PICK a \in 0 .. Len(commits) : a = H!AppliedAt(commits, t)
  BY <1>4
<1>6. /\ BaseAt(commits, c) \in 0 .. Len(commits)
      /\ BaseAt(commits, c) # 0 => commits[BaseAt(commits, c)].at <= c
  BY BaseIs
<1>7. PICK b \in 0 .. Len(commits) : b = BaseAt(commits, c)
  BY <1>6
<1>8. ASSUME a < b PROVE FALSE
  <2>1. a + 1 \in 1 .. Len(commits) /\ a + 1 \in 1 .. b /\ b \in 1 .. Len(commits)
    BY <1>8
  <2>2. commits[a + 1].at > t /\ commits[b].at <= c
    BY <1>4, <1>5, <1>6, <1>7, <2>1
  <2>3. commits[a + 1].at <= commits[b].at
    BY <1>1, <2>1, CommitIs
  <2>4. commits[a + 1].at \in Nat /\ commits[b].at \in Nat
    BY <2>1, Dated
  <2> HIDE DEF S, Fits
  <2> QED BY <2>2, <2>3, <2>4
<1> QED BY <1>4, <1>5, <1>7, <1>8

-----------------------------------------------------------------------------
(* Types.                                                                    *)

LEMMA HistoryInit == ASSUME H!HistoryAssumption, H!Init PROVE HistoryInv
<1>1. HistoryTyped
  <2>1. H!NoFile = [f \in {} |-> H!NoTable] /\ <<>> \in Seq(VersionCommits)
    BY DEF H!NoFile
  <2> QED BY <2>1 DEF H!Init, HistoryTyped
<1>2. \A n \in SqlTable : log[n] = <<>> /\ table[n] = H!NoTable
  BY DEF H!Init
<1>3. \A s \in Connection : pc[s] = "idle"
  BY DEF H!Init
<1>4. \A n \in SqlTable : InOrder(log[n], time) /\ WindowKept(n)
  <2> TAKE n \in SqlTable
  <2>1. log[n] = <<>> /\ Len(<<>>) = 0
    BY <1>2
  <2> QED BY <2>1 DEF InOrder, WindowKept
<1>5. WindowInv
  BY <1>3, <1>4 DEF WindowInv, DataUnderLock
<1>6. ObjectInv
  BY <1>2, <1>3 DEF ObjectInv, HistorySettled
<1> QED BY <1>1, <1>5, <1>6 DEF HistoryInv

LEMMA StatementIs ==
  ASSUME HistoryTyped, NEW s \in Connection, pc[s] # "idle"
  PROVE  /\ flow[s].kind \in {"write", "drop", "rename"} /\ flow[s].name \in SqlTable
         /\ flow[s].to \in SqlTable /\ H!Touched(flow[s]) \subseteq SqlTable
         /\ flow[s].name \in H!Touched(flow[s])
         /\ flow[s].kind = "rename" =>
            flow[s].name # flow[s].to /\ flow[s].to \in H!Touched(flow[s])
         /\ flow[s].kind # "rename" => H!Touched(flow[s]) = {flow[s].name}
<1>1. flow[s] \in Statements
  BY DEF HistoryTyped
<1>2. /\ flow[s].kind \in {"write", "drop", "rename"} /\ flow[s].name \in SqlTable
      /\ flow[s].to \in SqlTable
  BY <1>1 DEF Statements
<1> QED BY <1>2 DEF HistoryTyped, H!Touched

LEMMA ConnectionIdles ==
  ASSUME HistoryTyped, NEW s \in Connection, H!Done(s)
  PROVE  /\ pc' \in [Connection -> {"idle", "accepted", "commit", "data", "expire"}]
         /\ flow' = [r \in Connection |-> flow'[r]] /\ snap' = [r \in Connection |-> snap'[r]]
         /\ pc'[s] = "idle"
         /\ \A r \in Connection : pc'[r] # "idle" => r # s
         /\ \A r \in Connection \ {s} : pc'[r] = pc[r] /\ flow'[r] = flow[r] /\ snap'[r] = snap[r]
BY DEF HistoryTyped, H!Done

LEMMA ConnectionMoves ==
  ASSUME HistoryTyped, NEW s \in Connection,
         NEW p \in {"idle", "accepted", "commit", "data", "expire"},
         pc' = [pc EXCEPT ![s] = p]
  PROVE  /\ pc' \in [Connection -> {"idle", "accepted", "commit", "data", "expire"}]
         /\ pc'[s] = p /\ \A r \in Connection \ {s} : pc'[r] = pc[r]
BY DEF HistoryTyped

LEMMA StartsAs ==
  ASSUME HistoryTyped, NEW s \in Connection, NEW f, NEW changed, H!Execute(s, f, changed)
  PROVE  /\ pc[s] = "idle" /\ pc'[s] = "accepted" /\ flow'[s] = f /\ table' = changed
         /\ \A r \in Connection \ {s} : pc'[r] = pc[r] /\ flow'[r] = flow[r]
         /\ pc' \in [Connection -> {"idle", "accepted", "commit", "data", "expire"}]
         /\ flow' = [r \in Connection |-> flow'[r]]
         /\ UNCHANGED <<time, crashes, log, data, versionMu, snap>>
BY DEF HistoryTyped, H!Execute, H!clock, H!folders

\* The typing of sessions, where only s moves.
ConnectionsTyped ==
  \A s \in Connection :
       /\ pc[s] # "idle" => flow[s] \in Statements
       /\ pc[s] # "idle" /\ flow[s].kind = "rename" => flow[s].name # flow[s].to
       /\ pc[s] \in {"commit", "data", "expire"} => flow[s].kind = "write"

LEMMA ConnectionsMove ==
  ASSUME HistoryTyped, NEW s \in Connection,
         \A r \in Connection \ {s} : pc'[r] = pc[r] /\ flow'[r] = flow[r],
         \/ pc'[s] = "idle"
         \/ /\ flow'[s] \in Statements /\ (flow'[s].kind = "rename" => flow'[s].name # flow'[s].to)
            /\ pc'[s] = "accepted" \/ flow'[s].kind = "write"
  PROVE  ConnectionsTyped'
<1> SUFFICES ASSUME NEW r \in Connection
             PROVE  /\ pc'[r] # "idle" => flow'[r] \in Statements
                    /\ pc'[r] # "idle" /\ flow'[r].kind = "rename" => flow'[r].name # flow'[r].to
                    /\ pc'[r] \in {"commit", "data", "expire"} => flow'[r].kind = "write"
  BY DEF ConnectionsTyped, Statements
<1>1. CASE r = s
  BY <1>1
<1>2. CASE r # s
  BY <1>2 DEF HistoryTyped
<1> QED BY <1>1, <1>2

LEMMA HistoryTypes ==
  ASSUME HistoryTyped, H!HistoryAssumption, WindowInv, [H!Next]_(H!vars)
  PROVE  HistoryTyped'
<1>1. ASSUME NEW s \in Connection, NEW f \in Statements, NEW changed, H!Execute(s, f, changed),
             changed = [n \in SqlTable |-> changed[n]], f.kind = "rename" => f.name # f.to
      PROVE  HistoryTyped'
  <2>1. ConnectionsTyped'
    BY <1>1, StartsAs, ConnectionsMove
  <2>2. executed' \in Nat
    BY <1>1 DEF H!Execute, HistoryTyped
  <2> QED BY <1>1, <2>1, <2>2, StartsAs DEF HistoryTyped, ConnectionsTyped
<1>2. ASSUME NEW s \in Connection, NEW n \in SqlTable, NEW big \in BOOLEAN, H!Write(s, n, big)
      PROVE  HistoryTyped'
  <2> DEFINE obj == IF table[n] = H!NoTable THEN executed + 1 ELSE table[n].obj
             f == [kind |-> "write", name |-> n, to |-> n]
             changed == [table EXCEPT ![n] = [obj |-> obj, rows |-> executed + 1, big |-> big]]
  <2>1. H!Execute(s, f, changed)
    BY <1>2 DEF H!Write
  <2>2. f \in Statements /\ f.kind # "rename"
    BY DEF Statements
  <2>3. changed = [m \in SqlTable |-> changed[m]]
    BY DEF HistoryTyped
  <2> HIDE DEF f, changed
  <2> QED BY <1>1, <2>1, <2>2, <2>3
<1>3. ASSUME NEW s \in Connection, NEW n \in SqlTable, H!DropTable(s, n)
      PROVE  HistoryTyped'
  <2> DEFINE f == [kind |-> "drop", name |-> n, to |-> n]
             changed == [table EXCEPT ![n] = H!NoTable]
  <2>1. H!Execute(s, f, changed)
    BY <1>3 DEF H!DropTable
  <2>2. f \in Statements /\ f.kind # "rename"
    BY DEF Statements
  <2>3. changed = [m \in SqlTable |-> changed[m]]
    BY DEF HistoryTyped
  <2> HIDE DEF f, changed
  <2> QED BY <1>1, <2>1, <2>2, <2>3
<1>4. ASSUME NEW s \in Connection, NEW n \in SqlTable, NEW to \in SqlTable, H!SpRename(s, n, to)
      PROVE  HistoryTyped'
  <2> DEFINE f == [kind |-> "rename", name |-> n, to |-> to]
             changed == [table EXCEPT ![n] = H!NoTable, ![to] = table[n]]
  <2>1. H!Execute(s, f, changed) /\ n # to
    BY <1>4 DEF H!SpRename
  <2>2. f \in Statements /\ f.name = n /\ f.to = to
    BY DEF Statements
  <2>3. changed = [m \in SqlTable |-> changed[m]]
    BY DEF HistoryTyped
  <2> HIDE DEF f, changed
  <2> QED BY <1>1, <2>1, <2>2, <2>3
<1>5. ASSUME NEW s \in Connection, H!Unobserved(s) PROVE HistoryTyped'
  <2>1. H!Done(s) /\ UNCHANGED <<time, table, executed, log, data, versionMu>>
    BY <1>5 DEF H!Unobserved, H!Forget, H!clock, H!engine, H!folders
  <2>2. ConnectionsTyped'
    BY <2>1, ConnectionIdles, ConnectionsMove
  <2> QED BY <2>1, <2>2, ConnectionIdles DEF HistoryTyped, ConnectionsTyped
<1>6. ASSUME NEW s \in Connection, H!Snapshot(s) PROVE HistoryTyped'
  <2>1. pc[s] = "accepted" /\ flow[s].kind = "write"
        /\ UNCHANGED <<time, table, executed, log, data, versionMu>>
    BY <1>6 DEF H!Snapshot, H!clock, H!engine, H!folders
  <2>2. CASE H!Done(s)
    <3>1. ConnectionsTyped'
      BY <2>2, ConnectionIdles, ConnectionsMove
    <3> QED BY <2>1, <2>2, <3>1, ConnectionIdles DEF HistoryTyped, ConnectionsTyped
  <2>3. CASE pc' = [pc EXCEPT ![s] = "commit"] /\ flow' = flow
        /\ snap' = [snap EXCEPT ![s] = table[flow[s].name]]
    <3>1. pc'[s] = "commit" /\ \A r \in Connection \ {s} : pc'[r] = pc[r] /\ flow'[r] = flow[r]
      BY <2>3, ConnectionMoves
    <3>2. flow'[s] \in Statements /\ flow'[s].kind = "write"
      BY <2>1, <2>3 DEF HistoryTyped
    <3>3. ConnectionsTyped'
      BY <3>1, <3>2, ConnectionsMove
    <3> QED BY <2>1, <2>3, <3>3, ConnectionMoves DEF HistoryTyped, ConnectionsTyped
  <2>4. H!Done(s) \/ (pc' = [pc EXCEPT ![s] = "commit"] /\ flow' = flow
        /\ snap' = [snap EXCEPT ![s] = table[flow[s].name]])
    BY <1>6 DEF H!Snapshot, H!Forget
  <2> QED BY <2>2, <2>3, <2>4
<1>7. ASSUME NEW s \in Connection, H!PutData(s) PROVE HistoryTyped'
  <2>1. /\ pc[s] = "commit" /\ versionMu' = s /\ pc' = [pc EXCEPT ![s] = "data"]
        /\ UNCHANGED <<time, table, executed, log, flow, snap>>
        /\ data' = [m \in SqlTable |-> data'[m]]
    BY <1>7 DEF H!PutData, H!clock, H!engine, HistoryTyped
  <2>2. flow[s] \in Statements /\ flow[s].kind = "write"
    BY <2>1 DEF HistoryTyped
  <2>3. ConnectionsTyped'
    BY <2>1, <2>2, ConnectionMoves, ConnectionsMove
  <2> QED BY <2>1, <2>3, ConnectionMoves DEF HistoryTyped, ConnectionsTyped
<1>8. ASSUME NEW s \in Connection, H!PutCommit(s) PROVE HistoryTyped'
  <2> DEFINE n == flow[s].name
             c == [at |-> time, adds |-> {Len(log[n])}, removes |-> H!Live(log[n], Len(log[n]))]
  <2>1. /\ pc[s] = "data" /\ versionMu' = NoConnection /\ pc' = [pc EXCEPT ![s] = "expire"]
        /\ UNCHANGED <<time, table, executed, data, flow, snap>>
        /\ log' = [log EXCEPT ![n] = Append(log[n], c)]
    BY <1>8 DEF H!PutCommit, H!clock, H!engine
  <2>2. n \in SqlTable /\ flow[s] \in Statements /\ flow[s].kind = "write"
    BY <2>1, StatementIs DEF HistoryTyped
  <2>3. ConnectionsTyped'
    BY <2>1, <2>2, ConnectionMoves, ConnectionsMove
  <2>4. c \in VersionCommits
    <3>1. log[n] \in Seq(VersionCommits) /\ InOrder(log[n], time) /\ time \in Nat
      BY <2>2 DEF HistoryTyped, WindowInv
    <3>2. Len(log[n]) \in Nat /\ Len(log[n]) \in 0 .. Len(log[n])
      BY <3>1
    <3>3. H!Live(log[n], Len(log[n])) = IF Len(log[n]) = 0 THEN {} ELSE {Len(log[n]) - 1}
      BY <3>1, <3>2, LiveIs
    <3>4. H!Live(log[n], Len(log[n])) \in SUBSET Nat
      BY <3>2, <3>3
    <3> QED BY <3>1, <3>2, <3>4 DEF VersionCommits
  <2>5. log' \in [SqlTable -> Seq(VersionCommits)]
    <3>1. Append(log[n], c) \in Seq(VersionCommits)
      <4> HIDE DEF c
      <4> QED BY <2>2, <2>4 DEF HistoryTyped
    <3> HIDE DEF c
    <3> QED BY <2>1, <3>1 DEF HistoryTyped
  <2> QED BY <2>1, <2>3, <2>5, ConnectionMoves DEF HistoryTyped, ConnectionsTyped
<1>9. ASSUME NEW s \in Connection, H!ExpireVersions(s) PROVE HistoryTyped'
  <2>1. /\ H!Done(s) /\ UNCHANGED <<time, table, executed, log, versionMu>>
        /\ data' = [m \in SqlTable |-> data'[m]]
    BY <1>9 DEF H!ExpireVersions, H!clock, H!engine, HistoryTyped
  <2>2. ConnectionsTyped'
    BY <2>1, ConnectionIdles, ConnectionsMove
  <2> QED BY <2>1, <2>2, ConnectionIdles DEF HistoryTyped, ConnectionsTyped
<1>10. ASSUME NEW s \in Connection, H!DropTableHistory(s) PROVE HistoryTyped'
  <2>1. /\ H!Done(s) /\ UNCHANGED <<time, table, executed, versionMu>>
        /\ data' = [m \in SqlTable |-> data'[m]] /\ log' \in [SqlTable -> Seq(VersionCommits)]
    <3>1. <<>> \in Seq(VersionCommits)
      OBVIOUS
    <3> QED BY <1>10, <3>1 DEF H!DropTableHistory, H!clock, H!engine, HistoryTyped
  <2>2. ConnectionsTyped'
    BY <2>1, ConnectionIdles, ConnectionsMove
  <2> QED BY <2>1, <2>2, ConnectionIdles DEF HistoryTyped, ConnectionsTyped
<1>11. ASSUME NEW s \in Connection, H!RenameTableHistory(s) PROVE HistoryTyped'
  <2>1. H!Done(s) /\ UNCHANGED <<time, table, executed, versionMu>>
    BY <1>11 DEF H!RenameTableHistory, H!clock, H!engine
  <2>2. data' = [m \in SqlTable |-> data'[m]] /\ log' \in [SqlTable -> Seq(VersionCommits)]
    <3>1. <<>> \in Seq(VersionCommits) /\ flow[s].name \in SqlTable
      BY <1>11, StatementIs DEF H!RenameTableHistory
    <3>2. log[flow[s].name] \in Seq(VersionCommits)
      BY <3>1 DEF HistoryTyped
    <3> QED BY <1>11, <3>1, <3>2 DEF H!RenameTableHistory, H!folders, HistoryTyped
  <2>3. ConnectionsTyped'
    BY <2>1, ConnectionIdles, ConnectionsMove
  <2> QED BY <2>1, <2>2, <2>3, ConnectionIdles DEF HistoryTyped, ConnectionsTyped
<1>12. CASE H!AdvanceClock
  BY <1>12 DEF H!AdvanceClock, H!engine, H!folders, HistoryTyped
<1>13. CASE H!Crash
  <2>1. \A s \in Connection : pc'[s] = "idle"
    BY <1>13 DEF H!Crash
  <2> QED BY <1>13, <2>1 DEF H!Crash, H!engine, H!folders, HistoryTyped
<1>14. CASE UNCHANGED H!vars
  BY <1>14 DEF H!vars, HistoryTyped
<1> QED BY <1>2, <1>3, <1>4, <1>5, <1>6, <1>7, <1>8, <1>9, <1>10, <1>11, <1>12, <1>13, <1>14
        DEF H!Next, H!Statement, H!Observer

-----------------------------------------------------------------------------
(* The window.                                                               *)

LEMMA CutoffInt ==
  ASSUME HistoryTyped, H!HistoryAssumption
  PROVE  H!RetentionCutoff \in Int /\ time \in Nat
BY DEF HistoryTyped, H!HistoryAssumption, H!RetentionCutoff

\* A log that stays, with no fewer files at or after its base.
LEMMA WindowStays ==
  ASSUME HistoryTyped, HistoryTyped', H!HistoryAssumption, NEW n \in SqlTable,
         InOrder(log[n], time), WindowKept(n),
         log'[n] = log[n], time' >= time,
         \A i \in 1 .. Len(log[n]) :
           i >= BaseAt(log[n], H!RetentionCutoff) /\ i - 1 \in DOMAIN data[n] =>
             i - 1 \in DOMAIN data'[n]
  PROVE  InOrder(log'[n], time') /\ WindowKept(n)'
<1>1. PICK commits \in Seq(VersionCommits) : commits = log[n]
  BY DEF HistoryTyped
<1>2. PICK c \in Int : c = H!RetentionCutoff
  BY CutoffInt
<1>3. PICK d \in Int : d = H!RetentionCutoff'
  BY DEF HistoryTyped, H!HistoryAssumption, H!RetentionCutoff
<1>4. c <= d /\ time \in Nat /\ time' \in Nat
  BY <1>2, <1>3 DEF HistoryTyped, H!HistoryAssumption, H!RetentionCutoff
<1>5. BaseAt(commits, c) <= BaseAt(commits, d)
  BY <1>1, <1>4, BaseGrows
<1>6. BaseAt(commits, c) \in 0 .. Len(commits) /\ BaseAt(commits, d) \in 0 .. Len(commits)
  BY BaseIs
<1>7. InOrder(log'[n], time')
  <2>1. InOrder(commits, time)
    BY <1>1
  <2>2. \A i \in 1 .. Len(commits) : commits[i].at \in Nat
    BY Dated
  <2>3. PICK u \in Nat : u = time
    BY <1>4
  <2>4. PICK v \in Nat : v = time'
    BY <1>4
  <2>5. ASSUME NEW i \in 1 .. Len(commits) PROVE commits[i].at <= v
    <3>1. commits[i].at <= u
      BY <2>1, <2>3 DEF InOrder
    <3> QED BY <2>2, <2>3, <2>4, <3>1
  <2>6. InOrder(commits, v)
    BY <2>1, <2>5 DEF InOrder
  <2> QED BY <1>1, <2>4, <2>6
<1>8. WindowKept(n)'
  <2> SUFFICES ASSUME NEW i \in 1 .. Len(commits), i >= BaseAt(commits, d)
               PROVE  i - 1 \in DOMAIN data'[n]
    BY <1>1, <1>3 DEF WindowKept
  <2>1. i >= BaseAt(commits, c)
    BY <1>5, <1>6
  <2> QED BY <1>1, <1>2, <2>1 DEF WindowKept
<1> QED BY <1>7, <1>8

LEMMA WindowEmpty ==
  ASSUME NEW n \in SqlTable, log'[n] = <<>>
  PROVE  InOrder(log'[n], time') /\ WindowKept(n)'
<1>1. Len(<<>>) = 0
  OBVIOUS
<1> QED BY <1>1 DEF InOrder, WindowKept

\* Nobody has the lock: nobody is between file and commit.
LEMMA LockFree ==
  ASSUME H!HistoryAssumption, WindowInv, versionMu = NoConnection
  PROVE  \A s \in Connection : pc[s] # "data"
BY DEF H!HistoryAssumption, WindowInv, DataUnderLock

LEMMA LockKept ==
  ASSUME WindowInv, UNCHANGED <<log, data, versionMu>>,
         \A s \in Connection : pc'[s] = "data" =>
           pc[s] = "data" /\ flow'[s] = flow[s] /\ snap'[s] = snap[s]
  PROVE  \A s \in Connection : DataUnderLock(s)'
BY DEF WindowInv, DataUnderLock

\* What expires is of before the base.
LEMMA Unexpired ==
  ASSUME HistoryTyped, H!HistoryAssumption, WindowInv, NEW n \in SqlTable
  PROVE  LET base == H!Base(log[n])
             added == UNION {log[n][i].adds : i \in 1 .. base}
             gone == IF base <= 1 THEN {} ELSE added \ H!Protected(log[n], base)
         IN  \A i \in 1 .. Len(log[n]) : i >= base => i - 1 \notin gone
<1> DEFINE base == H!Base(log[n])
           added == UNION {log[n][i].adds : i \in 1 .. base}
           gone == IF base <= 1 THEN {} ELSE added \ H!Protected(log[n], base)
<1> SUFFICES ASSUME NEW i \in 1 .. Len(log[n]), i >= base, ~(base <= 1)
             PROVE  i - 1 \in H!Protected(log[n], base)
  OBVIOUS
<1>1. PICK commits \in Seq(VersionCommits) : commits = log[n]
  BY DEF HistoryTyped
<1>2. InOrder(commits, time) /\ Len(commits) \in Nat
  BY <1>1 DEF WindowInv
<1>3. PICK c \in Int : c = H!RetentionCutoff
  BY CutoffInt
<1>4. base = BaseAt(commits, c)
  BY <1>1, <1>3 DEF H!Base, BaseAt
<1>5. base \in 0 .. Len(commits)
  BY <1>4, BaseIs
<1>6. PICK b \in 0 .. Len(commits) : b = base
  BY <1>5
<1> HIDE DEF base
<1>7. commits[i].adds = {i - 1}
  BY <1>1, <1>2, CommitIs
<1>8. CASE i = base
  <2>1. H!Live(commits, b) = IF b = 0 THEN {} ELSE {b - 1}
    BY <1>2, LiveIs
  <2>2. b # 0 /\ i - 1 = b - 1
    BY <1>2, <1>6, <1>8
  <2>3. i - 1 \in H!Live(commits, base)
    BY <1>6, <2>1, <2>2
  <2> QED BY <1>1, <2>3 DEF H!Protected
<1>9. CASE i # base
  <2>1. i \in base + 1 .. Len(commits)
    BY <1>1, <1>2, <1>5, <1>9
  <2>2. i - 1 \in commits[i].adds
    BY <1>7
  <2>3. i - 1 \in UNION {commits[j].adds : j \in base + 1 .. Len(commits)}
    BY <2>1, <2>2
  <2> QED BY <1>1, <2>3 DEF H!Protected
<1> QED BY <1>8, <1>9

LEMMA WindowStep ==
  ASSUME HistoryTyped, HistoryTyped', H!HistoryAssumption, WindowInv, [H!Next]_(H!vars)
  PROVE  WindowInv'
<1>w. ASSUME \A n \in SqlTable : InOrder(log'[n], time') /\ WindowKept(n)',
             \A s \in Connection : DataUnderLock(s)'
      PROVE  WindowInv'
  BY <1>w DEF WindowInv
<1>s. ASSUME UNCHANGED <<log, data>>, time' >= time
      PROVE  \A n \in SqlTable : InOrder(log'[n], time') /\ WindowKept(n)'
  <2> TAKE n \in SqlTable
  <2>1. InOrder(log[n], time) /\ WindowKept(n)
    BY DEF WindowInv
  <2> QED BY <1>s, <2>1, WindowStays
<1>e. time \in Nat /\ time >= time
  BY DEF HistoryTyped
<1>1. ASSUME NEW s \in Connection, NEW f, NEW changed, H!Execute(s, f, changed)
      PROVE  WindowInv'
  <2>1. UNCHANGED <<time, log, data, versionMu, snap>>
    BY <1>1, StartsAs
  <2>2. \A r \in Connection : pc'[r] = "data" =>
        pc[r] = "data" /\ flow'[r] = flow[r] /\ snap'[r] = snap[r]
    <3> TAKE r \in Connection
    <3>1. CASE r = s
      BY <1>1, <3>1, StartsAs
    <3>2. CASE r # s
      BY <1>1, <2>1, <3>2, StartsAs
    <3> QED BY <3>1, <3>2
  <2>3. \A r \in Connection : DataUnderLock(r)'
    BY <2>1, <2>2, LockKept
  <2> QED BY <1>e, <1>s, <1>w, <2>1, <2>3
<1>2. ASSUME NEW s \in Connection, \E n \in SqlTable, big \in BOOLEAN : H!Write(s, n, big)
      PROVE  WindowInv'
  BY <1>1, <1>2 DEF H!Write
<1>3. ASSUME NEW s \in Connection, \E n \in SqlTable : H!DropTable(s, n)
      PROVE  WindowInv'
  BY <1>1, <1>3 DEF H!DropTable
<1>4. ASSUME NEW s \in Connection, \E n, to \in SqlTable : H!SpRename(s, n, to)
      PROVE  WindowInv'
  BY <1>1, <1>4 DEF H!SpRename
<1>5. ASSUME NEW s \in Connection, H!Unobserved(s) \/ H!Snapshot(s) PROVE WindowInv'
  <2>1. UNCHANGED <<time, log, data, versionMu>>
    BY <1>5 DEF H!Unobserved, H!Snapshot, H!clock, H!folders
  <2>2. \A r \in Connection : pc'[r] = "data" =>
        pc[r] = "data" /\ flow'[r] = flow[r] /\ snap'[r] = snap[r]
    <3>1. CASE H!Done(s)
      BY <3>1, ConnectionIdles
    <3>2. CASE pc' = [pc EXCEPT ![s] = "commit"] /\ flow' = flow
          /\ snap' = [snap EXCEPT ![s] = table[flow[s].name]]
      <4> TAKE r \in Connection
      <4>1. CASE r = s
        BY <3>2, <4>1, ConnectionMoves
      <4>2. CASE r # s
        BY <3>2, <4>2, ConnectionMoves DEF HistoryTyped
      <4> QED BY <4>1, <4>2
    <3> QED BY <1>5, <3>1, <3>2 DEF H!Unobserved, H!Snapshot, H!Forget
  <2>3. \A r \in Connection : DataUnderLock(r)'
    BY <2>1, <2>2, LockKept
  <2> QED BY <1>e, <1>s, <1>w, <2>1, <2>3
<1>6. ASSUME NEW s \in Connection, H!PutData(s) PROVE WindowInv'
  <2> DEFINE n == flow[s].name
             k == Len(log[n])
  <2>1. /\ pc[s] = "commit" /\ versionMu = NoConnection /\ versionMu' = s
        /\ pc' = [pc EXCEPT ![s] = "data"]
        /\ UNCHANGED <<time, log, flow, snap>> /\ n \in SqlTable
        /\ \A r \in Connection : pc[r] # "data"
    BY <1>6, StatementIs, LockFree DEF H!PutData, H!clock
  <2>2. data' = [data EXCEPT ![n] =
          [f \in DOMAIN data[n] \cup {k} |-> IF f = k THEN snap[s] ELSE data[n][f]]]
    BY <1>6 DEF H!PutData
  <2>3. k \in DOMAIN data'[n] /\ data'[n][k] = snap[s]
    BY <2>1, <2>2 DEF HistoryTyped
  <2>4. \A m \in SqlTable : DOMAIN data[m] \subseteq DOMAIN data'[m]
    BY <2>1, <2>2 DEF HistoryTyped
  <2>5. \A m \in SqlTable : InOrder(log'[m], time') /\ WindowKept(m)'
    <3> TAKE m \in SqlTable
    <3>1. InOrder(log[m], time) /\ WindowKept(m)
      BY DEF WindowInv
    <3> QED BY <1>e, <2>1, <2>4, <3>1, WindowStays
  <2>6. \A r \in Connection : DataUnderLock(r)'
    <3> TAKE r \in Connection
    <3>1. CASE r = s
      BY <2>1, <2>3, <3>1 DEF DataUnderLock
    <3>2. CASE r # s
      BY <2>1, <3>2, ConnectionMoves DEF DataUnderLock
    <3> QED BY <3>1, <3>2
  <2> QED BY <1>w, <2>5, <2>6
<1>7. ASSUME NEW s \in Connection, H!PutCommit(s) PROVE WindowInv'
  <2> DEFINE n == flow[s].name
             k == Len(log[n])
             c == [at |-> time, adds |-> {k}, removes |-> H!Live(log[n], k)]
  <2>1. /\ pc[s] = "data" /\ versionMu' = NoConnection /\ pc' = [pc EXCEPT ![s] = "expire"]
        /\ UNCHANGED <<time, data, flow, snap>> /\ n \in SqlTable
        /\ log' = [log EXCEPT ![n] = Append(log[n], c)]
    BY <1>7, StatementIs DEF H!PutCommit, H!clock
  <2>2. versionMu = s /\ k \in DOMAIN data[n]
    BY <2>1 DEF WindowInv, DataUnderLock
  <2>3. \A m \in SqlTable : InOrder(log'[m], time') /\ WindowKept(m)'
    <3> TAKE m \in SqlTable
    <3>1. InOrder(log[m], time) /\ WindowKept(m)
      BY DEF WindowInv
    <3>2. CASE m # n
      <4>1. log'[m] = log[m]
        BY <2>1, <3>2 DEF HistoryTyped
      <4> QED BY <1>e, <2>1, <3>1, <4>1, WindowStays
    <3>3. CASE m = n
      <4>1. PICK before \in Seq(VersionCommits) : before = log[n]
        BY <2>1 DEF HistoryTyped
      <4>2. PICK after \in Seq(VersionCommits) : after = log'[n]
        BY <2>1 DEF HistoryTyped
      <4>3. k \in Nat /\ k = Len(before) /\ k \in 0 .. Len(before)
        BY <4>1
      <4>4. after = Append(before, c)
        BY <2>1, <4>1, <4>2 DEF HistoryTyped
      <4>5. Len(after) = k + 1 /\ after[k + 1] = c /\ \A i \in 1 .. k : after[i] = before[i]
        <5> HIDE DEF c, k
        <5> QED BY <4>3, <4>4
      <4>6. InOrder(before, time)
        BY <3>1, <3>3, <4>1
      <4>7. c.removes = IF k = 0 THEN {} ELSE {k - 1}
        <5>1. c.removes = H!Live(before, k)
          BY <4>1
        <5> HIDE DEF c, k
        <5> QED BY <4>3, <4>6, <5>1, LiveIs
      <4>8. c.at = time /\ c.adds = {k}
        OBVIOUS
      <4> HIDE DEF c, k
      <4>9. InOrder(after, time)
        <5>1. ASSUME NEW i \in 1 .. k
              PROVE  /\ after[i].adds = {i - 1} /\ after[i].removes = IF i = 1 THEN {} ELSE {i - 2}
                     /\ after[i].at <= time /\ \A j \in 1 .. i : after[j].at <= after[i].at
          <6>1. \A j \in 1 .. i : after[j] = before[j] /\ j \in 1 .. k
            BY <4>3, <4>5
          <6>2. i \in 1 .. i
            BY <4>3
          <6>3. Len(before) \in Nat /\ i \in 1 .. Len(before)
            BY <4>3
          <6>4. /\ before[i].adds = {i - 1} /\ before[i].removes = IF i = 1 THEN {} ELSE {i - 2}
                /\ before[i].at <= time
                /\ \A j \in 1 .. i : before[j].at <= before[i].at
            BY <4>6, <6>3, CommitIs
          <6>5. after[i] = before[i]
            BY <6>1, <6>2
          <6> QED BY <6>1, <6>4, <6>5
        <5>2. /\ after[k + 1].adds = {k} /\ after[k + 1].removes = IF k = 0 THEN {} ELSE {k - 1}
              /\ after[k + 1].at = time
          BY <4>5, <4>7, <4>8
        <5>3. k + 1 - 1 = k /\ k + 1 - 2 = k - 1 /\ (k + 1 = 1 <=> k = 0)
          BY <4>3
        <5>4. \A j \in 1 .. k + 1 : after[j].at <= time
          <6> TAKE j \in 1 .. k + 1
          <6>1. CASE j \in 1 .. k
            BY <5>1, <6>1
          <6>2. CASE j = k + 1
            BY <1>e, <5>2, <6>2
          <6> QED BY <4>3, <6>1, <6>2
        <5>5. ASSUME NEW i \in 1 .. Len(after)
              PROVE  /\ after[i].adds = {i - 1} /\ after[i].removes = IF i = 1 THEN {} ELSE {i - 2}
                     /\ after[i].at <= time /\ \A j \in 1 .. i : after[j].at <= after[i].at
          <6>1. CASE i \in 1 .. k
            BY <5>1, <6>1
          <6>2. CASE i = k + 1
            <7>1. after[i].at = time /\ \A j \in 1 .. i : after[j].at <= after[i].at
              BY <5>2, <5>4, <6>2
            <7>2. {i - 1} = {k} /\ (IF i = 1 THEN {} ELSE {i - 2}) = (IF k = 0 THEN {} ELSE {k - 1})
              <8>1. i - 1 = k /\ i - 2 = k - 1 /\ (i = 1 <=> k = 0)
                BY <4>3, <6>2
              <8> QED BY <8>1
            <7>3. after[i].adds = {k} /\ after[i].removes = IF k = 0 THEN {} ELSE {k - 1}
              BY <5>2, <6>2
            <7> QED BY <1>e, <7>1, <7>2, <7>3
          <6> QED BY <4>3, <4>5, <6>1, <6>2
        <5> QED BY <5>5 DEF InOrder
      <4>10. PICK d \in Int : d = H!RetentionCutoff
        BY CutoffInt
      <4>11. BaseAt(before, d) <= BaseAt(after, d) /\ BaseAt(before, d) \in 0 .. Len(before)
             /\ BaseAt(after, d) \in 0 .. Len(after)
        <5>1. Len(before) <= Len(after) /\ d <= d
          BY <4>3, <4>5
        <5> QED BY <4>3, <4>5, <5>1, BaseGrows, BaseIs
      <4>12. \A i \in 1 .. Len(after) : i >= BaseAt(after, d) => i - 1 \in DOMAIN data'[n]
        <5> SUFFICES ASSUME NEW i \in 1 .. Len(after), i >= BaseAt(after, d)
                     PROVE  i - 1 \in DOMAIN data[n]
          BY <2>1
        <5>1. CASE i = k + 1
          <6>1. i - 1 = k
            BY <4>3, <5>1
          <6> QED BY <2>2, <6>1
        <5>2. CASE i \in 1 .. k
          <6>1. i >= BaseAt(before, d)
            BY <4>3, <4>11, <5>2
          <6> QED BY <3>1, <3>3, <4>1, <4>3, <4>10, <5>2, <6>1 DEF WindowKept
        <5> QED BY <4>3, <4>5, <5>1, <5>2
      <4>13. d = H!RetentionCutoff'
        BY <2>1, <4>10 DEF H!RetentionCutoff
      <4>14. WindowKept(m)'
        BY <3>3, <4>2, <4>12, <4>13 DEF WindowKept
      <4> QED BY <2>1, <3>3, <4>2, <4>9, <4>14
    <3> QED BY <3>2, <3>3
  <2>4. \A r \in Connection : DataUnderLock(r)'
    <3> TAKE r \in Connection
    <3>1. CASE r = s
      BY <2>1, <3>1, ConnectionMoves DEF DataUnderLock
    <3>2. CASE r # s
      <4>1. pc'[r] = pc[r]
        BY <2>1, <3>2, ConnectionMoves
      <4>2. pc[r] # "data"
        BY <2>2, <3>2 DEF WindowInv, DataUnderLock
      <4> QED BY <4>1, <4>2 DEF DataUnderLock
    <3> QED BY <3>1, <3>2
  <2> QED BY <1>w, <2>3, <2>4
<1>8. ASSUME NEW s \in Connection, H!ExpireVersions(s) PROVE WindowInv'
  <2> DEFINE n == flow[s].name
             base == H!Base(log[n])
             added == UNION {log[n][i].adds : i \in 1 .. base}
             gone == IF base <= 1 THEN {} ELSE added \ H!Protected(log[n], base)
  <2>1. /\ pc[s] = "expire" /\ versionMu = NoConnection /\ H!Done(s) /\ n \in SqlTable
        /\ UNCHANGED <<time, log, versionMu>>
        /\ \A r \in Connection : pc[r] # "data"
    BY <1>8, StatementIs, LockFree DEF H!ExpireVersions, H!clock
  <2>2. data' = [data EXCEPT ![n] = [f \in DOMAIN data[n] \ gone |-> data[n][f]]]
    BY <1>8 DEF H!ExpireVersions
  <2>3. \A i \in 1 .. Len(log[n]) : i >= base => i - 1 \notin gone
    BY <2>1, Unexpired
  <2>4. \A m \in SqlTable : InOrder(log'[m], time') /\ WindowKept(m)'
    <3> TAKE m \in SqlTable
    <3>1. InOrder(log[m], time) /\ WindowKept(m)
      BY DEF WindowInv
    <3>2. CASE m # n
      <4>1. data'[m] = data[m]
        BY <2>2, <3>2 DEF HistoryTyped
      <4> QED BY <1>e, <2>1, <3>1, <4>1, WindowStays
    <3>3. CASE m = n
      <4>1. DOMAIN data'[n] = DOMAIN data[n] \ gone
        <5> HIDE DEF gone
        <5> QED BY <2>1, <2>2 DEF HistoryTyped
      <4>2. base = BaseAt(log[n], H!RetentionCutoff)
        BY DEF H!Base, BaseAt
      <4> HIDE DEF gone, base
      <4>3. \A i \in 1 .. Len(log[m]) :
              i >= BaseAt(log[m], H!RetentionCutoff) /\ i - 1 \in DOMAIN data[m] =>
                i - 1 \in DOMAIN data'[m]
        BY <2>3, <3>3, <4>1, <4>2
      <4> QED BY <1>e, <2>1, <3>1, <4>3, WindowStays
    <3> QED BY <3>2, <3>3
  <2>5. \A r \in Connection : DataUnderLock(r)'
    BY <2>1, ConnectionIdles DEF DataUnderLock
  <2> QED BY <1>w, <2>4, <2>5
<1>9. ASSUME NEW s \in Connection, H!DropTableHistory(s) PROVE WindowInv'
  <2> DEFINE n == flow[s].name
  <2>1. /\ versionMu = NoConnection /\ H!Done(s) /\ n \in SqlTable
        /\ UNCHANGED <<time, versionMu>>
        /\ log' = [log EXCEPT ![n] = <<>>] /\ data' = [data EXCEPT ![n] = H!NoFile]
        /\ \A r \in Connection : pc[r] # "data"
    BY <1>9, StatementIs, LockFree DEF H!DropTableHistory, H!clock
  <2>2. \A m \in SqlTable : InOrder(log'[m], time') /\ WindowKept(m)'
    <3> TAKE m \in SqlTable
    <3>1. InOrder(log[m], time) /\ WindowKept(m)
      BY DEF WindowInv
    <3>2. CASE m # n
      <4>1. data'[m] = data[m] /\ log'[m] = log[m]
        BY <2>1, <3>2 DEF HistoryTyped
      <4> QED BY <1>e, <2>1, <3>1, <4>1, WindowStays
    <3>3. CASE m = n
      <4>1. log'[m] = <<>>
        BY <2>1, <3>3 DEF HistoryTyped
      <4> QED BY <4>1, WindowEmpty
    <3> QED BY <3>2, <3>3
  <2>3. \A r \in Connection : DataUnderLock(r)'
    BY <2>1, ConnectionIdles DEF DataUnderLock
  <2> QED BY <1>w, <2>2, <2>3
<1>10. ASSUME NEW s \in Connection, H!RenameTableHistory(s) PROVE WindowInv'
  <2> DEFINE n == flow[s].name
             to == flow[s].to
  <2>1. /\ versionMu = NoConnection /\ H!Done(s) /\ n \in SqlTable /\ to \in SqlTable /\ n # to
        /\ UNCHANGED <<time, versionMu>>
        /\ \A r \in Connection : pc[r] # "data"
    BY <1>10, StatementIs, LockFree DEF H!RenameTableHistory, H!clock
  <2>2. \/ UNCHANGED <<log, data>>
        \/ /\ log' = [log EXCEPT ![to] = log[n], ![n] = <<>>]
           /\ data' = [data EXCEPT ![to] = data[n], ![n] = H!NoFile]
    BY <1>10 DEF H!RenameTableHistory, H!folders
  <2>3. \A r \in Connection : DataUnderLock(r)'
    BY <2>1, ConnectionIdles DEF DataUnderLock
  <2>4. CASE UNCHANGED <<log, data>>
    BY <1>e, <1>s, <1>w, <2>1, <2>3, <2>4
  <2>5. CASE /\ log' = [log EXCEPT ![to] = log[n], ![n] = <<>>]
             /\ data' = [data EXCEPT ![to] = data[n], ![n] = H!NoFile]
    <3>1. \A m \in SqlTable : InOrder(log'[m], time') /\ WindowKept(m)'
      <4> TAKE m \in SqlTable
      <4>1. InOrder(log[m], time) /\ WindowKept(m) /\ InOrder(log[n], time) /\ WindowKept(n)
        BY <2>1 DEF WindowInv
      <4>2. CASE m # n /\ m # to
        <5>1. data'[m] = data[m] /\ log'[m] = log[m]
          BY <2>5, <4>2 DEF HistoryTyped
        <5> QED BY <1>e, <2>1, <4>1, <5>1, WindowStays
      <4>3. CASE m = n
        <5>1. log'[m] = <<>>
          BY <2>1, <2>5, <4>3 DEF HistoryTyped
        <5> QED BY <5>1, WindowEmpty
      <4>4. CASE m = to
        <5>1. data'[m] = data[n] /\ log'[m] = log[n]
          BY <2>1, <2>5, <4>4 DEF HistoryTyped
        <5>2. H!RetentionCutoff' = H!RetentionCutoff
          BY <2>1 DEF H!RetentionCutoff
        <5>3. WindowKept(m)'
          BY <4>1, <5>1, <5>2 DEF WindowKept
        <5> QED BY <2>1, <4>1, <5>1, <5>3
      <4> QED BY <4>2, <4>3, <4>4
    <3> QED BY <1>w, <2>3, <3>1
  <2> QED BY <2>2, <2>4, <2>5
<1>11. CASE H!AdvanceClock
  <2>1. UNCHANGED <<log, data, versionMu, pc, flow, snap>> /\ time' >= time
    BY <1>11 DEF H!AdvanceClock, H!folders, HistoryTyped
  <2>2. \A r \in Connection : DataUnderLock(r)'
    BY <2>1, LockKept
  <2> QED BY <1>s, <1>w, <2>1, <2>2
<1>12. CASE H!Crash
  <2>1. UNCHANGED <<time, log, data>> /\ \A r \in Connection : pc'[r] = "idle"
    BY <1>12 DEF H!Crash, H!folders
  <2>2. \A r \in Connection : DataUnderLock(r)'
    BY <2>1 DEF DataUnderLock
  <2> QED BY <1>e, <1>s, <1>w, <2>1, <2>2
<1>13. CASE UNCHANGED H!vars
  <2>1. UNCHANGED <<time, log, data, versionMu, pc, flow, snap>>
    BY <1>13 DEF H!vars
  <2>2. \A r \in Connection : DataUnderLock(r)'
    BY <2>1, LockKept
  <2> QED BY <1>e, <1>s, <1>w, <2>1, <2>2
<1> QED BY <1>2, <1>3, <1>4, <1>5, <1>6, <1>7, <1>8, <1>9, <1>10, <1>11, <1>12, <1>13
        DEF H!Next, H!Statement, H!Observer

-----------------------------------------------------------------------------
(* Objects.                                                                  *)

LEMMA FilesStay ==
  ASSUME NEW n \in SqlTable, NEW o, FilesOf(n, o), log'[n] = log[n], data'[n] = data[n]
  PROVE  FilesOf(n, o)'
BY DEF FilesOf

LEMMA SettledStays ==
  ASSUME NEW n \in SqlTable, HistorySettled(n), log'[n] = log[n], data'[n] = data[n],
         table'[n] = table[n],
         n \in gap' <=> n \in gap
  PROVE  HistorySettled(n)'
BY DEF HistorySettled, FilesOf, NewestIs

\* An observer whose names are left alone sees the same.
LEMMA ObservingStays ==
  ASSUME HistoryTyped, NEW r \in Connection, pc[r] # "idle", Observing(r),
         pc'[r] = pc[r], flow'[r] = flow[r], snap'[r] = snap[r],
         \A n \in H!Touched(flow[r]) :
           /\ log'[n] = log[n] /\ data'[n] = data[n] /\ table'[n] = table[n]
           /\ n \in gap' <=> n \in gap
           /\ n \notin torn'
  PROVE  Observing(r)'
<1>1. PICK n \in SqlTable : n = flow[r].name /\ n \in H!Touched(flow[r])
  BY StatementIs
<1>2. PICK to \in SqlTable : to = flow[r].to
                           /\ (flow[r].kind = "rename" => to \in H!Touched(flow[r]))
  BY StatementIs
<1>3. /\ log'[n] = log[n] /\ data'[n] = data[n] /\ table'[n] = table[n]
      /\ n \in gap' <=> n \in gap
  BY <1>1
<1>4. CASE flow[r].kind = "write"
  <2>1. table[n] # H!NoTable /\ FilesOf(n, table[n].obj)
    BY <1>1, <1>4 DEF Observing, Writing
  <2>2. FilesOf(n, table[n].obj)'
    BY <1>3, <2>1 DEF FilesOf
  <2>3. pc[r] = "expire" => HistorySettled(n)'
    BY <1>1, <1>3, <1>4, SettledStays DEF Observing, Writing
  <2>4. pc[r] \in {"commit", "data"} => snap[r] = table[n]
    BY <1>1, <1>4 DEF Observing, Writing
  <2>5. Writing(r)'
    BY <1>1, <1>3, <2>1, <2>2, <2>3, <2>4 DEF Writing
  <2> QED BY <1>4, <2>5 DEF Observing
<1>5. CASE flow[r].kind = "drop"
  BY <1>1, <1>3, <1>5 DEF Observing
<1>6. CASE flow[r].kind = "rename"
  <2>1. /\ log'[to] = log[to] /\ data'[to] = data[to] /\ table'[to] = table[to]
        /\ to \in gap' <=> to \in gap
        /\ to \notin torn'
    BY <1>2, <1>6
  <2>2. /\ n # to /\ table[n] = H!NoTable /\ table[to] # H!NoTable
        /\ FilesOf(n, table[to].obj) /\ (to \notin gap => NewestIs(n, table[to]))
        /\ log[to] = <<>>
    BY <1>1, <1>2, <1>6 DEF Observing, Renaming
  <2>3. FilesOf(n, table[to].obj)' /\ (to \notin gap' => NewestIs(n, table[to])')
    BY <1>3, <2>1, <2>2 DEF FilesOf, NewestIs
  <2>4. Renaming(r)'
    BY <1>1, <1>2, <1>3, <2>1, <2>2, <2>3 DEF Renaming
  <2> QED BY <1>6, <2>4 DEF Observing
<1> QED BY <1>4, <1>5, <1>6, StatementIs

\* A name that is not torn has one statement under way at most.
LEMMA OneAtATime ==
  ASSUME HistoryTyped, ObjectInv, NEW n \in SqlTable, n \notin torn, NEW r \in Connection,
         NEW s \in Connection,
         pc[r] # "idle", n \in H!Touched(flow[r]), pc[s] # "idle", n \in H!Touched(flow[s])
  PROVE  r = s
BY DEF ObjectInv

\* A step of s, about names of X, that nobody else is on unless they are torn.
LEMMA OthersKeep ==
  ASSUME HistoryTyped, HistoryTyped', ObjectInv, NEW s \in Connection, NEW X \in SUBSET SqlTable,
         \A r \in Connection \ {s} : pc'[r] = pc[r] /\ flow'[r] = flow[r] /\ snap'[r] = snap[r],
         \A n \in SqlTable \ X :
           /\ log'[n] = log[n] /\ data'[n] = data[n] /\ table'[n] = table[n]
           /\ n \in gap' <=> n \in gap
           /\ n \in torn' <=> n \in torn,
         \A n \in X \ torn' : \A r \in Connection \ {s} : pc[r] # "idle" =>
           n \notin H!Touched(flow[r]),
         \A r \in Connection \ {s} : pc[r] # "idle" /\ flow[r].kind = "rename" =>
           (flow[r].name \in torn' <=> flow[r].to \in torn'),
         pc[s] # "idle" => H!Touched(flow[s]) \subseteq X,
         pc'[s] # "idle" => H!Touched(flow'[s]) \subseteq X,
         pc'[s] # "idle" /\ flow'[s].kind = "rename" =>
           (flow'[s].name \in torn' <=> flow'[s].to \in torn'),
         pc'[s] # "idle" /\ flow'[s].name \notin torn' => Observing(s)',
         \A n \in X \ torn' : (pc'[s] # "idle" /\ n \in H!Touched(flow'[s])) \/ HistorySettled(n)'
  PROVE  ObjectInv'
<1>1. ASSUME NEW n \in SqlTable, n \notin torn'
      PROVE  ~H!Pending(n)' => HistorySettled(n)'
  <2>1. CASE n \in X
    BY <1>1, <2>1 DEF H!Pending
  <2>2. CASE n \notin X
    <3> SUFFICES ASSUME ~H!Pending(n)' PROVE HistorySettled(n)'
      OBVIOUS
    <3>1. n \notin torn
      BY <1>1, <2>2
    <3>2. ~H!Pending(n)
      <4> SUFFICES ASSUME NEW r \in Connection, pc[r] # "idle", n \in H!Touched(flow[r]) PROVE FALSE
        BY DEF H!Pending
      <4>1. r # s
        BY <2>2
      <4> QED BY <4>1 DEF H!Pending
    <3>3. HistorySettled(n)
      BY <3>1, <3>2 DEF ObjectInv
    <3> QED BY <2>2, <3>3, SettledStays
  <2> QED BY <2>1, <2>2
<1>2. ASSUME NEW n \in SqlTable, n \notin torn', NEW r \in Connection, NEW t \in Connection,
             pc'[r] # "idle", n \in H!Touched(flow'[r]), pc'[t] # "idle", n \in H!Touched(flow'[t])
      PROVE  r = t
  <2>1. CASE n \in X
    <3>1. \A u \in Connection : pc'[u] # "idle" /\ n \in H!Touched(flow'[u]) => u = s
      BY <1>2, <2>1
    <3> QED BY <1>2, <3>1
  <2>2. CASE n \notin X
    <3>1. n \notin torn /\ r # s /\ t # s
      BY <1>2, <2>2
    <3> QED BY <1>2, <3>1, OneAtATime
  <2> QED BY <2>1, <2>2
<1>3. ASSUME NEW r \in Connection, pc'[r] # "idle", flow'[r].kind = "rename"
      PROVE  flow'[r].name \in torn' <=> flow'[r].to \in torn'
  <2>1. CASE r = s
    BY <1>3, <2>1
  <2>2. CASE r # s
    BY <1>3, <2>2
  <2> QED BY <2>1, <2>2
<1>4. ASSUME NEW r \in Connection, pc'[r] # "idle", flow'[r].name \notin torn'
      PROVE  Observing(r)'
  <2>1. CASE r = s
    BY <1>4, <2>1
  <2>2. CASE r # s
    <3>1. pc[r] # "idle" /\ pc'[r] = pc[r] /\ flow'[r] = flow[r] /\ snap'[r] = snap[r]
      BY <1>4, <2>2
    <3>2. flow[r].kind = "rename" => flow[r].to \notin torn'
      BY <1>4, <2>2, <3>1
    <3>3. H!Touched(flow[r]) \subseteq SqlTable
          /\ H!Touched(flow[r]) \subseteq {flow[r].name, flow[r].to}
          /\ (flow[r].kind # "rename" => H!Touched(flow[r]) = {flow[r].name})
          /\ flow[r].name \in H!Touched(flow[r])
      BY <3>1, StatementIs DEF H!Touched
    <3>4. \A n \in H!Touched(flow[r]) : n \notin torn'
      BY <1>4, <3>1, <3>2, <3>3
    <3>5. \A n \in H!Touched(flow[r]) : n \in SqlTable \ X
      BY <2>2, <3>1, <3>3, <3>4
    <3>6. flow[r].name \notin torn
      BY <3>3, <3>4, <3>5
    <3>7. Observing(r)
      BY <3>1, <3>6 DEF ObjectInv
    <3> QED BY <3>1, <3>4, <3>5, <3>7, ObservingStays
  <2> QED BY <2>1, <2>2
<1> QED BY <1>1, <1>2, <1>3, <1>4 DEF ObjectInv

\* A statement is carried out: what overlaps is torn.
LEMMA StatementObjects ==
  ASSUME HistoryTyped, HistoryTyped', ObjectInv, NEW s \in Connection, NEW f \in Statements,
         NEW changed, H!Execute(s, f, changed),
         \A n \in SqlTable \ H!Touched(f) : changed[n] = table[n] /\ (n \in gap' <=> n \in gap),
         /\ f.name \notin torn' /\ (f.kind = "rename" => f.to \notin torn')
         /\ \A n \in H!Touched(f) : n \notin torn /\ HistorySettled(n)
         => Observing(s)'
  PROVE  ObjectInv'
<1> DEFINE others == {r \in Connection :
             pc[r] # "idle" /\ H!Touched(flow[r]) \cap H!Touched(f) # {}}
           X == H!Touched(f) \cup H!Overlapped(f)
<1>1. /\ pc[s] = "idle" /\ pc'[s] = "accepted" /\ flow'[s] = f /\ table' = changed
      /\ \A r \in Connection \ {s} : pc'[r] = pc[r] /\ flow'[r] = flow[r]
      /\ UNCHANGED <<log, data, snap>>
  BY StartsAs
<1>2. torn' = torn \cup H!Overlapped(f)
                   \cup (IF H!Touched(f) \cap torn # {} THEN H!Touched(f) ELSE {})
  BY DEF H!Execute
<1>3. H!Overlapped(f) = IF others = {} THEN {}
                         ELSE H!Touched(f) \cup UNION {H!Touched(flow[r]) : r \in others}
  BY DEF H!Overlapped
<1>4. H!Touched(f) \subseteq SqlTable /\ f.name \in H!Touched(f)
      /\ (f.kind = "rename" => f.to \in H!Touched(f))
      /\ H!Touched(f) \subseteq {f.name, f.to} /\ (f.kind # "rename" => H!Touched(f) = {f.name})
  BY DEF H!Touched, Statements
<1>5. \A r \in others : pc[r] # "idle" /\ H!Touched(flow[r]) \subseteq SqlTable
                        /\ H!Touched(flow[r]) \subseteq torn'
  <2> SUFFICES ASSUME NEW r \in others
               PROVE  pc[r] # "idle" /\ H!Touched(flow[r]) \subseteq SqlTable
                      /\ H!Touched(flow[r]) \subseteq torn'
    OBVIOUS
  <2>1. r \in Connection /\ pc[r] # "idle" /\ others # {}
    OBVIOUS
  <2>2. H!Touched(flow[r]) \subseteq SqlTable
    BY <2>1, StatementIs
  <2>3. H!Touched(flow[r]) \subseteq H!Overlapped(f)
    <3> HIDE DEF others
    <3> QED BY <1>3, <2>1
  <2> QED BY <1>2, <2>1, <2>2, <2>3
<1>6. X \in SUBSET SqlTable /\ H!Overlapped(f) \subseteq torn'
  <2> HIDE DEF others
  <2> QED BY <1>2, <1>3, <1>4, <1>5
<1>7. ASSUME NEW n \in H!Touched(f), n \notin torn'
      PROVE  others = {} /\ H!Touched(f) \cap torn = {} /\ H!Touched(f) \cap torn' = {}
  <2>1. others = {}
    <3> HIDE DEF others
    <3> QED BY <1>2, <1>3, <1>7
  <2>2. H!Touched(f) \cap torn = {}
    BY <1>2, <1>7
  <2>3. torn' = torn
    <3> HIDE DEF others
    <3> QED BY <1>2, <1>3, <2>1, <2>2
  <2> QED BY <2>1, <2>2, <2>3
<1>8. \A n \in SqlTable \ X : n \in torn' <=> n \in torn
  BY <1>2
<1>9. \A n \in X \ torn' :
      n \in H!Touched(f) /\ \A r \in Connection \ {s} : pc[r] # "idle" => n \notin H!Touched(flow[r])
  <2> SUFFICES ASSUME NEW n \in X, n \notin torn'
               PROVE  n \in H!Touched(f)
                      /\ \A r \in Connection \ {s} : pc[r] # "idle" => n \notin H!Touched(flow[r])
    OBVIOUS
  <2>1. n \in H!Touched(f)
    BY <1>6
  <2>2. others = {}
    BY <1>7, <2>1
  <2> QED BY <2>1, <2>2
<1>10. ASSUME NEW r \in Connection \ {s}, pc[r] # "idle", flow[r].kind = "rename"
       PROVE  flow[r].name \in torn' <=> flow[r].to \in torn'
  <2>1. CASE r \in others
    <3>1. flow[r].name \in H!Touched(flow[r]) /\ flow[r].to \in H!Touched(flow[r])
      BY <1>10, StatementIs
    <3> HIDE DEF others
    <3> QED BY <1>5, <2>1, <3>1
  <2>2. CASE r \notin others
    <3>1. H!Touched(flow[r]) \cap H!Touched(f) = {} /\ H!Touched(flow[r]) \subseteq SqlTable
      BY <1>10, <2>2, StatementIs
    <3>2. \A n \in H!Touched(flow[r]) : n \in torn' \ torn => FALSE
      <4> SUFFICES ASSUME NEW n \in H!Touched(flow[r]), n \in torn', n \notin torn PROVE FALSE
        OBVIOUS
      <4>1. n \notin H!Touched(f) /\ n \in SqlTable
        BY <3>1
      <4>2. n \in H!Overlapped(f)
        BY <1>2, <4>1
      <4>3. PICK t \in others : n \in H!Touched(flow[t])
        <5> HIDE DEF others
        <5> QED BY <1>3, <4>1, <4>2
      <4>4. t \in Connection /\ pc[t] # "idle"
        OBVIOUS
      <4>5. t = r
        BY <1>10, <4>1, <4>3, <4>4, OneAtATime
      <4> QED BY <2>2, <4>3, <4>5
    <3>3. flow[r].name \in H!Touched(flow[r]) /\ flow[r].to \in H!Touched(flow[r])
      BY <1>10, StatementIs
    <3>4. flow[r].name \in torn <=> flow[r].to \in torn
      BY <1>10 DEF ObjectInv
    <3>5. \A n : n \in torn => n \in torn'
      BY <1>2
    <3> QED BY <3>2, <3>3, <3>4, <3>5
  <2> QED BY <2>1, <2>2
<1>11. f.kind = "rename" => (f.name \in torn' <=> f.to \in torn')
  BY <1>4, <1>7
<1>12. ASSUME f.name \notin torn' PROVE Observing(s)'
  <2>1. others = {} /\ H!Touched(f) \cap torn = {} /\ H!Touched(f) \cap torn' = {}
    BY <1>4, <1>7, <1>12
  <2>2. \A n \in H!Touched(f) : n \notin torn /\ ~H!Pending(n)
    BY <2>1 DEF H!Pending
  <2>3. \A n \in H!Touched(f) : n \notin torn /\ HistorySettled(n)
    BY <1>4, <2>2 DEF ObjectInv
  <2> HIDE DEF others
  <2> QED BY <1>4, <2>1, <2>3
<1>13. \A n \in SqlTable \ X :
           /\ log'[n] = log[n] /\ data'[n] = data[n] /\ table'[n] = table[n]
           /\ n \in gap' <=> n \in gap
           /\ n \in torn' <=> n \in torn
  BY <1>1, <1>8
<1>14. \A r \in Connection \ {s} : pc'[r] = pc[r] /\ flow'[r] = flow[r] /\ snap'[r] = snap[r]
  BY <1>1
<1>15. H!Touched(flow'[s]) \subseteq X /\ \A n \in X \ torn' : n \in H!Touched(flow'[s])
  BY <1>1, <1>9
<1> HIDE DEF X, others
<1> QED BY <1>1, <1>6, <1>9, <1>10, <1>11, <1>12, <1>13, <1>14, <1>15, OthersKeep

\* A step of the observer of s, about the names of its statement.
LEMMA ObserverObjects ==
  ASSUME HistoryTyped, HistoryTyped', ObjectInv, NEW s \in Connection, pc[s] # "idle",
         \A r \in Connection \ {s} : pc'[r] = pc[r] /\ flow'[r] = flow[r] /\ snap'[r] = snap[r],
         \A n \in SqlTable \ H!Touched(flow[s]) :
           /\ log'[n] = log[n] /\ data'[n] = data[n] /\ table'[n] = table[n]
           /\ n \in gap' <=> n \in gap
           /\ n \in torn' <=> n \in torn,
         \/ torn \subseteq torn'
         \/ \A r \in Connection \ {s} : pc[r] # "idle" =>
            H!Touched(flow[r]) \cap H!Touched(flow[s]) = {},
         pc'[s] # "idle" =>
           flow'[s] = flow[s] /\ torn' = torn /\ (flow[s].name \notin torn => Observing(s)'),
         pc'[s] = "idle" => \A n \in H!Touched(flow[s]) \ torn' : HistorySettled(n)'
  PROVE  ObjectInv'
<1> DEFINE X == H!Touched(flow[s])
<1>1. X \in SUBSET SqlTable
  BY StatementIs
<1>2. \A n \in X \ torn' : \A r \in Connection \ {s} : pc[r] # "idle" => n \notin H!Touched(flow[r])
  <2> SUFFICES ASSUME NEW n \in X, n \notin torn', NEW r \in Connection \ {s}, pc[r] # "idle",
                      n \in H!Touched(flow[r])
               PROVE  FALSE
    OBVIOUS
  <2>1. n \notin torn /\ n \in SqlTable
    BY <1>1
  <2> QED BY <2>1, OneAtATime
<1>3. ASSUME NEW r \in Connection \ {s}, pc[r] # "idle", flow[r].kind = "rename"
      PROVE  flow[r].name \in torn' <=> flow[r].to \in torn'
  <2>1. /\ flow[r].name \in H!Touched(flow[r]) /\ flow[r].to \in H!Touched(flow[r])
        /\ H!Touched(flow[r]) \subseteq SqlTable
    BY <1>3, StatementIs
  <2>2. flow[r].name \in torn <=> flow[r].to \in torn
    BY <1>3 DEF ObjectInv
  <2>3. ASSUME NEW n \in H!Touched(flow[r]) PROVE n \in torn' <=> n \in torn
    <3>1. CASE n \notin X
      BY <2>1, <2>3, <3>1
    <3>2. CASE n \in X
      <4>1. n \in torn
        BY <1>1, <1>3, <2>3, <3>2, OneAtATime
      <4>2. torn \subseteq torn'
        BY <1>3, <2>3, <3>2
      <4> QED BY <4>1, <4>2
    <3> QED BY <3>1, <3>2
  <2> QED BY <2>1, <2>2, <2>3
<1>4. pc'[s] # "idle" => /\ H!Touched(flow'[s]) \subseteq X
                         /\ flow'[s].kind = "rename" =>
                            (flow'[s].name \in torn' <=> flow'[s].to \in torn')
                         /\ flow'[s].name \notin torn' => Observing(s)'
  BY DEF ObjectInv
<1>5. \A n \in X \ torn' : (pc'[s] # "idle" /\ n \in H!Touched(flow'[s])) \/ HistorySettled(n)'
  OBVIOUS
<1>6. \A n \in SqlTable \ X :
           /\ log'[n] = log[n] /\ data'[n] = data[n] /\ table'[n] = table[n]
           /\ n \in gap' <=> n \in gap
           /\ n \in torn' <=> n \in torn
  OBVIOUS
<1>7. H!Touched(flow[s]) \subseteq X
  OBVIOUS
<1> HIDE DEF X
<1> QED BY <1>1, <1>2, <1>3, <1>4, <1>5, <1>6, <1>7, OthersKeep

LEMMA WriteObjects ==
  ASSUME HistoryTyped, HistoryTyped', ObjectInv, NEW s \in Connection, NEW n \in SqlTable,
         NEW big \in BOOLEAN, H!Write(s, n, big)
  PROVE  ObjectInv'
<1>0. PICK obj : obj = IF table[n] = H!NoTable THEN executed + 1 ELSE table[n].obj
  OBVIOUS
<1> DEFINE f == [kind |-> "write", name |-> n, to |-> n]
           new == [obj |-> obj, rows |-> executed + 1, big |-> big]
           changed == [table EXCEPT ![n] = new]
<1>1. H!Execute(s, f, changed)
  BY <1>0 DEF H!Write
<1>2. f \in Statements /\ f.kind = "write" /\ f.name = n /\ H!Touched(f) = {n}
  BY DEF Statements, H!Touched
<1>3. gap' = gap
  BY <1>1, <1>2 DEF H!Execute
<1>4. changed[n] = new /\ \A m \in SqlTable \ {n} : changed[m] = table[m]
  BY DEF HistoryTyped
<1>5. new # H!NoTable /\ new.obj = obj
  <2>1. executed + 1 # 0
    BY DEF HistoryTyped
  <2>2. new.rows = executed + 1 /\ H!NoTable.rows = 0
    BY DEF H!NoTable
  <2>3. new.obj = obj
    OBVIOUS
  <2> HIDE DEF new
  <2> QED BY <2>1, <2>2, <2>3
<1>6. pc'[s] = "accepted" /\ flow'[s] = f /\ table' = changed /\ log' = log /\ data' = data
  BY <1>1, StartsAs
<1>7. ASSUME HistorySettled(n) PROVE Observing(s)'
  <2>1. FilesOf(n, obj)
    <3>1. CASE table[n] = H!NoTable
      <4>1. log[n] = <<>> /\ Len(<<>>) = 0
        BY <1>7, <3>1 DEF HistorySettled
      <4> QED BY <4>1 DEF FilesOf
    <3>2. CASE table[n] # H!NoTable
      BY <1>0, <1>7, <3>2 DEF HistorySettled
    <3> QED BY <3>1, <3>2
  <2> HIDE DEF f, new, changed
  <2>2. FilesOf(n, obj)'
    BY <1>6, <2>1 DEF FilesOf
  <2>3. table'[n] = new
    BY <1>4, <1>6
  <2>4. flow'[s].name = n /\ flow'[s].kind = "write"
    BY <1>2, <1>6
  <2>5. FilesOf(n, table[n].obj)'
    BY <1>5, <1>6, <2>1, <2>3 DEF FilesOf
  <2>6. Writing(s)'
    BY <1>5, <1>6, <2>3, <2>4, <2>5 DEF Writing
  <2> QED BY <2>4, <2>6 DEF Observing
<1> HIDE DEF f, changed
<1> QED BY <1>1, <1>2, <1>3, <1>4, <1>7, StatementObjects

LEMMA DropObjects ==
  ASSUME HistoryTyped, HistoryTyped', ObjectInv, NEW s \in Connection, NEW n \in SqlTable,
         H!DropTable(s, n)
  PROVE  ObjectInv'
<1> DEFINE f == [kind |-> "drop", name |-> n, to |-> n]
           changed == [table EXCEPT ![n] = H!NoTable]
<1>1. H!Execute(s, f, changed)
  BY DEF H!DropTable
<1>2. f \in Statements /\ f.kind = "drop" /\ f.name = n /\ H!Touched(f) = {n}
  BY DEF Statements, H!Touched
<1>3. gap' = gap
  BY <1>1, <1>2 DEF H!Execute
<1>4. changed[n] = H!NoTable /\ \A m \in SqlTable \ {n} : changed[m] = table[m]
  BY DEF HistoryTyped
<1>5. flow'[s] = f /\ table' = changed
  BY <1>1, StartsAs
<1> HIDE DEF f, changed
<1>6. Observing(s)'
  BY <1>2, <1>4, <1>5 DEF Observing
<1> QED BY <1>1, <1>2, <1>3, <1>4, <1>6, StatementObjects

LEMMA RenameObjects ==
  ASSUME HistoryTyped, HistoryTyped', ObjectInv, NEW s \in Connection, NEW n \in SqlTable,
         NEW to \in SqlTable, H!SpRename(s, n, to)
  PROVE  ObjectInv'
<1> DEFINE f == [kind |-> "rename", name |-> n, to |-> to]
           changed == [table EXCEPT ![n] = H!NoTable, ![to] = table[n]]
<1>1. H!Execute(s, f, changed) /\ n # to /\ table[n] # H!NoTable /\ table[to] = H!NoTable
  BY DEF H!SpRename
<1>2. f \in Statements /\ f.kind = "rename" /\ f.name = n /\ f.to = to /\ H!Touched(f) = {n, to}
  BY DEF Statements, H!Touched
<1>3. gap' = (gap \ {n}) \cup (IF n \in gap THEN {to} ELSE {})
  BY <1>1, <1>2 DEF H!Execute
<1>4. changed[n] = H!NoTable /\ changed[to] = table[n]
      /\ \A m \in SqlTable \ {n, to} : changed[m] = table[m]
  BY <1>1 DEF HistoryTyped
<1>5. flow'[s] = f /\ table' = changed /\ log' = log /\ data' = data
  BY <1>1, StartsAs
<1> HIDE DEF f, changed
<1>6. ASSUME HistorySettled(n), HistorySettled(to), to \notin torn' PROVE Observing(s)'
  <2>1. FilesOf(n, table[n].obj) /\ (n \notin gap => NewestIs(n, table[n])) /\ log[to] = <<>>
    BY <1>1, <1>6 DEF HistorySettled
  <2>2. to \notin gap' => n \notin gap
    BY <1>3
  <2>3. table'[n] = H!NoTable /\ table'[to] = table[n]
    BY <1>4, <1>5
  <2>4. FilesOf(n, table[to].obj)' /\ (to \notin gap' => NewestIs(n, table[to])')
    BY <1>5, <2>1, <2>2, <2>3 DEF FilesOf, NewestIs
  <2>5. flow'[s].name = n /\ flow'[s].to = to /\ flow'[s].kind = "rename"
    BY <1>2, <1>5
  <2>6. Renaming(s)'
    BY <1>1, <1>5, <1>6, <2>1, <2>3, <2>4, <2>5 DEF Renaming
  <2> QED BY <2>5, <2>6 DEF Observing
<1>7. \A m \in SqlTable \ H!Touched(f) : changed[m] = table[m] /\ (m \in gap' <=> m \in gap)
  BY <1>2, <1>3, <1>4
<1>8. /\ f.name \notin torn' /\ (f.kind = "rename" => f.to \notin torn')
      /\ \A m \in H!Touched(f) : m \notin torn /\ HistorySettled(m)
      => Observing(s)'
  BY <1>2, <1>6
<1> QED BY <1>1, <1>2, <1>7, <1>8, StatementObjects

LEMMA ForgetObjects ==
  ASSUME HistoryTyped, HistoryTyped', ObjectInv, NEW s \in Connection, pc[s] = "accepted",
         H!Forget(s),
         UNCHANGED <<table, log, data>>
  PROVE  ObjectInv'
<1>1. /\ pc'[s] = "idle" /\ pc[s] # "idle"
      /\ \A r \in Connection \ {s} : pc'[r] = pc[r] /\ flow'[r] = flow[r] /\ snap'[r] = snap[r]
  BY ConnectionIdles DEF H!Forget
<1>2. IF flow[s].kind = "write" THEN gap' = gap \cup {flow[s].name} /\ UNCHANGED torn
      ELSE torn' = torn \cup H!Touched(flow[s]) /\ UNCHANGED gap
  BY DEF H!Forget
<1>3. flow[s].name \in H!Touched(flow[s])
      /\ (flow[s].kind = "write" => H!Touched(flow[s]) = {flow[s].name})
  BY <1>1, StatementIs
<1>4. \A n \in SqlTable \ H!Touched(flow[s]) : (n \in gap' <=> n \in gap)
      /\ (n \in torn' <=> n \in torn)
  BY <1>2, <1>3
<1>5. ASSUME NEW n \in H!Touched(flow[s]), n \notin torn' PROVE HistorySettled(n)'
  <2>1. flow[s].kind = "write" /\ n = flow[s].name /\ n \in gap' /\ n \notin torn
    BY <1>2, <1>3, <1>5
  <2>2. table[n] # H!NoTable /\ FilesOf(n, table[n].obj)
    BY <1>1, <2>1 DEF ObjectInv, Observing, Writing
  <2> QED BY <2>1, <2>2 DEF HistorySettled, FilesOf
<1>6. torn \subseteq torn'
  BY <1>2
<1> QED BY <1>1, <1>4, <1>5, <1>6, ObserverObjects

LEMMA SnapshotObjects ==
  ASSUME HistoryTyped, HistoryTyped', ObjectInv, NEW s \in Connection, H!Snapshot(s)
  PROVE  ObjectInv'
<1> DEFINE n == flow[s].name
<1>1. pc[s] = "accepted" /\ flow[s].kind = "write" /\ UNCHANGED <<table, log, data>>
  BY DEF H!Snapshot, H!engine, H!folders
<1>2. CASE H!Forget(s)
  BY <1>1, <1>2, ForgetObjects
<1>3. CASE /\ snap' = [snap EXCEPT ![s] = table[n]]
           /\ pc' = [pc EXCEPT ![s] = "commit"]
           /\ UNCHANGED <<flow, torn, gap>>
  <2>1. /\ pc'[s] = "commit" /\ pc[s] # "idle" /\ snap'[s] = table[n]
        /\ \A r \in Connection \ {s} : pc'[r] = pc[r] /\ flow'[r] = flow[r] /\ snap'[r] = snap[r]
    BY <1>1, <1>3 DEF HistoryTyped
  <2>2. ASSUME n \notin torn PROVE Observing(s)'
    <3>1. table[n] # H!NoTable /\ FilesOf(n, table[n].obj)
      BY <1>1, <2>1, <2>2 DEF ObjectInv, Observing, Writing
    <3>2. Writing(s)'
      BY <1>1, <1>3, <2>1, <3>1 DEF Writing, FilesOf
    <3> QED BY <1>1, <1>3, <3>2 DEF Observing
  <2>3. torn \subseteq torn' /\ flow'[s] = flow[s]
    BY <1>3
  <2> QED BY <1>1, <1>3, <2>1, <2>2, <2>3, ObserverObjects
<1> QED BY <1>2, <1>3 DEF H!Snapshot

LEMMA PutDataObjects ==
  ASSUME HistoryTyped, HistoryTyped', ObjectInv, NEW s \in Connection, H!PutData(s)
  PROVE  ObjectInv'
<1> DEFINE n == flow[s].name
           k == Len(log[n])
<1>1. /\ pc[s] = "commit" /\ pc' = [pc EXCEPT ![s] = "data"]
      /\ UNCHANGED <<table, log, flow, snap, torn, gap>>
      /\ data' = [data EXCEPT ![n] =
          [f \in DOMAIN data[n] \cup {k} |-> IF f = k THEN snap[s] ELSE data[n][f]]]
  BY DEF H!PutData, H!engine
<1>2. n \in SqlTable /\ n \in H!Touched(flow[s]) /\ flow[s].kind = "write"
  BY <1>1, StatementIs DEF HistoryTyped
<1>3. pc'[s] = "data" /\ pc[s] # "idle" /\ \A r \in Connection \ {s} : pc'[r] = pc[r]
  BY <1>1, ConnectionMoves
<1>4. \A m \in SqlTable \ H!Touched(flow[s]) : data'[m] = data[m]
  BY <1>1, <1>2 DEF HistoryTyped
<1>5. ASSUME n \notin torn PROVE Observing(s)'
  <2>1. table[n] # H!NoTable /\ FilesOf(n, table[n].obj) /\ snap[s] = table[n]
    BY <1>1, <1>2, <1>3, <1>5 DEF ObjectInv, Observing, Writing
  <2>2. k \in Nat
    BY <1>2 DEF HistoryTyped
  <2>3. data'[n] = [f \in DOMAIN data[n] \cup {k} |-> IF f = k THEN snap[s] ELSE data[n][f]]
    <3> HIDE DEF k
    <3> QED BY <1>1, <1>2 DEF HistoryTyped
  <2>4. ASSUME NEW i \in 1 .. k, i - 1 \in DOMAIN data'[n] PROVE data'[n][i - 1].obj = table[n].obj
    <3>1. i - 1 # k
      BY <2>2
    <3>2. i - 1 \in DOMAIN data[n] /\ data'[n][i - 1] = data[n][i - 1]
      <4> HIDE DEF k
      <4> QED BY <2>3, <2>4, <3>1
    <3> QED BY <2>1, <3>2 DEF FilesOf
  <2>5. FilesOf(n, table[n].obj)'
    BY <1>1, <2>4 DEF FilesOf
  <2>6. Writing(s)'
    BY <1>1, <1>3, <2>1, <2>5 DEF Writing
  <2> QED BY <1>1, <1>2, <2>6 DEF Observing
<1>6. torn \subseteq torn' /\ flow'[s] = flow[s]
  BY <1>1
<1> QED BY <1>1, <1>3, <1>4, <1>5, <1>6, ObserverObjects

LEMMA PutCommitObjects ==
  ASSUME HistoryTyped, HistoryTyped', WindowInv, ObjectInv, NEW s \in Connection, H!PutCommit(s)
  PROVE  ObjectInv'
<1> DEFINE n == flow[s].name
           k == Len(log[n])
           c == [at |-> time, adds |-> {k}, removes |-> H!Live(log[n], k)]
<1>1. /\ pc[s] = "data" /\ pc' = [pc EXCEPT ![s] = "expire"]
      /\ UNCHANGED <<table, data, flow, snap, torn>> /\ gap' = gap \ {n}
      /\ log' = [log EXCEPT ![n] = Append(log[n], c)]
  BY DEF H!PutCommit, H!engine
<1>2. n \in SqlTable /\ n \in H!Touched(flow[s]) /\ flow[s].kind = "write"
  BY <1>1, StatementIs DEF HistoryTyped
<1>3. pc'[s] = "expire" /\ pc[s] # "idle" /\ \A r \in Connection \ {s} : pc'[r] = pc[r]
  BY <1>1, ConnectionMoves
<1>4. \A m \in SqlTable \ H!Touched(flow[s]) : log'[m] = log[m] /\ (m \in gap' <=> m \in gap)
  BY <1>1, <1>2 DEF HistoryTyped
<1>5. ASSUME n \notin torn PROVE Observing(s)'
  <2>1. table[n] # H!NoTable /\ FilesOf(n, table[n].obj) /\ snap[s] = table[n]
    BY <1>1, <1>2, <1>3, <1>5 DEF ObjectInv, Observing, Writing
  <2>2. data[n][k] = snap[s]
    BY <1>1 DEF WindowInv, DataUnderLock
  <2>3. k \in Nat /\ Len(log'[n]) = k + 1
    <3>1. log[n] \in Seq(VersionCommits) /\ log'[n] = Append(log[n], c)
      BY <1>1, <1>2 DEF HistoryTyped
    <3> HIDE DEF c
    <3> QED BY <3>1
  <2> HIDE DEF c
  <2>4. ASSUME NEW i \in 1 .. Len(log'[n]), i - 1 \in DOMAIN data[n]
        PROVE  data[n][i - 1].obj = table[n].obj
    <3>1. CASE i = k + 1
      <4>1. i - 1 = k
        BY <2>3, <3>1
      <4> QED BY <2>1, <2>2, <4>1
    <3>2. CASE i # k + 1
      <4>1. i \in 1 .. Len(log[n])
        BY <2>3, <3>2
      <4> QED BY <2>1, <2>4, <4>1 DEF FilesOf
    <3> QED BY <3>1, <3>2
  <2>5. FilesOf(n, table[n].obj)'
    BY <1>1, <2>4 DEF FilesOf
  <2>6. NewestIs(n, table[n])'
    <3>1. Len(log'[n]) > 0 /\ Len(log'[n]) - 1 = k
      BY <2>3
    <3> QED BY <1>1, <2>1, <2>2, <3>1 DEF NewestIs
  <2>7. HistorySettled(n)'
    BY <1>1, <2>1, <2>5, <2>6 DEF HistorySettled
  <2>8. Writing(s)'
    BY <1>1, <1>3, <2>1, <2>5, <2>7 DEF Writing
  <2> QED BY <1>1, <1>2, <2>8 DEF Observing
<1>6. torn \subseteq torn' /\ flow'[s] = flow[s]
  BY <1>1
<1> QED BY <1>1, <1>3, <1>4, <1>5, <1>6, ObserverObjects

LEMMA ExpireObjects ==
  ASSUME HistoryTyped, HistoryTyped', H!HistoryAssumption, WindowInv', ObjectInv,
         NEW s \in Connection, H!ExpireVersions(s)
  PROVE  ObjectInv'
<1>0. PICK n \in SqlTable : n = flow[s].name
  BY StatementIs DEF H!ExpireVersions
<1> DEFINE base == H!Base(log[n])
           added == UNION {log[n][i].adds : i \in 1 .. base}
           gone == IF base <= 1 THEN {} ELSE added \ H!Protected(log[n], base)
<1>1. /\ pc[s] = "expire" /\ H!Done(s)
      /\ UNCHANGED <<time, table, log, torn, gap>>
      /\ data' = [data EXCEPT ![n] = [f \in DOMAIN data[n] \ gone |-> data[n][f]]]
  BY <1>0 DEF H!ExpireVersions, H!engine, H!clock
<1>2. flow[s].name = n /\ H!Touched(flow[s]) = {n} /\ flow[s].kind = "write"
  BY <1>0, <1>1, StatementIs DEF HistoryTyped
<1>3. /\ pc'[s] = "idle" /\ pc[s] # "idle"
      /\ \A r \in Connection \ {s} : pc'[r] = pc[r] /\ flow'[r] = flow[r] /\ snap'[r] = snap[r]
  BY <1>1, ConnectionIdles
<1> HIDE DEF gone
<1>4. data'[n] = [f \in DOMAIN data[n] \ gone |-> data[n][f]]
  BY <1>1, <1>2 DEF HistoryTyped
<1>5. \A m \in SqlTable \ {n} : data'[m] = data[m]
  BY <1>1, <1>2 DEF HistoryTyped
<1>6. ASSUME n \notin torn PROVE HistorySettled(n)'
  <2>1. HistorySettled(n) /\ table[n] # H!NoTable
    BY <1>1, <1>2, <1>3, <1>6 DEF ObjectInv, Observing, Writing
  <2>2. FilesOf(n, table[n].obj) /\ (n \notin gap => NewestIs(n, table[n]))
    BY <2>1 DEF HistorySettled
  <2>3. FilesOf(n, table[n].obj)'
    BY <1>1, <1>4, <2>2 DEF FilesOf
  <2>4. ASSUME NewestIs(n, table[n]) PROVE NewestIs(n, table[n])'
    <3>1. PICK commits \in Seq(VersionCommits) : commits = log[n]
      BY <1>2 DEF HistoryTyped
    <3>2. PICK d \in Int : d = H!RetentionCutoff'
      BY DEF HistoryTyped, H!HistoryAssumption, H!RetentionCutoff
    <3>3. BaseAt(commits, d) \in 0 .. Len(commits) /\ Len(commits) \in Nat
      BY BaseIs
    <3>4. Len(commits) \in 1 .. Len(commits) /\ Len(commits) >= BaseAt(commits, d)
      BY <2>4, <3>1, <3>3 DEF NewestIs
    <3>5. Len(commits) - 1 \in DOMAIN data'[n]
      <4>1. WindowKept(n)' /\ log'[n] = commits
        BY <1>1, <1>2, <3>1 DEF WindowInv
      <4> QED BY <3>2, <3>4, <4>1 DEF WindowKept
    <3>6. data'[n][Len(commits) - 1] = data[n][Len(commits) - 1]
      BY <1>4, <3>5
    <3> QED BY <1>1, <2>4, <3>1, <3>6 DEF NewestIs
  <2> QED BY <1>1, <2>1, <2>2, <2>3, <2>4 DEF HistorySettled
<1>7. torn \subseteq torn'
  BY <1>1
<1> QED BY <1>1, <1>2, <1>3, <1>5, <1>6, <1>7, ObserverObjects

LEMMA DropHistoryObjects ==
  ASSUME HistoryTyped, HistoryTyped', ObjectInv, NEW s \in Connection, H!DropTableHistory(s)
  PROVE  ObjectInv'
<1>0. PICK n \in SqlTable : n = flow[s].name
  BY StatementIs DEF H!DropTableHistory
<1> DEFINE Busy == \E r \in Connection \ {s} : pc[r] # "idle" /\ n \in H!Touched(flow[r])
<1>1. /\ pc[s] = "accepted" /\ flow[s].kind = "drop" /\ H!Done(s) /\ UNCHANGED table
      /\ log' = [log EXCEPT ![n] = <<>>] /\ data' = [data EXCEPT ![n] = H!NoFile]
      /\ IF table[n] # H!NoTable \/ Busy THEN UNCHANGED <<torn, gap>>
         ELSE torn' = torn \ {n} /\ gap' = gap \ {n}
  BY <1>0 DEF H!DropTableHistory, H!engine
<1>2. flow[s].name = n /\ H!Touched(flow[s]) = {n}
  BY <1>0, <1>1, StatementIs
<1>3. /\ pc'[s] = "idle" /\ pc[s] # "idle"
      /\ \A r \in Connection \ {s} : pc'[r] = pc[r] /\ flow'[r] = flow[r] /\ snap'[r] = snap[r]
  BY <1>1, ConnectionIdles
<1>4. \A m \in SqlTable \ {n} : log'[m] = log[m] /\ data'[m] = data[m]
                            /\ (m \in gap' <=> m \in gap) /\ (m \in torn' <=> m \in torn)
  BY <1>1, <1>2 DEF HistoryTyped
<1>5. torn \subseteq torn' \/ \A r \in Connection \ {s} : pc[r] # "idle" =>
      H!Touched(flow[r]) \cap {n} = {}
  BY <1>1
<1>6. ASSUME n \notin torn' PROVE HistorySettled(n)'
  <2>1. log'[n] = <<>>
    BY <1>1, <1>2 DEF HistoryTyped
  <2>2. table[n] = H!NoTable
    <3>1. CASE n \in torn
      BY <1>1, <1>6, <3>1
    <3>2. CASE n \notin torn
      BY <1>1, <1>2, <1>3, <3>2 DEF ObjectInv, Observing
    <3> QED BY <3>1, <3>2
  <2> QED BY <1>1, <2>1, <2>2 DEF HistorySettled
<1> QED BY <1>1, <1>2, <1>3, <1>4, <1>5, <1>6, ObserverObjects

LEMMA RenameHistoryObjects ==
  ASSUME HistoryTyped, HistoryTyped', ObjectInv, NEW s \in Connection, H!RenameTableHistory(s)
  PROVE  ObjectInv'
<1>a. PICK n \in SqlTable : n = flow[s].name
  BY StatementIs DEF H!RenameTableHistory
<1>b. PICK to \in SqlTable : to = flow[s].to
  BY StatementIs DEF H!RenameTableHistory
<1> DEFINE found == log[n] # <<>> \/ data[n] # H!NoFile
<1>1. /\ pc[s] = "accepted" /\ flow[s].kind = "rename" /\ H!Done(s)
      /\ UNCHANGED <<table, torn, gap>>
  BY DEF H!RenameTableHistory, H!engine
<1>2. IF found
      THEN /\ log' = [log EXCEPT ![to] = log[n], ![n] = <<>>]
           /\ data' = [data EXCEPT ![to] = data[n], ![n] = H!NoFile]
      ELSE log' = log /\ data' = data
  BY <1>a, <1>b DEF H!RenameTableHistory, H!folders
<1>3. n # to /\ H!Touched(flow[s]) = {n, to}
  BY <1>1, <1>a, <1>b, StatementIs DEF H!Touched
<1>4. /\ pc'[s] = "idle" /\ pc[s] # "idle"
      /\ \A r \in Connection \ {s} : pc'[r] = pc[r] /\ flow'[r] = flow[r] /\ snap'[r] = snap[r]
  BY <1>1, ConnectionIdles
<1>5. \A m \in SqlTable \ {n, to} : log'[m] = log[m] /\ data'[m] = data[m]
  BY <1>2, <1>3 DEF HistoryTyped
<1>6. n \in torn <=> to \in torn
  BY <1>1, <1>4, <1>a, <1>b DEF ObjectInv
<1>7. ASSUME n \notin torn PROVE HistorySettled(n)' /\ HistorySettled(to)'
  <2>1. /\ table[n] = H!NoTable /\ table[to] # H!NoTable
        /\ FilesOf(n, table[to].obj) /\ (to \notin gap => NewestIs(n, table[to]))
        /\ log[to] = <<>>
    BY <1>1, <1>4, <1>7, <1>a, <1>b DEF ObjectInv, Observing, Renaming
  <2>2. CASE found
    <3>1. log'[to] = log[n] /\ data'[to] = data[n] /\ log'[n] = <<>>
      <4> HIDE DEF found
      <4> QED BY <1>2, <1>3, <2>2 DEF HistoryTyped
    <3>2. FilesOf(to, table[to].obj)' /\ (to \notin gap => NewestIs(to, table[to])')
      BY <1>1, <2>1, <3>1 DEF FilesOf, NewestIs
    <3> QED BY <1>1, <2>1, <3>1, <3>2 DEF HistorySettled
  <2>3. CASE ~found
    <3>1. log'[n] = <<>> /\ log'[to] = <<>> /\ log[n] = <<>> /\ Len(<<>>) = 0
      BY <1>2, <2>1, <2>3
    <3>2. ~NewestIs(n, table[to])
      BY <3>1 DEF NewestIs
    <3>3. FilesOf(to, table[to].obj)'
      BY <3>1 DEF FilesOf
    <3> QED BY <1>1, <2>1, <3>1, <3>2, <3>3 DEF HistorySettled
  <2> QED BY <2>2, <2>3
<1>8. torn \subseteq torn'
  BY <1>1
<1>9. \A m \in H!Touched(flow[s]) \ torn' : HistorySettled(m)'
  BY <1>1, <1>3, <1>6, <1>7
<1> HIDE DEF found
<1> QED BY <1>1, <1>3, <1>4, <1>5, <1>8, <1>9, ObserverObjects

LEMMA CrashObjects ==
  ASSUME HistoryTyped, HistoryTyped', ObjectInv, H!Crash
  PROVE  ObjectInv'
<1> DEFINE lost == {s \in Connection : pc[s] \in {"accepted", "commit", "data"}}
<1>1. /\ UNCHANGED <<table, log, data>> /\ \A s \in Connection : pc'[s] = "idle"
      /\ gap' = gap \cup {flow[s].name : s \in {r \in lost : flow[r].kind = "write"}}
      /\ torn' = torn \cup UNION {H!Touched(flow[s]) : s \in {r \in lost : flow[r].kind # "write"}}
  BY DEF H!Crash, H!engine, H!folders
<1>2. ASSUME NEW n \in SqlTable, n \notin torn' PROVE HistorySettled(n)'
  <2>1. n \notin torn /\ (n \notin gap' => n \notin gap)
    BY <1>1, <1>2
  <2>2. CASE ~H!Pending(n)
    <3>1. HistorySettled(n)
      BY <2>1, <2>2 DEF ObjectInv
    <3> QED BY <1>1, <2>1, <3>1 DEF HistorySettled, FilesOf, NewestIs
  <2>3. CASE H!Pending(n)
    <3>1. PICK s \in Connection : pc[s] # "idle" /\ n \in H!Touched(flow[s])
      BY <2>3 DEF H!Pending
    <3>2. flow[s].kind = "write"
      <4> SUFFICES ASSUME flow[s].kind # "write" PROVE FALSE
        OBVIOUS
      <4>1. pc[s] = "accepted"
        BY <3>1 DEF HistoryTyped
      <4>2. s \in {r \in lost : flow[r].kind # "write"}
        BY <4>1
      <4> HIDE DEF lost
      <4> QED BY <1>1, <1>2, <3>1, <4>2
    <3>3. n = flow[s].name
      BY <3>1, <3>2, StatementIs
    <3>4. table[n] # H!NoTable /\ FilesOf(n, table[n].obj)
          /\ (pc[s] = "expire" => HistorySettled(n))
      BY <2>1, <3>1, <3>2, <3>3 DEF ObjectInv, Observing, Writing
    <3>5. pc[s] = "expire" \/ n \in gap'
      <4>1. CASE s \in lost
        <5>1. s \in {r \in lost : flow[r].kind = "write"}
          BY <3>2, <4>1
        <5> HIDE DEF lost
        <5> QED BY <1>1, <3>3, <5>1
      <4>2. CASE s \notin lost
        BY <3>1, <4>2 DEF HistoryTyped
      <4> QED BY <4>1, <4>2
    <3>6. FilesOf(n, table[n].obj)'
      BY <1>1, <3>4 DEF FilesOf
    <3>7. ASSUME n \notin gap' PROVE NewestIs(n, table[n])'
      <4>1. NewestIs(n, table[n])
        BY <2>1, <3>4, <3>5, <3>7 DEF HistorySettled
      <4> QED BY <1>1, <4>1 DEF NewestIs
    <3> QED BY <1>1, <3>4, <3>6, <3>7 DEF HistorySettled
  <2> QED BY <2>2, <2>3
<1> QED BY <1>1, <1>2 DEF ObjectInv

LEMMA ObjectStep ==
  ASSUME HistoryTyped, HistoryTyped', H!HistoryAssumption, WindowInv, WindowInv', ObjectInv,
         [H!Next]_(H!vars)
  PROVE  ObjectInv'
<1>1. ASSUME NEW s \in Connection, H!Statement(s) PROVE ObjectInv'
  <2>1. CASE H!Unobserved(s)
    <3>1. pc[s] = "accepted" /\ H!Forget(s) /\ UNCHANGED <<table, log, data>>
      BY <2>1 DEF H!Unobserved, H!engine, H!folders
    <3> QED BY <3>1, ForgetObjects
  <2> QED BY <1>1, <2>1, WriteObjects, DropObjects, RenameObjects DEF H!Statement
<1>2. ASSUME NEW s \in Connection, H!Observer(s) PROVE ObjectInv'
  BY <1>2, SnapshotObjects, PutDataObjects, PutCommitObjects, ExpireObjects, DropHistoryObjects,
     RenameHistoryObjects DEF H!Observer
<1>3. CASE H!AdvanceClock \/ UNCHANGED H!vars
  <2>1. UNCHANGED <<table, log, data, pc, flow, snap, torn, gap>>
    BY <1>3 DEF H!AdvanceClock, H!engine, H!folders, H!vars
  <2> QED BY <2>1 DEF ObjectInv, HistorySettled, FilesOf, NewestIs, H!Pending, Observing, Writing,
             Renaming
<1> QED BY <1>1, <1>2, <1>3, CrashObjects DEF H!Next

LEMMA HistoryNext == H!HistoryAssumption /\ HistoryInv /\ [H!Next]_(H!vars) => HistoryInv'
<1> SUFFICES ASSUME H!HistoryAssumption, HistoryInv, [H!Next]_(H!vars) PROVE HistoryInv'
  OBVIOUS
<1>1. HistoryTyped'
  BY HistoryTypes DEF HistoryInv
<1>2. WindowInv'
  BY <1>1, WindowStep DEF HistoryInv
<1>3. ObjectInv'
  BY <1>1, <1>2, ObjectStep DEF HistoryInv
<1> QED BY <1>1, <1>2, <1>3 DEF HistoryInv

LEMMA WindowAnswers == ASSUME H!HistoryAssumption, HistoryInv PROVE H!Answerable
<1> SUFFICES ASSUME NEW n \in SqlTable, NEW t \in 0 .. time, t >= H!RetentionCutoff
             PROVE  H!Live(log[n], H!AppliedAt(log[n], t)) \subseteq DOMAIN data[n]
  BY DEF H!Answerable
<1>1. PICK commits \in Seq(VersionCommits) : commits = log[n]
  BY DEF HistoryInv, HistoryTyped
<1>2. PICK c \in Int : c = H!RetentionCutoff
  BY CutoffInt DEF HistoryInv
<1>3. time \in Nat /\ t \in Nat /\ InOrder(commits, time) /\ Len(commits) \in Nat
  BY <1>1 DEF HistoryInv, HistoryTyped, WindowInv
<1>4. H!AppliedAt(commits, t) \in 0 .. Len(commits) /\ H!AppliedAt(commits, t) >= BaseAt(commits, c)
  BY <1>2, <1>3, AppliedIs
<1>5. PICK k \in 0 .. Len(commits) : k = H!AppliedAt(commits, t)
  BY <1>4
<1>6. H!Live(commits, k) = IF k = 0 THEN {} ELSE {k - 1}
  BY <1>3, LiveIs
<1>7. k # 0 => k - 1 \in DOMAIN data[n]
  <2> SUFFICES ASSUME k # 0 PROVE k - 1 \in DOMAIN data[n]
    OBVIOUS
  <2>1. k \in 1 .. Len(commits) /\ k >= BaseAt(commits, c)
    BY <1>3, <1>4, <1>5
  <2>2. WindowKept(n)
    BY DEF HistoryInv, WindowInv
  <2> QED BY <1>1, <1>2, <2>1, <2>2 DEF WindowKept
<1> QED BY <1>1, <1>5, <1>6, <1>7

LEMMA ObjectFollows == ASSUME HistoryInv PROVE H!HistoryFollowsObject
<1> SUFFICES ASSUME NEW n \in SqlTable, n \notin torn, ~H!Pending(n)
             PROVE  IF table[n] = H!NoTable THEN log[n] = <<>>
                    ELSE /\ \A i \in DOMAIN log[n] : \A f \in log[n][i].adds \cap DOMAIN data[n] :
                              data[n][f].obj = table[n].obj
                         /\ n \notin gap =>
                            {data[n][f] : f \in H!Live(log[n], Len(log[n]))} = {table[n]}
  BY DEF H!HistoryFollowsObject
<1>1. HistorySettled(n)
  BY DEF HistoryInv, ObjectInv
<1>2. CASE table[n] = H!NoTable
  BY <1>1, <1>2 DEF HistorySettled
<1>3. CASE table[n] # H!NoTable
  <2>1. FilesOf(n, table[n].obj) /\ (n \notin gap => NewestIs(n, table[n]))
    BY <1>1, <1>3 DEF HistorySettled
  <2>2. PICK commits \in Seq(VersionCommits) : commits = log[n]
    BY DEF HistoryInv, HistoryTyped
  <2>3. InOrder(commits, time) /\ Len(commits) \in Nat /\ Len(commits) \in 0 .. Len(commits)
    BY <2>2 DEF HistoryInv, WindowInv
  <2>4. ASSUME NEW i \in DOMAIN log[n], NEW f \in log[n][i].adds \cap DOMAIN data[n]
        PROVE  data[n][f].obj = table[n].obj
    <3>1. i \in 1 .. Len(commits)
      BY <2>2
    <3>2. commits[i].adds = {i - 1}
      BY <2>3, <3>1, CommitIs
    <3>3. f = i - 1 /\ i - 1 \in DOMAIN data[n]
      BY <2>2, <2>4, <3>2
    <3> QED BY <2>1, <2>2, <3>1, <3>3 DEF FilesOf
  <2>5. ASSUME n \notin gap PROVE {data[n][f] : f \in H!Live(log[n], Len(log[n]))} = {table[n]}
    <3>1. Len(commits) > 0 /\ data[n][Len(commits) - 1] = table[n]
      BY <2>1, <2>2, <2>5 DEF NewestIs
    <3>2. H!Live(commits, Len(commits)) = {Len(commits) - 1}
      BY <2>3, <3>1, LiveIs
    <3>3. H!Live(log[n], Len(log[n])) = {Len(commits) - 1}
      BY <2>2, <3>2
    <3> QED BY <3>1, <3>3
  <2> QED BY <1>3, <2>4, <2>5
<1> QED BY <1>2, <1>3

-----------------------------------------------------------------------------
(* Storage.                                                                  *)

\* The blocks of some blobs of the stage.
Chunks(st, keys) == UNION {{p} \X st[p] : p \in keys}

\* Each blob comes once.
Apart(s) == \A i, j \in DOMAIN s : s[i] = s[j] => i = j
Blobs(s) == {s[i] : i \in DOMAIN s}

\* What evictions and counts are made of.
StageInv ==
  /\ DOMAIN staged \subseteq Path
  /\ staged \in [DOMAIN staged -> SUBSET Block]
  /\ age \in Seq(Path) /\ Apart(age) /\ Blobs(age) = DOMAIN staged
  /\ IsFiniteSet(Chunks(staged, DOMAIN staged))
  /\ bytes = Cardinality(Chunks(staged, DOMAIN staged))
  /\ bytes > MaxStaged => Len(age) = 1

AckedInv == DOMAIN acked = Path /\ O!OneCommitWins

StorageInv == StageInv /\ AckedInv

-----------------------------------------------------------------------------
LEMMA StorageCounts == ASSUME NEW S PROVE O!Cardinality(S) = Cardinality(S)
  BY DEF O!Cardinality, Cardinality

\* Size counts them.
LEMMA SizeIs ==
  ASSUME NEW st, NEW keys
  PROVE  O!Size(st, keys) = Cardinality(Chunks(st, keys))
BY StorageCounts DEF O!Size, Chunks

LEMMA ChunkIs ==
  ASSUME NEW st, NEW keys, NEW x
  PROVE  x \in Chunks(st, keys) <=> \E q \in keys : \E d \in st[q] : x = <<q, d>>
BY DEF Chunks

\* What is left of ages: its blobs but those of S, each once.
LEMMA RemainingIs ==
  ASSUME NEW X, NEW s \in Seq(X), NEW S
  PROVE  /\ O!Remaining(s, S) \in Seq(X)
         /\ Blobs(O!Remaining(s, S)) = Blobs(s) \ S
         /\ Apart(s) => Apart(O!Remaining(s, S))
<1> DEFINE Next1(f, i) == IF i = 0 THEN <<>>
                          ELSE IF s[i] \in S THEN f[i - 1] ELSE Append(f[i - 1], s[i])
           Goes(f, k) == f = [i \in 0 .. k |-> Next1(f, i)]
           kept == CHOOSE f : Goes(f, Len(s))
<1>l. PICK l \in Nat : l = Len(s)
  OBVIOUS
<1>1. \E f : Goes(f, l)
  <2> DEFINE T == {k \in Nat : \E f : Goes(f, k)}
  <2>1. 0 \in T
    <3> DEFINE f == [i \in 0 .. 0 |-> <<>>]
    <3>1. f = [i \in 0 .. 0 |-> Next1(f, i)]
      OBVIOUS
    <3> QED BY <3>1
  <2>2. ASSUME NEW k \in Nat, k \in T PROVE k + 1 \in T
    <3>1. PICK f : Goes(f, k)
      BY <2>2
    <3> DEFINE new == Next1(f, k + 1)
               h == [i \in 0 .. k + 1 |-> IF i = k + 1 THEN new ELSE f[i]]
    <3>2. ASSUME NEW i \in 0 .. k + 1 PROVE h[i] = Next1(h, i)
      <4>1. CASE i = k + 1
        <5>1. /\ i - 1 \in 0 .. k /\ i - 1 \in 0 .. k + 1 /\ i - 1 # k + 1
              /\ i # 0 /\ i - 1 = k + 1 - 1
          BY <4>1
        <5>2. h[i] = new /\ h[i - 1] = f[i - 1]
          BY <4>1, <5>1
        <5> HIDE DEF h
        <5> QED BY <4>1, <5>1, <5>2
      <4>2. CASE i # k + 1
        <5>1. i \in 0 .. k /\ (i = 0 \/ (i - 1 \in 0 .. k /\ i - 1 \in 0 .. k + 1 /\ i - 1 # k + 1))
          BY <4>2
        <5>2. h[i] = f[i] /\ (i = 0 \/ h[i - 1] = f[i - 1])
          BY <4>2, <5>1
        <5>3. f[i] = Next1(f, i)
          BY <3>1, <5>1
        <5> HIDE DEF h
        <5> QED BY <5>1, <5>2, <5>3
      <4> QED BY <4>1, <4>2
    <3>3. h = [i \in 0 .. k + 1 |-> h[i]]
      OBVIOUS
    <3>4. Goes(h, k + 1)
      <4> HIDE DEF h, Next1
      <4> QED BY <3>2, <3>3
    <3> HIDE DEF h, Goes
    <3> QED BY <3>4
  <2>3. Nat \subseteq T
    <3> HIDE DEF T
    <3> QED BY <2>1, <2>2, Induction
  <2> HIDE DEF Goes
  <2> QED BY <2>3
<1>2. Goes(kept, l)
  <2> HIDE DEF Goes
  <2> QED BY <1>1, <1>l
<1> HIDE DEF kept
<1>3. /\ kept[0] = <<>>
      /\ \A i \in 1 .. l : kept[i] = IF s[i] \in S THEN kept[i - 1] ELSE Append(kept[i - 1], s[i])
  <2> DEFINE h == [i \in 0 .. l |-> Next1(kept, i)]
  <2>1. kept = h
    BY <1>2
  <2>2. h[0] = <<>>
        /\ \A i \in 1 .. l : h[i] = IF s[i] \in S THEN kept[i - 1] ELSE Append(kept[i - 1], s[i])
    OBVIOUS
  <2> HIDE DEF h
  <2> QED BY <2>1, <2>2
<1>4. O!Remaining(s, S) = kept[l]
  BY <1>l DEF O!Remaining, kept
<1> HIDE DEF Goes, Next1
\* Of the first k blobs.
<1> DEFINE Is(k) == /\ kept[k] \in Seq(X)
                    /\ Blobs(kept[k]) = {s[i] : i \in 1 .. k} \ S
                    /\ Apart(s) => Apart(kept[k])
           T == {k \in Nat : k <= l => Is(k)}
<1>5. 0 \in T
  <2>1. kept[0] \in Seq(X) /\ DOMAIN kept[0] = {} /\ 1 .. 0 = {}
    BY <1>3
  <2>2. Is(0)
    BY <2>1 DEF Blobs, Apart
  <2> HIDE DEF Is
  <2> QED BY <2>2
<1>6. ASSUME NEW k \in Nat, k \in T PROVE k + 1 \in T
  <2> SUFFICES ASSUME k + 1 <= l PROVE Is(k + 1)
    OBVIOUS
  <2>1. Is(k)
    BY <1>6
  <2>2. PICK b \in X : b = s[k + 1]
    BY <1>l
  <2>3. k + 1 \in 1 .. l /\ k + 1 - 1 = k
    OBVIOUS
  <2>4. kept[k + 1] = IF b \in S THEN kept[k] ELSE Append(kept[k], b)
    BY <1>3, <2>2, <2>3
  <2>5. {s[i] : i \in 1 .. k + 1} = {s[i] : i \in 1 .. k} \cup {b}
    <3>1. 1 .. k + 1 = 1 .. k \cup {k + 1}
      OBVIOUS
    <3> QED BY <2>2, <3>1
  <2>6. CASE b \in S
    BY <2>1, <2>4, <2>5, <2>6
  <2>7. CASE b \notin S
    <3>0. PICK a \in Seq(X) : a = kept[k]
      BY <2>1
    <3>1. PICK c \in Seq(X) : c = Append(a, b)
      <4>1. Append(a, b) \in Seq(X)
        OBVIOUS
      <4> QED BY <4>1
    <3>2. c = kept[k + 1]
      BY <2>4, <2>7, <3>0, <3>1
    <3>3. /\ Len(c) = Len(a) + 1 /\ c[Len(a) + 1] = b
          /\ \A i \in 1 .. Len(a) : c[i] = a[i]
          /\ DOMAIN a = 1 .. Len(a) /\ DOMAIN c = 1 .. (Len(a) + 1) /\ Len(a) \in Nat
      BY <3>1
    <3>4. 1 .. (Len(a) + 1) = 1 .. Len(a) \cup {Len(a) + 1}
      BY <3>3
    <3>5. Blobs(c) = Blobs(a) \cup {b}
      BY <3>3, <3>4 DEF Blobs
    <3>6. ASSUME Apart(s) PROVE Apart(c)
      <4>1. Apart(a)
        BY <2>1, <3>0, <3>6
      <4>2. b \notin Blobs(a)
        <5> SUFFICES ASSUME NEW i \in 1 .. k, s[i] = b PROVE FALSE
          BY <2>1, <3>0
        <5>1. i \in DOMAIN s /\ k + 1 \in DOMAIN s /\ i # k + 1
          BY <1>l
        <5> QED BY <2>2, <3>6, <5>1 DEF Apart
      <4>3. ASSUME NEW i \in DOMAIN c, NEW j \in DOMAIN c, c[i] = c[j] PROVE i = j
        <5>1. \A m \in DOMAIN c : m = Len(a) + 1 \/ (m \in DOMAIN a /\ c[m] = a[m])
          BY <3>3, <3>4
        <5>2. \A m \in DOMAIN a : a[m] # b
          BY <4>2 DEF Blobs
        <5> QED BY <3>3, <4>1, <4>3, <5>1, <5>2 DEF Apart
      <4> QED BY <4>3 DEF Apart
    <3> QED BY <2>1, <2>5, <2>7, <3>0, <3>2, <3>5, <3>6
  <2> QED BY <2>6, <2>7
<1>7. Is(l)
  <2> HIDE DEF Is
  <2>1. Nat \subseteq T
    <3> HIDE DEF T
    <3> QED BY <1>5, <1>6, Induction
  <2> QED BY <2>1
<1>8. {s[i] : i \in 1 .. l} = Blobs(s)
  BY <1>l DEF Blobs
<1> QED BY <1>4, <1>7, <1>8

\* A sequence in which each blob comes once is as long as they are many.
LEMMA AsManyAs ==
  ASSUME NEW X, NEW s \in Seq(X), Apart(s)
  PROVE  IsFiniteSet(Blobs(s)) /\ Cardinality(Blobs(s)) = Len(s)
<1>1. PICK n \in Nat : n = Len(s) /\ DOMAIN s = 1 .. n
  OBVIOUS
<1>2. s \in [1 .. n -> Blobs(s)]
  BY <1>1 DEF Blobs
<1>3. s \in Bijection(1 .. n, Blobs(s))
  BY <1>1, <1>2 DEF Bijection, Injection, Surjection, IsInjective, Apart, Blobs
<1>4. ExistsBijection(1 .. n, Blobs(s))
  BY <1>3 DEF ExistsBijection
<1> QED BY <1>1, <1>4, FS_CountingElements, FS_NatBijection

\* Of the numbers in a set there is a least one.
LEMMA Least ==
  ASSUME NEW m \in Nat, NEW S \in SUBSET (0 .. m), S # {}
  PROVE  \E i \in S : \A j \in S : i <= j
<1> DEFINE U == {m - i : i \in S}
<1>1. U \in SUBSET (0 .. m) /\ U # {}
  <2>1. \A i \in S : m - i \in 0 .. m
    <3> TAKE i \in S
    <3>1. i \in 0 .. m
      OBVIOUS
    <3> QED BY <3>1
  <2> QED BY <2>1
<1>2. PICK u \in U : \A v \in U : v <= u
  BY <1>1, Greatest
<1>3. PICK i \in S : u = m - i
  OBVIOUS
<1>4. \A j \in S : m - j <= m - i
  BY <1>2, <1>3
<1>5. \A j \in S : i <= j
  <2> TAKE j \in S
  <2>1. i \in 0 .. m /\ j \in 0 .. m /\ m - j <= m - i
    BY <1>4
  <2> QED BY <2>1
<1> QED BY <1>5

-----------------------------------------------------------------------------
LEMMA StorageInit == O!OneLakeAssumption /\ O!Init => StorageInv
<1> SUFFICES ASSUME O!OneLakeAssumption, O!Init PROVE StorageInv
  OBVIOUS
<1>1. DOMAIN staged = {} /\ Chunks(staged, DOMAIN staged) = {}
  BY DEF O!Init, Chunks
<1>2. age \in Seq(Path) /\ DOMAIN age = {}
  BY DEF O!Init
<1>3. StageInv
  <2>1. staged \in [DOMAIN staged -> SUBSET Block]
    <3>1. staged = [q \in {} |-> {}]
      BY DEF O!Init
    <3> QED BY <3>1
  <2>2. Apart(age) /\ Blobs(age) = {}
    BY <1>2 DEF Apart, Blobs
  <2>3. bytes = 0 /\ ~(bytes > MaxStaged)
    BY DEF O!Init, O!OneLakeAssumption
  <2> QED BY <1>1, <1>2, <2>1, <2>2, <2>3, FS_EmptySet DEF StageInv
<1>4. AckedInv
  BY DEF O!Init, AckedInv, O!OneCommitWins
<1> QED BY <1>3, <1>4 DEF StorageInv

-----------------------------------------------------------------------------
(* Paths: who was told that it created one.                                  *)

LEMMA CreateAcks ==
  ASSUME AckedInv, NEW c, NEW p, NEW f, NEW cond, O!Create(c, p, f, cond)
  PROVE  AckedInv'
<1>1. CASE cond /\ p \in O!Stored
  BY <1>1 DEF O!Create, AckedInv, O!OneCommitWins, O!Stored
<1>2. CASE ~(cond /\ p \in O!Stored)
  <2>1. files' = [q \in O!Stored \cup {p} |-> IF q = p THEN f ELSE files[q]]
        /\ acked' = [acked EXCEPT ![p] = IF cond THEN @ \cup {c} ELSE {}]
    BY <1>2 DEF O!Create
  <2>2. O!Stored' = O!Stored \cup {p} /\ DOMAIN acked' = Path
    BY <2>1 DEF O!Stored, AckedInv
  <2>3. ASSUME NEW q \in Path, acked'[q] # {} PROVE Cardinality(acked'[q]) = 1 /\ q \in O!Stored'
    <3>1. CASE q # p
      BY <2>1, <2>2, <2>3, <3>1, StorageCounts DEF AckedInv, O!OneCommitWins
    <3>2. CASE q = p
      <4>1. acked'[q] = IF cond THEN acked[q] \cup {c} ELSE {}
        BY <2>1, <3>2 DEF AckedInv
      <4>2. cond /\ acked[q] = {}
        BY <1>2, <2>3, <3>2, <4>1 DEF AckedInv, O!OneCommitWins
      <4>3. acked'[q] = {c}
        BY <4>1, <4>2
      <4> QED BY <2>2, <3>2, <4>3, FS_Singleton
    <3> QED BY <3>1, <3>2
  <2> QED BY <2>2, <2>3, StorageCounts DEF AckedInv, O!OneCommitWins
<1> QED BY <1>1, <1>2

LEMMA DeleteAcks ==
  ASSUME AckedInv, NEW p, O!DeleteCovered(p)
  PROVE  AckedInv'
<1>1. O!Stored' = O!Stored \ {q \in O!Stored : O!Covers(p, q)}
  BY DEF O!DeleteCovered, O!Without, O!Stored
<1>2. acked' = [q \in Path |-> IF q \in {r \in Path : O!Covers(p, r)} THEN {} ELSE acked[q]]
  BY DEF O!DeleteCovered, O!Forget
<1> QED BY <1>1, <1>2 DEF AckedInv, O!OneCommitWins

LEMMA RenameAcks ==
  ASSUME AckedInv, NEW c, NEW from, NEW into, O!Rename(c, from, into)
  PROVE  AckedInv'
<1> DEFINE To(q) == into \o SubSeq(q, Len(from) + 1, Len(q))
           kept == {q \in O!Stored : ~O!Covers(into, q)}
           moved == {q \in kept : O!Covers(from, q)}
           there == (kept \ moved) \cup {To(m) : m \in moved}
           lost == (O!Stored \ kept) \cup moved \cup {To(m) : m \in moved}
<1>1. O!Stored' = there /\ acked' = O!Forget(lost)
  BY DEF O!Rename, O!Stored
<1>2. \A q \in Path : q \in O!Stored /\ q \notin lost => q \in there
  OBVIOUS
<1> HIDE DEF kept, moved, there, lost, To
<1>3. acked' = [q \in Path |-> IF q \in lost THEN {} ELSE acked[q]]
  BY <1>1 DEF O!Forget
<1> QED BY <1>1, <1>2, <1>3 DEF AckedInv, O!OneCommitWins

LEMMA AppendAcks ==
  ASSUME AckedInv, NEW c, NEW p, NEW n, O!AppendData(c, p, n)
  PROVE  AckedInv'
<1>1. O!Stored' = O!Stored /\ acked' = acked
  BY DEF O!AppendData, O!Stored
<1> QED BY <1>1 DEF AckedInv, O!OneCommitWins

-----------------------------------------------------------------------------
(* The stage.                                                                *)

\* A block put in place of one with its id, or beside the others.
LEMMA GrownIs ==
  ASSUME StageInv, NEW p \in Path, NEW b \in Block
  PROVE  LET with == [q \in DOMAIN staged \cup {p} |->
                       IF q = p THEN O!BlocksOf(p) \cup {b} ELSE staged[q]]
         IN  /\ IsFiniteSet(Chunks(with, DOMAIN with))
             /\ Cardinality(Chunks(with, DOMAIN with)) = O!Grown(p, b)
<1> DEFINE with == [q \in DOMAIN staged \cup {p} |->
                     IF q = p THEN O!BlocksOf(p) \cup {b} ELSE staged[q]]
           old == Chunks(staged, DOMAIN staged)
<1>1. Chunks(with, DOMAIN with) = old \cup {<<p, b>>}
  <2>1. ASSUME NEW x PROVE x \in Chunks(with, DOMAIN with) <=> x \in old \cup {<<p, b>>}
    <3>1. x \in old <=> \E q \in DOMAIN staged : \E d \in staged[q] : x = <<q, d>>
      BY ChunkIs
    <3>2. x \in Chunks(with, DOMAIN with) <=> \E q \in DOMAIN with : \E d \in with[q] : x = <<q, d>>
      <4> HIDE DEF with
      <4> QED BY ChunkIs
    <3>3. DOMAIN with = DOMAIN staged \cup {p} /\ with[p] = O!BlocksOf(p) \cup {b}
          /\ \A q \in DOMAIN staged : q # p => with[q] = staged[q]
      OBVIOUS
    <3>4. O!BlocksOf(p) = IF p \in DOMAIN staged THEN staged[p] ELSE {}
      BY DEF O!BlocksOf
    <3> HIDE DEF with, old
    <3> QED BY <3>1, <3>2, <3>3, <3>4
  <2> HIDE DEF with, old
  <2> QED BY <2>1
<1>2. <<p, b>> \in old <=> b \in O!BlocksOf(p)
  BY DEF Chunks, O!BlocksOf
<1>3. IsFiniteSet(old) /\ Cardinality(old) = bytes
  BY DEF StageInv
<1> HIDE DEF old, with
<1>4. /\ IsFiniteSet(old \cup {<<p, b>>})
      /\ Cardinality(old \cup {<<p, b>>}) = IF <<p, b>> \in old THEN bytes ELSE bytes + 1
  BY <1>3, FS_AddElement
<1>5. Cardinality(old \cup {<<p, b>>}) = O!Grown(p, b)
  BY <1>2, <1>4 DEF O!Grown
<1> QED BY <1>1, <1>4, <1>5 DEF with

\* Dropping blobs takes what they hold off the count.
LEMMA DroppedIs ==
  ASSUME NEW st, NEW gone, IsFiniteSet(Chunks(st, DOMAIN st)), gone \subseteq DOMAIN st
  PROVE  LET left == [q \in DOMAIN st \ gone |-> st[q]]
         IN  /\ IsFiniteSet(Chunks(left, DOMAIN left))
             /\ Cardinality(Chunks(left, DOMAIN left))
                  = Cardinality(Chunks(st, DOMAIN st)) - Cardinality(Chunks(st, gone))
<1> DEFINE left == [q \in DOMAIN st \ gone |-> st[q]]
           all == Chunks(st, DOMAIN st)
           off == Chunks(st, gone)
<1>1. Chunks(left, DOMAIN left) = all \ off
  <2>1. ASSUME NEW x PROVE x \in Chunks(left, DOMAIN left) <=> x \in all \ off
    <3>1. x \in all <=> \E q \in DOMAIN st : \E d \in st[q] : x = <<q, d>>
      BY ChunkIs
    <3>2. x \in off <=> \E q \in gone : \E d \in st[q] : x = <<q, d>>
      BY ChunkIs
    <3>3. DOMAIN left = DOMAIN st \ gone /\ \A q \in DOMAIN left : left[q] = st[q]
      OBVIOUS
    <3> HIDE DEF left, all, off
    <3>4. x \in Chunks(left, DOMAIN left) <=> \E q \in DOMAIN left : \E d \in left[q] : x = <<q, d>>
      BY ChunkIs
    <3> QED BY <3>1, <3>2, <3>3, <3>4
  <2> HIDE DEF left, all, off
  <2> QED BY <2>1
<1>2. off \subseteq all
  BY DEF Chunks
<1> HIDE DEF left, all, off
<1>3. all \cap off = off
  BY <1>2
<1>4. IsFiniteSet(all \ off) /\ Cardinality(all \ off) = Cardinality(all) - Cardinality(off)
  BY <1>3, FS_Difference DEF all
<1> QED BY <1>1, <1>4 DEF left, all, off

\* Blobs go until the stage fits, or all but the one kept do.
LEMMA EvictedIs ==
  ASSUME NEW n, NEW ages \in Seq(Path), NEW keep, NEW st
  PROVE  LET gone == O!Evicted(n, ages, keep, st)
         IN  /\ gone \subseteq Blobs(ages) \ {keep}
             /\ n - O!Size(st, gone) <= MaxStaged \/ gone = Blobs(ages) \ {keep}
<1> DEFINE gone == O!Evicted(n, ages, keep, st)
<1>1. PICK others \in Seq(Path) : others = O!Remaining(ages, {keep})
  BY RemainingIs
<1>2. Blobs(others) = Blobs(ages) \ {keep}
  BY <1>1, RemainingIs
<1>3. PICK l \in Nat : l = Len(others) /\ DOMAIN others = 1 .. l
  OBVIOUS
<1> DEFINE first(i) == {others[j] : j \in 1 .. i}
           fits == {i \in 0 .. l : n - O!Size(st, first(i)) <= MaxStaged}
           k == IF fits = {} THEN l ELSE CHOOSE i \in fits : \A j \in fits : i <= j
<1>4. gone = first(k)
  BY <1>1, <1>3 DEF O!Evicted
<1>5. k \in 0 .. l /\ (fits = {} \/ k \in fits)
  <2>1. CASE fits = {}
    BY <1>3, <2>1
  <2>2. CASE fits # {}
    <3>1. \E i \in fits : \A j \in fits : i <= j
      <4>1. fits \in SUBSET (0 .. l)
        OBVIOUS
      <4> HIDE DEF fits
      <4> QED BY <1>3, <2>2, <4>1, Least
    <3>2. k \in fits
      <4> HIDE DEF fits
      <4> QED BY <2>2, <3>1
    <3> QED BY <3>2
  <2> QED BY <2>1, <2>2
<1>6. first(k) \subseteq Blobs(others)
  <2>1. \A j \in 1 .. k : j \in DOMAIN others
    <3>1. k \in 0 .. l
      BY <1>5
    <3> HIDE DEF k
    <3> QED BY <1>3, <3>1
  <2> HIDE DEF k
  <2> QED BY <2>1 DEF Blobs
<1>7. first(l) = Blobs(others)
  BY <1>3 DEF Blobs
<1>8. n - O!Size(st, first(k)) <= MaxStaged \/ k = l
  BY <1>5
<1> HIDE DEF first, k
<1>9. n - O!Size(st, gone) <= MaxStaged \/ gone = Blobs(ages) \ {keep}
  BY <1>2, <1>4, <1>7, <1>8
<1> HIDE DEF gone
<1> QED BY <1>2, <1>4, <1>6, <1>9 DEF gone

\* What an upload that is given up leaves of the stage.
LEMMA PutBlockStage ==
  ASSUME O!OneLakeAssumption, StageInv, NEW c, NEW p \in Path, NEW b \in Block, O!PutBlock(c, p, b)
  PROVE  StageInv'
<1> DEFINE with == [q \in DOMAIN staged \cup {p} |->
                     IF q = p THEN O!BlocksOf(p) \cup {b} ELSE staged[q]]
           ages == IF p \in DOMAIN staged THEN age ELSE Append(age, p)
           n == O!Grown(p, b)
           gone == O!Evicted(n, ages, p, with)
           left == [q \in DOMAIN with \ gone |-> with[q]]
<1>1. staged' = left /\ age' = O!Remaining(ages, gone) /\ bytes' = n - O!Size(with, gone)
  BY DEF O!PutBlock
<1>2. DOMAIN with = DOMAIN staged \cup {p} /\ with \in [DOMAIN with -> SUBSET Block]
      /\ DOMAIN with \subseteq Path
  BY DEF StageInv, O!BlocksOf
<1>3. IsFiniteSet(Chunks(with, DOMAIN with)) /\ Cardinality(Chunks(with, DOMAIN with)) = n
  BY GrownIs
<1>4. n \in Nat
  BY <1>3, FS_CardinalityType
<1>5. ages \in Seq(Path) /\ Apart(ages) /\ Blobs(ages) = DOMAIN with
  <2>1. CASE p \in DOMAIN staged
    BY <1>2, <2>1 DEF StageInv
  <2>2. CASE p \notin DOMAIN staged
    <3>0. PICK a \in Seq(Path) : a = age
      BY DEF StageInv
    <3>1. ages \in Seq(Path) /\ ages = Append(a, p)
      BY <2>2, <3>0
    <3>2. PICK d \in Seq(Path) : d = Append(a, p)
      BY <3>1
    <3>3. /\ Len(d) = Len(a) + 1 /\ d[Len(a) + 1] = p
          /\ \A i \in 1 .. Len(a) : d[i] = a[i]
          /\ DOMAIN a = 1 .. Len(a) /\ DOMAIN d = 1 .. (Len(a) + 1) /\ Len(a) \in Nat
      BY <3>2
    <3>4. 1 .. (Len(a) + 1) = 1 .. Len(a) \cup {Len(a) + 1}
      BY <3>3
    <3>5. Blobs(d) = Blobs(a) \cup {p}
      BY <3>3, <3>4 DEF Blobs
    <3>6. Apart(a) /\ Blobs(a) = DOMAIN staged
      BY <3>0 DEF StageInv
    <3>7. ASSUME NEW i \in DOMAIN d, NEW j \in DOMAIN d, d[i] = d[j] PROVE i = j
      <4>1. \A m \in DOMAIN d : m = Len(a) + 1 \/ (m \in DOMAIN a /\ d[m] = a[m])
        BY <3>3, <3>4
      <4>2. \A m \in DOMAIN a : a[m] # p
        BY <2>2, <3>6 DEF Blobs
      <4> QED BY <3>3, <3>6, <3>7, <4>1, <4>2 DEF Apart
    <3>8. Apart(d)
      BY <3>7 DEF Apart
    <3> HIDE DEF ages, with
    <3> QED BY <1>2, <3>1, <3>2, <3>5, <3>6, <3>8
  <2> QED BY <2>1, <2>2
<1> HIDE DEF ages, with, n
<1>6. /\ gone \subseteq DOMAIN with \ {p}
      /\ n - O!Size(with, gone) <= MaxStaged \/ gone = DOMAIN with \ {p}
  BY <1>5, EvictedIs
<1> HIDE DEF gone
<1>7. /\ IsFiniteSet(Chunks(left, DOMAIN left))
      /\ Cardinality(Chunks(left, DOMAIN left)) = n - Cardinality(Chunks(with, gone))
  BY <1>3, <1>6, DroppedIs
<1>8. Cardinality(Chunks(with, gone)) = O!Size(with, gone)
  BY SizeIs
<1>9. /\ DOMAIN left = DOMAIN with \ gone /\ left \in [DOMAIN left -> SUBSET Block]
      /\ DOMAIN left \subseteq Path
  BY <1>2
<1>10. /\ age' \in Seq(Path) /\ Apart(age)' /\ Blobs(age)' = DOMAIN left
  <2>1. PICK e : e = O!Remaining(ages, gone)
    OBVIOUS
  <2>2. e \in Seq(Path) /\ Apart(e) /\ Blobs(e) = DOMAIN with \ gone
    BY <1>5, <2>1, RemainingIs
  <2> QED BY <1>1, <1>9, <2>1, <2>2 DEF Apart, Blobs
<1>11. bytes' > MaxStaged => Len(age') = 1
  <2> SUFFICES ASSUME bytes' > MaxStaged PROVE Len(age') = 1
    OBVIOUS
  <2>0. bytes' \in Int /\ MaxStaged \in Nat
    <3>1. Cardinality(Chunks(left, DOMAIN left)) \in Nat
      BY <1>7, FS_CardinalityType
    <3> QED BY <1>1, <1>7, <1>8, <3>1 DEF O!OneLakeAssumption
  <2>1. gone = DOMAIN with \ {p}
    BY <1>1, <1>6, <2>0
  <2>2. DOMAIN left = {p}
    BY <1>2, <1>9, <2>1
  <2>3. PICK e \in Seq(Path) : e = age' /\ Apart(e) /\ Blobs(e) = {p}
    BY <1>10, <2>2 DEF Apart, Blobs
  <2>4. Cardinality({p}) = Len(e)
    BY <2>3, AsManyAs
  <2> QED BY <2>3, <2>4, FS_Singleton
<1> HIDE DEF left
<1> QED BY <1>1, <1>7, <1>8, <1>9, <1>10, <1>11 DEF StageInv

\* A commit takes one blob out, which had blocks.
LEMMA PutBlockListStage ==
  ASSUME O!OneLakeAssumption, StageInv, NEW c, NEW p \in Path, NEW list \in O!BlockList, NEW cond,
         O!PutBlockList(c, p, list, cond)
  PROVE  StageInv'
<1> DEFINE left == [q \in DOMAIN staged \ {p} |-> staged[q]]
<1>1. staged' = left /\ age' = O!Remaining(age, {p}) /\ bytes' = bytes - Cardinality(staged[p])
  BY StorageCounts DEF O!PutBlockList
<1>2. p \in DOMAIN staged
  <2>1. 1 \in DOMAIN list
    BY DEF O!BlockList
  <2>2. list[1] \in O!BlocksOf(p)
    BY <2>1 DEF O!PutBlockList
  <2> QED BY <2>2 DEF O!BlocksOf
<1>3. /\ IsFiniteSet(Chunks(left, DOMAIN left))
      /\ Cardinality(Chunks(left, DOMAIN left)) = bytes - Cardinality(Chunks(staged, {p}))
  BY <1>2, DroppedIs DEF StageInv
<1>4. Cardinality(Chunks(staged, {p})) = Cardinality(staged[p])
  <2> DEFINE S == Chunks(staged, {p})
             f == [x \in S |-> x[2]]
  <2>1. IsFiniteSet(S)
    <3>1. S \subseteq Chunks(staged, DOMAIN staged)
      BY <1>2 DEF Chunks
    <3> HIDE DEF S
    <3> QED BY <3>1, FS_Subset DEF StageInv
  <2>2. \A x \in S : \E d \in staged[p] : x = <<p, d>>
    BY ChunkIs
  <2>3. \A d \in staged[p] : <<p, d>> \in S
    BY ChunkIs
  <2> HIDE DEF S
  <2>4. f \in Bijection(S, staged[p])
    <3>1. f \in [S -> staged[p]]
      BY <2>2
    <3>2. \A x, y \in S : f[x] = f[y] => x = y
      BY <2>2
    <3>3. \A d \in staged[p] : \E x \in S : f[x] = d
      BY <2>3
    <3> HIDE DEF f
    <3> QED BY <3>1, <3>2, <3>3 DEF Bijection, Injection, Surjection, IsInjective
  <2>5. ExistsBijection(S, staged[p])
    BY <2>4 DEF ExistsBijection
  <2> QED BY <2>1, <2>5, FS_Bijection DEF S
<1>5. /\ DOMAIN left = DOMAIN staged \ {p} /\ left \in [DOMAIN left -> SUBSET Block]
      /\ DOMAIN left \subseteq Path
  BY DEF StageInv
<1>6. /\ age' \in Seq(Path) /\ Apart(age)' /\ Blobs(age)' = DOMAIN left
  <2>1. PICK a \in Seq(Path) : a = age
    BY DEF StageInv
  <2>2. PICK e : e = O!Remaining(a, {p})
    OBVIOUS
  <2>3. e \in Seq(Path) /\ Apart(e) /\ Blobs(e) = DOMAIN staged \ {p}
    BY <2>1, <2>2, RemainingIs DEF StageInv
  <2>4. age' = e /\ DOMAIN left = DOMAIN staged \ {p}
    BY <1>1, <1>5, <2>1, <2>2
  <2> HIDE DEF left
  <2> QED BY <2>3, <2>4 DEF Apart, Blobs
<1>7. ~(bytes' > MaxStaged)
  <2>1. Cardinality(Chunks(left, DOMAIN left)) \in Nat /\ bytes \in Nat
    BY <1>3, FS_CardinalityType DEF StageInv
  <2>2. Cardinality(Chunks(staged, {p})) \in Nat
    <3>1. Chunks(staged, {p}) \subseteq Chunks(staged, DOMAIN staged)
      BY <1>2 DEF Chunks
    <3> QED BY <3>1, FS_Subset, FS_CardinalityType DEF StageInv
  <2>3. CASE bytes > MaxStaged
    <3>1. PICK a \in Seq(Path) : a = age /\ Len(a) = 1 /\ Blobs(a) = DOMAIN staged
      BY <2>3 DEF StageInv
    <3>2. Blobs(a) = {a[1]}
      BY <3>1 DEF Blobs
    <3>3. DOMAIN left = {}
      BY <1>2, <1>5, <3>1, <3>2
    <3>4. Chunks(left, DOMAIN left) = {}
      BY <3>3 DEF Chunks
    <3>5. bytes' = 0
      BY <1>1, <1>3, <1>4, <3>4, FS_EmptySet
    <3> QED BY <3>5 DEF O!OneLakeAssumption
  <2>4. CASE ~(bytes > MaxStaged)
    BY <1>1, <1>4, <2>1, <2>2, <2>4 DEF O!OneLakeAssumption
  <2> QED BY <2>3, <2>4
<1> HIDE DEF left
<1> QED BY <1>1, <1>3, <1>4, <1>5, <1>6, <1>7 DEF StageInv

-----------------------------------------------------------------------------
LEMMA StorageNext == O!OneLakeAssumption /\ StorageInv /\ [O!Next]_(O!vars) => StorageInv'
<1> SUFFICES ASSUME O!OneLakeAssumption, StorageInv, [O!Next]_(O!vars) PROVE StorageInv'
  OBVIOUS
<1>0. StageInv /\ AckedInv
  BY DEF StorageInv
<1>1. CASE UNCHANGED O!vars
  BY <1>0, <1>1 DEF O!vars, StorageInv, StageInv, AckedInv, O!OneCommitWins, O!Stored, Apart, Blobs
<1>2. UNCHANGED <<staged, age, bytes>> => StageInv'
  BY <1>0 DEF StageInv, Apart, Blobs
<1>3. UNCHANGED <<files, acked>> => AckedInv'
  BY <1>0 DEF AckedInv, O!OneCommitWins, O!Stored
<1>4. ASSUME NEW c \in StorageClient, NEW p \in Path, NEW f \in O!Body, NEW cond \in BOOLEAN,
             O!Put(c, p, f, cond)
      PROVE  StorageInv'
  BY <1>0, <1>2, <1>4, CreateAcks DEF O!Put, StorageInv
<1>5. ASSUME NEW c \in StorageClient, NEW p \in Path, NEW n \in 0 .. MaxData, O!AppendData(c, p, n)
      PROVE  StorageInv'
  <2>1. StageInv'
    BY <1>2, <1>5 DEF O!AppendData
  <2>2. AckedInv'
    BY <1>0, <1>5, AppendAcks
  <2> QED BY <2>1, <2>2 DEF StorageInv
<1>6. ASSUME NEW c \in StorageClient, NEW p \in Path, NEW d \in Path, O!Rename(c, p, d)
      PROVE  StorageInv'
  <2>1. StageInv'
    BY <1>2, <1>6 DEF O!Rename
  <2>2. AckedInv'
    BY <1>0, <1>6, RenameAcks
  <2> QED BY <2>1, <2>2 DEF StorageInv
<1>7. ASSUME NEW c \in StorageClient, NEW p \in Path, O!Delete(c, p)
      PROVE  StorageInv'
  BY <1>0, <1>2, <1>7, DeleteAcks DEF O!Delete, StorageInv
<1>8. ASSUME NEW c \in StorageClient, NEW p \in Path, O!RmList(c, p)
      PROVE  StorageInv'
  BY <1>2, <1>3, <1>8 DEF O!RmList, StorageInv
<1>9. ASSUME NEW c \in StorageClient, O!RmDelete(c)
      PROVE  StorageInv'
  BY <1>0, <1>2, <1>3, <1>9, DeleteAcks DEF O!RmDelete, StorageInv
<1>10. ASSUME NEW c \in StorageClient, NEW p \in Path, NEW b \in Block, O!PutBlock(c, p, b)
       PROVE  StorageInv'
  <2>1. AckedInv'
    BY <1>3, <1>10 DEF O!PutBlock
  <2> QED BY <1>0, <1>10, <2>1, PutBlockStage DEF StorageInv
<1>11. ASSUME NEW c \in StorageClient, NEW p \in Path, NEW list \in O!BlockList,
              NEW cond \in BOOLEAN, O!PutBlockList(c, p, list, cond)
       PROVE  StorageInv'
  <2>1. AckedInv'
    BY <1>3, <1>11 DEF O!PutBlockList
  <2> QED BY <1>0, <1>11, <2>1, PutBlockListStage DEF StorageInv
<1>12. ASSUME NEW c \in StorageClient, NEW p \in Path, NEW d \in Path, NEW cond \in BOOLEAN,
              O!Copy(c, p, d, cond)
       PROVE  StorageInv'
  BY <1>2, <1>3, <1>12 DEF O!Copy, StorageInv
<1>13. ASSUME NEW c \in StorageClient, O!WriteBlob(c)
       PROVE  StorageInv'
  <2>1. StageInv'
    BY <1>2, <1>13 DEF O!WriteBlob
  <2>2. O!Create(c, fileReq[c].path, [dir |-> FALSE, size |-> fileReq[c].size], fileReq[c].cond)
    BY <1>13 DEF O!WriteBlob
  <2>3. AckedInv'
    BY <1>0, <2>2, CreateAcks
  <2> QED BY <2>1, <2>3 DEF StorageInv
<1> QED BY <1>1, <1>4, <1>5, <1>6, <1>7, <1>8, <1>9, <1>10, <1>11, <1>12, <1>13 DEF O!Next

LEMMA StorageIsSound == StorageInv => O!StorageSound
<1> SUFFICES ASSUME StorageInv PROVE O!StorageSound
  OBVIOUS
<1>1. bytes = O!Size(staged, DOMAIN staged)
  BY SizeIs DEF StorageInv, StageInv
<1>2. {age[i] : i \in DOMAIN age} = DOMAIN staged /\ (bytes > MaxStaged => Len(age) = 1)
  BY DEF StorageInv, StageInv, Blobs
<1>3. Len(age) = Cardinality(DOMAIN staged)
  BY AsManyAs DEF StorageInv, StageInv
<1>4. O!OneCommitWins
  BY DEF StorageInv, AckedInv
<1> QED BY <1>1, <1>2, <1>3, <1>4, StorageCounts DEF O!StorageSound, O!StageBounded

-----------------------------------------------------------------------------
(* Together.                                                                 *)

\* api.go mounts the services on one API, where they share no state of these modules:
\* what is proved of one of them alone carries over to the composition.
LEMMA EachRunsAsAlone ==
  ServicesSpec => E!Spec /\ G!Spec /\ D!Spec /\ L!Spec /\ R!Spec /\ H!Spec /\ O!Spec
<1>1. ServicesInit => E!Init /\ G!Init /\ D!Init /\ L!Init /\ R!Init /\ H!Init /\ O!Init
  BY DEF ServicesInit
<1>2. [ServicesNext]_serviceVars =>
        /\ [E!Next]_(E!vars) /\ [G!Next]_(G!vars) /\ [D!Next]_(D!vars)
        /\ [L!Next]_(L!vars) /\ [R!Next]_(R!vars) /\ [H!Next]_(H!vars)
        /\ [O!Next]_(O!vars)
  BY DEF ServicesNext, serviceVars, TriggerStep, GitStep, DeployStep, LivyStep, LoginStep,
         HistoryStep, StorageStep, triggerVars, gitVars, deployVars, livyVars, loginVars,
         historyVars, fileVars, E!vars, G!vars, D!vars, L!vars, R!vars, R!login, H!vars, O!vars
<1> QED BY <1>1, <1>2, PTL DEF ServicesSpec, E!Spec, G!Spec, D!Spec, L!Spec, R!Spec, H!Spec, O!Spec

\* dispatchTriggers: a write returns to its caller only once every trigger that
\* matched it throughout has started its job, those at their cap apart, and the
\* count of a trigger's activations is of those under way: TriggersFire.
THEOREM WritesFireTheirTriggers ==
  ASSUME E!TriggersAssumption PROVE ServicesSpec => []TriggersFire
<1>1. E!Spec => []E!TriggersFire
  BY E!TriggersHaveFired
<1>2. E!TriggersFire => TriggersFire
  BY DEF TriggersFire
<1> QED BY <1>1, <1>2, EachRunsAsAlone, PTL

\* gitCommitToGit, gitUpdateFromGit: a commit or an update nobody interfered with is
\* recorded as synced only when workspace and branch agree to the item: SyncedAgrees.
THEOREM SyncedWorkspaceIsBranch == ServicesSpec => []SyncedAgrees
<1>1. G!Spec => []G!SyncedAgrees
  BY G!SyncedMeansEqual
<1>2. G!SyncedAgrees => SyncedAgrees
  BY DEF SyncedAgrees
<1> QED BY <1>1, <1>2, EachRunsAsAlone, PTL

\* deploy.go: a pair that no request wrote while a stage was assigned or unassigned
\* joins items of the workspaces its stages have now, one to one: PairsCurrent.
THEOREM PairsJoinAssigned ==
  ASSUME D!DeploymentAssumption PROVE ServicesSpec => []PairsCurrent
<1>1. D!Spec => []D!PairsCurrent
  BY D!PairsAreCurrent
<1>2. D!PairsCurrent => PairsCurrent
  BY DEF PairsCurrent
<1> QED BY <1>1, <1>2, EachRunsAsAlone, PTL

\* deployStageContent: a deploy nobody interfered with, between two workspaces with no
\* stale pair between them, leaves every item it took with a partner in the target
\* stage that has the same definition: DeployedAgrees.
THEOREM DeployLeavesPartners ==
  ASSUME D!DeploymentAssumption PROVE ServicesSpec => []DeployedAgrees
<1>1. D!Spec => []D!DeployedAgrees
  BY D!DeploysAgree
<1>2. D!DeployedAgrees => DeployedAgrees
  BY DEF DeployedAgrees
<1> QED BY <1>1, <1>2, EachRunsAsAlone, PTL

\* A REPL never has two backend sessions, and a session outlives its REPL only
\* until the release closes it, unless a statement was under way, the DELETE failed
\* or the opening was answered without an id (release, ensureBackendSession):
\* NoBackendLeft.
THEOREM SessionsAreClosed == ServicesSpec => []NoBackendLeft
<1>1. SessionsInv => NoBackendLeft
  BY DEF SessionsInv, NoBackendLeft
<1>2. L!Spec => []NoBackendLeft
  BY <1>1, SessionsInit, SessionsNext, PTL DEF L!Spec
<1> QED BY <1>2, EachRunsAsAlone, PTL

\* Reflector, "the caller needs 'is the target ready'": for any number of Reflectors, a login
\* that succeeds shows of every table what the lake held when the login began, or later,
\* whatever logins failed, were cut off or wait behind it; but for a table left empty under
\* a fingerprint already recorded, and for one that logins of two Reflectors were at, until
\* one of them loads its newest commit alone: ReflectedIsSource.
THEOREM LoginsShowTheLake == ASSUME R!ReflectionAssumption PROVE ServicesSpec => []ReflectedIsSource
<1>1. R!Init => ReflectionInv
  BY ReflectionInit
<1>2. ReflectionInv /\ [R!Next]_(R!vars) => ReflectionInv'
  BY ReflectionNext
<1>3. ReflectionInv => ReflectedIsSource
  <2> SUFFICES ASSUME ReflectionInv, NEW c \in Login, loginPc[c] = "reflected",
                      NEW t \in LakeTable \ (half \cup crossed), since[c][t] > 0
               PROVE  since[c][t] <= dst[t]
    BY DEF ReflectedIsSource, R!ReflectedIsSource
  <2>1. Inside(c) /\ ~AtTable(c)
    BY DEF Inside, AtTable
  <2> QED BY <2>1 DEF ReflectionInv, LoginInv, DoneTables
<1> QED BY <1>1, <1>2, <1>3, EachRunsAsAlone, PTL DEF R!Spec

\* ExpireVersions, "the state at the cutoff itself is kept", and "history belongs to the
\* table object": whatever connections do at once, every instant of the window has its
\* files as the clock moves on; and where no statements on a name overlapped and no DROP or
\* rename went unobserved, its history is that of the table it names, up to its last
\* observed write: HistorySound.
THEOREM HistoryIsOfItsTable == ASSUME H!HistoryAssumption PROVE ServicesSpec => []HistorySound
<1>1. H!Init => HistoryInv
  BY HistoryInit
<1>2. HistoryInv /\ [H!Next]_(H!vars) => HistoryInv'
  BY HistoryNext
<1>3. HistoryInv => HistorySound
  BY WindowAnswers, ObjectFollows DEF HistorySound
<1> QED BY <1>1, <1>2, <1>3, EachRunsAsAlone, PTL DEF H!Spec

\* CreateOneLakePath and blockStage: of the clients that create a path on the condition that
\* it is not there, by whichever protocol and whatever others delete, move or overwrite, one
\* is told it did, and the path stays until somebody takes it away; and the stage's count is
\* what it holds, over its bound only by the one blob it keeps: StorageSound.
THEOREM CommitsHold == ASSUME O!OneLakeAssumption PROVE ServicesSpec => []StorageSound
<1>1. O!Init => StorageInv
  BY StorageInit
<1>2. StorageInv /\ [O!Next]_(O!vars) => StorageInv'
  BY StorageNext
<1>3. StorageInv => StorageSound
  BY StorageIsSound DEF StorageSound
<1> QED BY <1>1, <1>2, <1>3, EachRunsAsAlone, PTL DEF O!Spec
=============================================================================
