---------------------------- MODULE FlowBusProofs ----------------------------
(***************************************************************************)
(* Theorems about FlowBus, for any publishers, clients, filters and sizes  *)
(* of the queues: no publisher sends to a closed channel, and the stream   *)
(* implements FlowLog.                                                     *)
(***************************************************************************)
EXTENDS FlowBus, FiniteSetTheorems, TLAPS

\* Whoever is past the test of `stopped' holds the lock, and it is not set.
LockInv ==
  /\ \A p \in sending : mu = p
  /\ sending \subseteq Publisher
  /\ shut # "open" => sending = {}

\* Init establishes it.
LEMMA LockInit == Init => LockInv
  BY DEF Init, LockInv

\* Only a publisher, stop, Close and a restart touch what it speaks of; stop
\* needs the lock, which a sending publisher has.
LEMMA LockStep == LockInv /\ [Next]_vars => LockInv'
<1> SUFFICES ASSUME LockInv, [Next]_vars PROVE LockInv'
  OBVIOUS
<1>1. ASSUME NEW p \in Publisher, Publish(p) PROVE LockInv'
  BY <1>1, FlowBusAssumption DEF Publish, LockInv
<1>2. ASSUME NEW p \in Publisher, Send(p) PROVE LockInv'
  BY <1>2 DEF Send, LockInv
<1>3. CASE Stop
  <2>1. sending = {}
    BY <1>3, FlowBusAssumption DEF Stop, LockInv
  <2> QED
    BY <1>3, <2>1 DEF Stop, LockInv, pubVars
<1>4. CASE CloseRaw
  BY <1>4 DEF CloseRaw, LockInv, pubVars
<1>5. CASE CloseReturns
  BY <1>5 DEF CloseReturns, LockInv, pubVars
<1>6. CASE Restart
  BY <1>6 DEF Restart, LockInv
<1>7. ASSUME UNCHANGED <<mu, sending, shut>> PROVE LockInv'
  BY <1>7 DEF LockInv
<1>8. CASE Take \/ Stamp \/ DispatcherEnds
  BY <1>7, <1>8 DEF Take, Stamp, DispatcherEnds, pubVars
<1>9. ASSUME NEW c \in Client,
             Offer(c) \/ CountDrop(c) \/ Connect(c) \/ HandlerStep(c) \/ Tick(c) \/ Break(c)
      PROVE  LockInv'
  BY <1>7, <1>9 DEF Offer, CountDrop, Connect, HandlerStep, Tick, Break, TakeReplay,
                    SendReplay, Receive, Report, SendEvent, busVars, pubVars
<1>10. CASE UNCHANGED vars
  BY <1>7, <1>10 DEF vars, busVars, pubVars
<1> QED
  BY <1>1, <1>2, <1>3, <1>4, <1>5, <1>6, <1>8, <1>9, <1>10 DEF Next

\* bus.go:292-304: whatever the timing of Store.Close, no publisher is about to
\* send to the closed raw channel.
THEOREM NeverSendsOnClosed == Spec => []NoSendOnClosed
<1>1. LockInv => NoSendOnClosed
  BY DEF LockInv, NoSendOnClosed
<1> QED
  BY LockInit, LockStep, <1>1, PTL DEF Spec

-----------------------------------------------------------------------------
(***************************************************************************)
(* What a client asked for and lacks is somewhere: still to be replayed,   *)
(* in its handler's hand, queued, being offered, or counted.               *)
(***************************************************************************)
Typed ==
  /\ raw \in Seq(Published) /\ todo \in Seq(Kind) /\ log \in Seq(Kind) /\ ring \in Seq(Nat)
  /\ subs \subseteq Client /\ fan \subseteq Client /\ full \in Client \cup {Nobody}
  /\ chan \in [Client -> Seq(Nat)] /\ batch \in [Client -> Seq(Nat)]
  /\ dropped \in [Client -> Nat] /\ told \in [Client -> Nat]
  /\ hand \in [Client -> Nat] /\ lastSent \in [Client -> Nat]
  /\ lastId \in [Client -> Nat] /\ from \in [Client -> Nat]
  /\ got \in [Client -> SUBSET Nat]
  /\ cpc \in [Client -> {"off", "subscribed", "stream", "report", "send"}]

\* The ring is the end of the log.
RingInv ==
  /\ Len(ring) = IF Len(log) < RingSize THEN Len(log) ELSE RingSize
  /\ \A i \in DOMAIN ring : ring[i] = Len(log) - Len(ring) + i

\* What client c asked for and, since its connection began, lacks below event n:
\* FlowLog's Holes, over this module's variables.
Holes(c, n) == {m \in 1..Len(log) : /\ from[c] < m /\ m < n /\ m \notin got[c]
                                    /\ log[m] \in Filter[c]}

\* The event stamped last is not in c's queue yet.
Offered(c) == c \in fan \/ full = c

\* Events on their way to client c past its replay.
InFlight(c) == ({hand[c]} \ {0}) \cup Range(chan[c])
                 \cup (IF Offered(c) THEN {Len(log)} ELSE {})

\* What c lacks and nothing will bring it.
Missed(c) == Holes(c, Len(log) + 1) \ (InFlight(c) \cup Range(batch[c]))

Below(S, n) == {m \in S : m < n}

\* What a handler holds at each of its steps.
IdleInv(c) ==
  /\ cpc[c] = "off" <=> c \notin subs
  /\ cpc[c] = "off" => chan[c] = <<>> /\ ~Offered(c)
  /\ cpc[c] \in {"off", "subscribed"} => batch[c] = <<>> /\ lastSent[c] = 0
  /\ cpc[c] \in {"off", "subscribed", "stream"} => hand[c] = 0
  /\ cpc[c] \in {"report", "send"} => batch[c] = <<>> /\ hand[c] # 0

\* The event in hand, the queue and the event being offered are in order.
OrderInv(c) ==
  /\ \A i \in DOMAIN chan[c] : /\ hand[c] < chan[c][i] /\ chan[c][i] <= Len(log)
                               /\ Offered(c) => chan[c][i] < Len(log)
                               /\ \A j \in DOMAIN chan[c] : i < j => chan[c][i] < chan[c][j]
  /\ hand[c] <= Len(log) /\ (Offered(c) => hand[c] < Len(log))
  /\ lastSent[c] <= Len(log)

\* What was received is behind what is coming, but for what the replay covered;
\* of that, nothing that was asked for is missing.
GotInv(c) ==
  /\ \A m \in got[c] : 0 < m /\ m <= Len(log) /\ m <= lastId[c]
  /\ \A q \in InFlight(c), m \in got[c] : m <= lastSent[c] \/ m < q
  /\ \A q \in InFlight(c) : from[c] < q /\ q <= lastSent[c] /\ Wanted(c, q) => q \in got[c]

\* The replay goes on where it stands without leaving anything out.
ReplayInv(c) ==
  batch[c] # <<>> =>
    /\ \A i \in DOMAIN batch[c] : batch[c][i] = batch[c][1] + i - 1 /\ batch[c][i] <= Len(log)
    /\ lastSent[c] < batch[c][1]
    /\ \A m \in got[c] : m < batch[c][1]
    /\ Holes(c, batch[c][1]) = {}

\* What is missed is counted, and below an event about to be sent it was told.
MissedInv(c) ==
  /\ cpc[c] \in {"stream", "report", "send"} => Cardinality(Missed(c)) <= told[c] + dropped[c]
  /\ cpc[c] = "send" => Cardinality(Below(Missed(c), hand[c])) <= told[c]

ConnInv(c) == IdleInv(c) /\ OrderInv(c) /\ GotInv(c) /\ ReplayInv(c) /\ MissedInv(c)

StreamInv == Typed /\ RingInv /\ \A c \in Client : ConnInv(c)

-----------------------------------------------------------------------------
\* What the assumption on the constants says, in the form the leaves need.
LEMMA Bounds ==
  /\ RingSize \in Nat /\ RingSize > 0 /\ Nobody \notin Client
  /\ Published \subseteq Kind
BY FlowBusAssumption DEF Kind

\* What a connection that asks for the events after `since' is given: those the
\* ring still has, from the first of them to the last of the log.
LEMMA ReplayIsTail ==
  ASSUME Typed, RingInv, NEW since \in Nat
  PROVE  LET F == Abs!Larger(since, Len(log) - RingSize) IN
           /\ F \in Nat
           /\ Replay(since) \in Seq(Nat)
           /\ Len(Replay(since)) = IF F < Len(log) THEN Len(log) - F ELSE 0
           /\ \A i \in DOMAIN Replay(since) : Replay(since)[i] = F + i
<1>1. PICK N \in Nat, R \in Nat : N = Len(log) /\ R = Len(ring)
  BY DEF Typed
<1>2. /\ R = (IF N < RingSize THEN N ELSE RingSize) /\ RingSize \in Nat /\ RingSize > 0
      /\ ring \in Seq(Nat) /\ DOMAIN ring = 1..R
  BY <1>1, Bounds DEF Typed, RingInv
<1>3. PICK base \in Nat : base = N - R
  <2>1. N - R \in Nat
    BY <1>2
  <2> QED BY <2>1
<1>4. \A i \in 1..R : ring[i] = base + i
  BY <1>1, <1>2, <1>3 DEF RingInv
<1>5. PICK F \in Nat : /\ F = Abs!Larger(since, N - RingSize)
                      /\ F = (IF since >= base THEN since ELSE base)
  <2>1. Abs!Larger(since, N - RingSize) = IF since >= base THEN since ELSE base
    BY <1>2, <1>3 DEF Abs!Larger
  <2> QED BY <2>1
<1>6. PICK old \in 0..R : (F < N => base + old = F) /\ (F >= N => old = R)
  <2>1. CASE F < N
    <3>1. F - base \in 0..R
      BY <1>2, <1>3, <1>5, <2>1
    <3> QED BY <2>1, <3>1
  <2>2. CASE F >= N
    BY <2>2
  <2> QED BY <2>1, <2>2
<1>7. {i \in DOMAIN ring : ring[i] <= since} = 1..old
  <2>1. \A i \in 1..R : base + i <= since <=> i <= old
    BY <1>2, <1>3, <1>5, <1>6
  <2>2. {i \in DOMAIN ring : ring[i] <= since} = {i \in 1..R : i <= old}
    BY <1>2, <1>4, <2>1
  <2>3. {i \in 1..R : i <= old} = 1..old
    BY <1>6
  <2> QED BY <2>2, <2>3
<1>8. Cardinality(1..old) = old
  BY <1>6, FS_Interval
<1>9. Replay(since) = SubSeq(ring, old + 1, R)
  BY <1>1, <1>7, <1>8 DEF Replay
<1>10. /\ SubSeq(ring, old + 1, R) \in Seq(Nat)
       /\ Len(SubSeq(ring, old + 1, R)) = R - old
       /\ \A i \in 1..(R - old) : SubSeq(ring, old + 1, R)[i] = ring[old + i]
  BY <1>1, <1>2, <1>6
<1>11. Len(Replay(since)) = IF F < N THEN N - F ELSE 0
  BY <1>3, <1>6, <1>9, <1>10
<1>12. \A i \in 1..(R - old) : Replay(since)[i] = F + i
  <2> TAKE i \in 1..(R - old)
  <2>1. F < N /\ base + old = F
    BY <1>6
  <2>2. Replay(since)[i] = base + (old + i)
    BY <1>4, <1>6, <1>9, <1>10
  <2> QED BY <1>6, <2>1, <2>2
<1>13. DOMAIN Replay(since) = 1..(R - old)
  BY <1>9, <1>10
<1> QED BY <1>1, <1>5, <1>9, <1>10, <1>11, <1>12, <1>13

\* Receiving an event adds its seq to what was received.
LEMMA ReceivesTyped ==
  ASSUME Typed, NEW c \in Client, NEW n \in Nat, Receives(c, n)
  PROVE  got' \in [Client -> SUBSET Nat] /\ lastId' \in [Client -> Nat]
<1>1. CASE Wanted(c, n)
  <2>1. got[c] \cup {n} \in SUBSET Nat
    BY DEF Typed
  <2> QED BY <1>1, <2>1 DEF Receives, Typed
<1>2. CASE ~Wanted(c, n)
  BY <1>2 DEF Receives, Typed
<1> QED BY <1>1, <1>2

\* Types: the initial states.
LEMMA InitTyped == Init => Typed
BY Bounds DEF Init, Typed

\* Types: every step.
LEMMA NextTyped == Typed /\ RingInv /\ [Next]_vars => Typed'
<1> SUFFICES ASSUME Typed, RingInv, [Next]_vars PROVE Typed'
  OBVIOUS
<1> USE Bounds
<1> USE DEF pubVars, dispVars, busVars, subVars, connVars, viewVars, streamVars
<1>1. ASSUME NEW p \in Publisher, Publish(p) PROVE Typed'
  BY <1>1 DEF Publish, Typed
<1>2. ASSUME NEW p \in Publisher, Send(p) PROVE Typed'
  <2>1. raw' \in Seq(Published)
    <3>1. \A k \in Published : Append(raw, k) \in Seq(Published)
      BY DEF Typed
    <3> QED BY <1>2, <3>1 DEF Send, Typed
  <2> QED BY <1>2, <2>1 DEF Send, Typed
<1>3. CASE Take
  <2>1. Head(raw) \in Published /\ Tail(raw) \in Seq(Published)
    BY <1>3 DEF Take, Typed
  <2>2. todo' \in Seq(Kind) /\ raw' \in Seq(Published)
    <3>1. <<Head(raw)>> \in Seq(Kind) /\ <<"file", "table">> \in Seq(Kind)
      BY <2>1 DEF Kind, Published
    <3> QED BY <1>3, <2>1, <3>1 DEF Take
  <2> QED BY <1>3, <2>2 DEF Take, Typed
<1>4. CASE Stamp
  <2>1. Head(todo) \in Kind /\ Tail(todo) \in Seq(Kind)
    BY <1>4 DEF Stamp, Typed
  <2>2. log' \in Seq(Kind) /\ todo' \in Seq(Kind)
    BY <1>4, <2>1 DEF Stamp, Typed
  <2>3. ring' \in Seq(Nat)
    <3>1. Len(log) + 1 \in Nat /\ (Len(ring) = RingSize => Tail(ring) \in Seq(Nat))
      BY DEF Typed
    <3> QED BY <1>4, <3>1 DEF Stamp, Pushed, Typed
  <2> QED BY <1>4, <2>2, <2>3 DEF Stamp, Typed
<1>5. ASSUME NEW c \in Client, Offer(c) PROVE Typed'
  <2>1. log \in Seq(Kind) /\ chan \in [Client -> Seq(Nat)]
    BY DEF Typed
  <2>2. Append(chan[c], Len(log)) \in Seq(Nat)
    <3>1. Len(log) \in Nat /\ chan[c] \in Seq(Nat)
      BY <2>1
    <3> QED BY <3>1
  <2>3. chan' \in [Client -> Seq(Nat)]
    BY <1>5, <2>1, <2>2 DEF Offer
  <2>4. fan' \subseteq Client /\ full' \in Client \cup {Nobody}
    BY <1>5 DEF Offer, Typed
  <2> QED BY <1>5, <2>3, <2>4 DEF Offer, Typed
<1>6. ASSUME NEW c \in Client, CountDrop(c) PROVE Typed'
  <2>1. dropped \in [Client -> Nat]
    BY DEF Typed
  <2>2. dropped' \in [Client -> Nat]
    <3>1. dropped[c] + 1 \in Nat
      BY <2>1
    <3> QED BY <1>6, <2>1, <3>1 DEF CountDrop
  <2> QED BY <1>6, <2>2 DEF CountDrop, Typed
<1>7. ASSUME NEW c \in Client, Connect(c) PROVE Typed'
  BY <1>7 DEF Connect, Typed
<1>8. ASSUME NEW c \in Client, TakeReplay(c) PROVE Typed'
  <2>1. lastId[c] \in Nat
    BY DEF Typed
  <2>2. Abs!Larger(lastId[c], Len(log) - RingSize) \in Nat /\ Replay(lastId[c]) \in Seq(Nat)
    BY <2>1, ReplayIsTail
  <2> QED BY <1>8, <2>2 DEF TakeReplay, Typed
<1>9. ASSUME NEW c \in Client, SendReplay(c) PROVE Typed'
  <2>1. Head(batch[c]) \in Nat /\ Tail(batch[c]) \in Seq(Nat)
    <3>1. batch[c] \in Seq(Nat) /\ batch[c] # <<>>
      BY <1>9 DEF SendReplay, Typed
    <3> QED BY <3>1
  <2>2. got' \in [Client -> SUBSET Nat] /\ lastId' \in [Client -> Nat]
    BY <1>9, <2>1, ReceivesTyped DEF SendReplay
  <2> QED BY <1>9, <2>1, <2>2 DEF SendReplay, Typed
<1>10. ASSUME NEW c \in Client, Receive(c) PROVE Typed'
  <2>1. Head(chan[c]) \in Nat /\ Tail(chan[c]) \in Seq(Nat)
    <3>1. chan[c] \in Seq(Nat) /\ chan[c] # <<>>
      BY <1>10 DEF Receive, Typed
    <3> QED BY <3>1
  <2> QED BY <1>10, <2>1 DEF Receive, Typed
<1>11. ASSUME NEW c \in Client, Report(c) \/ Tick(c) PROVE Typed'
  <2>1. told \in [Client -> Nat] /\ dropped \in [Client -> Nat]
    BY DEF Typed
  <2>2. told' \in [Client -> Nat] /\ dropped' \in [Client -> Nat]
    <3>1. told[c] + dropped[c] \in Nat
      BY <2>1
    <3>2. /\ told' = [told EXCEPT ![c] = @ + dropped[c]]
          /\ dropped' = [dropped EXCEPT ![c] = 0]
      BY <1>11 DEF Report, Tick, ReportDrops
    <3> QED BY <2>1, <3>1, <3>2
  <2>3. /\ cpc' \in [Client -> {"off", "subscribed", "stream", "report", "send"}]
        /\ UNCHANGED <<raw, todo, log, ring, subs, fan, full, chan, batch, hand, lastSent,
                       lastId, from, got>>
    BY <1>11 DEF Report, Tick, Typed
  <2> QED BY <2>2, <2>3 DEF Typed
<1>12. ASSUME NEW c \in Client, SendEvent(c) PROVE Typed'
  <2>1. hand[c] \in Nat
    BY DEF Typed
  <2>2. /\ got' \in [Client -> SUBSET Nat] /\ lastId' \in [Client -> Nat]
        /\ lastSent' \in [Client -> Nat]
    <3>1. CASE hand[c] > lastSent[c]
      BY <1>12, <2>1, <3>1, ReceivesTyped DEF SendEvent, Typed
    <3>2. CASE ~(hand[c] > lastSent[c])
      BY <1>12, <3>2 DEF SendEvent, Typed
    <3> QED BY <3>1, <3>2
  <2> QED BY <1>12, <2>2 DEF SendEvent, Typed
<1>13. ASSUME NEW c \in Client, Break(c) PROVE Typed'
  <2>1. <<>> \in Seq(Nat) /\ 0 \in Nat
    OBVIOUS
  <2>2. /\ chan' \in [Client -> Seq(Nat)] /\ batch' \in [Client -> Seq(Nat)]
        /\ dropped' \in [Client -> Nat] /\ hand' \in [Client -> Nat]
        /\ lastSent' \in [Client -> Nat]
    BY <1>13, <2>1 DEF Break, Typed
  <2>3. /\ subs' \subseteq Client /\ fan' \subseteq Client /\ full' \in Client \cup {Nobody}
        /\ cpc' \in [Client -> {"off", "subscribed", "stream", "report", "send"}]
    BY <1>13 DEF Break, Typed
  <2> QED BY <1>13, <2>2, <2>3 DEF Break, Typed
<1>14. CASE DispatcherEnds \/ Stop \/ CloseRaw \/ CloseReturns
  BY <1>14 DEF DispatcherEnds, Stop, CloseRaw, CloseReturns, Typed
<1>15. CASE Restart
  BY <1>15 DEF Restart, Typed
<1>16. CASE UNCHANGED vars
  BY <1>16 DEF vars, Typed
<1> QED
  BY <1>1, <1>2, <1>3, <1>4, <1>5, <1>6, <1>7, <1>8, <1>9, <1>10, <1>11, <1>12, <1>13, <1>14,
     <1>15, <1>16 DEF Next, HandlerStep

-----------------------------------------------------------------------------
\* The members of a queue whose first is taken, or that one is appended to.
LEMMA QueueMembers ==
  /\ \A s \in Seq(Nat) : s # <<>> =>
       /\ Head(s) = s[1] /\ Tail(s) \in Seq(Nat) /\ DOMAIN Tail(s) = 1..(Len(s) - 1)
       /\ DOMAIN s = 1..Len(s) /\ Len(s) \in Nat \ {0}
       /\ \A i \in 1..(Len(s) - 1) : Tail(s)[i] = s[i + 1]
       /\ Range(s) = {Head(s)} \cup Range(Tail(s))
  /\ \A s \in Seq(Nat), n \in Nat :
       /\ Append(s, n) \in Seq(Nat) /\ DOMAIN Append(s, n) = 1..(Len(s) + 1)
       /\ DOMAIN s = 1..Len(s) /\ Len(s) \in Nat
       /\ \A i \in 1..Len(s) : Append(s, n)[i] = s[i]
       /\ Append(s, n)[Len(s) + 1] = n
       /\ Range(Append(s, n)) = Range(s) \cup {n}
<1>1. ASSUME NEW s \in Seq(Nat), s # <<>>
      PROVE  /\ Head(s) = s[1] /\ Tail(s) \in Seq(Nat) /\ DOMAIN Tail(s) = 1..(Len(s) - 1)
             /\ DOMAIN s = 1..Len(s) /\ Len(s) \in Nat \ {0}
             /\ \A i \in 1..(Len(s) - 1) : Tail(s)[i] = s[i + 1]
             /\ Range(s) = {Head(s)} \cup Range(Tail(s))
  <2>1. /\ Head(s) = s[1] /\ Tail(s) \in Seq(Nat) /\ DOMAIN Tail(s) = 1..(Len(s) - 1)
        /\ DOMAIN s = 1..Len(s) /\ Len(s) \in Nat \ {0}
        /\ \A i \in 1..(Len(s) - 1) : Tail(s)[i] = s[i + 1]
    BY <1>1
  <2>2. \A i \in 1..Len(s) : i = 1 \/ (i - 1 \in 1..(Len(s) - 1) /\ s[i] = Tail(s)[i - 1])
    BY <2>1
  <2>3. 1 \in 1..Len(s) /\ \A i \in 1..(Len(s) - 1) : i + 1 \in 1..Len(s)
    BY <2>1
  <2>4. ASSUME NEW x \in Range(s) PROVE x \in {Head(s)} \cup Range(Tail(s))
    <3>1. PICK i \in 1..Len(s) : x = s[i]
      BY <2>1 DEF Range
    <3>2. CASE i = 1
      BY <2>1, <3>1, <3>2
    <3>3. CASE i - 1 \in 1..(Len(s) - 1) /\ s[i] = Tail(s)[i - 1]
      <4>1. i - 1 \in DOMAIN Tail(s)
        BY <2>1, <3>3
      <4> QED BY <3>1, <3>3, <4>1 DEF Range
    <3> QED BY <2>2, <3>2, <3>3
  <2>5. Head(s) \in Range(s) /\ Range(Tail(s)) \subseteq Range(s)
    BY <2>1, <2>3 DEF Range
  <2>6. Range(s) = {Head(s)} \cup Range(Tail(s))
    BY <2>4, <2>5
  <2> QED BY <2>1, <2>6
<1>2. ASSUME NEW s \in Seq(Nat), NEW n \in Nat
      PROVE  /\ Append(s, n) \in Seq(Nat) /\ DOMAIN Append(s, n) = 1..(Len(s) + 1)
             /\ DOMAIN s = 1..Len(s) /\ Len(s) \in Nat
             /\ \A i \in 1..Len(s) : Append(s, n)[i] = s[i]
             /\ Append(s, n)[Len(s) + 1] = n
             /\ Range(Append(s, n)) = Range(s) \cup {n}
  <2>1. /\ Append(s, n) \in Seq(Nat) /\ DOMAIN Append(s, n) = 1..(Len(s) + 1)
        /\ DOMAIN s = 1..Len(s) /\ Len(s) \in Nat
        /\ \A i \in 1..Len(s) : Append(s, n)[i] = s[i]
        /\ Append(s, n)[Len(s) + 1] = n
    OBVIOUS
  <2>2. \A i \in 1..(Len(s) + 1) : i \in 1..Len(s) \/ i = Len(s) + 1
    BY <2>1
  <2>3. /\ \A i \in 1..Len(s) : i \in 1..(Len(s) + 1)
        /\ Len(s) + 1 \in 1..(Len(s) + 1)
    BY <2>1
  <2> QED BY <2>1, <2>2, <2>3 DEF Range
<1> QED BY <1>1, <1>2

\* What a client misses is finitely many events, and a part of it fewer.
LEMMA FewerMissed ==
  ASSUME NEW n \in Nat, NEW S \in SUBSET (1..n), NEW T \in SUBSET S
  PROVE  Cardinality(T) \in Nat /\ Cardinality(S) \in Nat /\ Cardinality(T) <= Cardinality(S)
<1>1. IsFiniteSet(1..n)
  BY FS_Interval
<1>2. IsFiniteSet(S)
  BY <1>1, FS_Subset
<1>3. IsFiniteSet(T) /\ Cardinality(T) <= Cardinality(S)
  BY <1>2, FS_Subset
<1> QED BY <1>2, <1>3, FS_CardinalityType

\* Types, one client at a time.
LEMMA TypedAt ==
  ASSUME Typed, NEW c \in Client
  PROVE  /\ Len(log) \in Nat
         /\ chan[c] \in Seq(Nat) /\ batch[c] \in Seq(Nat)
         /\ dropped[c] \in Nat /\ told[c] \in Nat /\ hand[c] \in Nat /\ lastSent[c] \in Nat
         /\ lastId[c] \in Nat /\ from[c] \in Nat /\ got[c] \subseteq Nat
         /\ Missed(c) \in SUBSET (1..Len(log))
         /\ \A n : Below(Missed(c), n) \in SUBSET Missed(c)
<1>1. Len(log) \in Nat
  BY DEF Typed
<1>2. chan[c] \in Seq(Nat) /\ batch[c] \in Seq(Nat)
  BY DEF Typed
<1>3. /\ dropped[c] \in Nat /\ told[c] \in Nat /\ hand[c] \in Nat /\ lastSent[c] \in Nat
      /\ lastId[c] \in Nat /\ from[c] \in Nat /\ got[c] \subseteq Nat
  BY DEF Typed
<1>4. Missed(c) \in SUBSET (1..Len(log))
  BY DEF Missed, Holes
<1>5. \A n : Below(Missed(c), n) \in SUBSET Missed(c)
  BY DEF Below
<1> QED BY <1>1, <1>2, <1>3, <1>4, <1>5

\* The ring: only a stamp and a restart touch it.
LEMMA RingStep ==
  ASSUME Typed, RingInv, [Next]_vars
  PROVE  RingInv'
<1>1. CASE Stamp
  <2>1. PICK N \in Nat, R \in Nat : N = Len(log) /\ R = Len(ring)
    BY DEF Typed
  <2>2. /\ ring \in Seq(Nat) /\ DOMAIN ring = 1..R /\ log \in Seq(Kind)
        /\ R = (IF N < RingSize THEN N ELSE RingSize) /\ RingSize \in Nat /\ RingSize > 0
        /\ \A i \in 1..R : ring[i] = N - R + i
    <3>1. ring \in Seq(Nat) /\ log \in Seq(Kind) /\ DOMAIN ring = 1..R
      BY <2>1 DEF Typed
    <3>2. /\ R = (IF N < RingSize THEN N ELSE RingSize)
          /\ \A i \in DOMAIN ring : ring[i] = N - R + i
      BY <2>1 DEF RingInv
    <3> QED BY <3>1, <3>2, Bounds
  <2>3. Len(log') = N + 1 /\ ring' = Pushed(N + 1)
    BY <1>1, <2>1, <2>2 DEF Stamp
  <2>4. CASE R = RingSize
    <3>1. /\ Tail(ring) \in Seq(Nat) /\ Len(Tail(ring)) = R - 1
          /\ \A i \in 1..(R - 1) : Tail(ring)[i] = ring[i + 1]
      BY <2>1, <2>2, <2>4
    <3>2. ring' = Append(Tail(ring), N + 1)
      BY <2>1, <2>3, <2>4 DEF Pushed
    <3>3. /\ Len(ring') = R /\ DOMAIN ring' = 1..R /\ ring'[R] = N + 1
          /\ \A i \in 1..(R - 1) : ring'[i] = ring[i + 1]
      BY <2>2, <2>4, <3>1, <3>2
    <3>4. \A i \in 1..R : ring'[i] = (N + 1) - R + i
      <4> TAKE i \in 1..R
      <4>1. CASE i = R
        BY <3>3, <4>1
      <4>2. CASE i # R
        <5>1. i \in 1..(R - 1) /\ i + 1 \in 1..R
          BY <4>2
        <5>2. ring'[i] = ring[i + 1] /\ ring[i + 1] = N - R + (i + 1)
          BY <2>2, <3>3, <5>1
        <5> QED BY <5>1, <5>2
      <4> QED BY <4>1, <4>2
    <3>5. Len(log') = N + 1 /\ R = (IF N + 1 < RingSize THEN N + 1 ELSE RingSize)
      BY <2>2, <2>3, <2>4
    <3> QED BY <3>3, <3>4, <3>5 DEF RingInv
  <2>5. CASE R # RingSize
    <3>1. ring' = Append(ring, N + 1)
      BY <2>1, <2>3, <2>5 DEF Pushed
    <3>2. /\ Len(ring') = R + 1 /\ DOMAIN ring' = 1..(R + 1) /\ ring'[R + 1] = N + 1
          /\ \A i \in 1..R : ring'[i] = ring[i]
      BY <2>1, <2>2, <3>1
    <3>3. R = N /\ N + 1 <= RingSize
      BY <2>2, <2>5
    <3>4. \A i \in 1..(R + 1) : ring'[i] = i
      <4> TAKE i \in 1..(R + 1)
      <4>1. CASE i = R + 1
        BY <3>2, <3>3, <4>1
      <4>2. CASE i # R + 1
        <5>1. i \in 1..R
          BY <4>2
        <5>2. ring'[i] = ring[i] /\ ring[i] = N - R + i
          BY <2>2, <3>2, <5>1
        <5> QED BY <3>3, <5>1, <5>2
      <4> QED BY <4>1, <4>2
    <3> QED BY <2>2, <2>3, <3>2, <3>3, <3>4 DEF RingInv
  <2> QED BY <2>4, <2>5
<1>2. CASE Restart
  BY <1>2, Bounds DEF Restart, RingInv
<1>3. ASSUME UNCHANGED <<log, ring>> PROVE RingInv'
  BY <1>3 DEF RingInv
<1>4. CASE ~Stamp /\ ~Restart
  <2>1. UNCHANGED <<log, ring>>
    BY <1>4 DEF Next, Publish, Send, Take, DispatcherEnds, Offer, CountDrop, Connect, HandlerStep,
                TakeReplay, SendReplay, Receive, Report, SendEvent, Tick, Break, Stop, CloseRaw,
                CloseReturns, vars, busVars, dispVars
  <2> QED BY <1>3, <2>1
<1> QED BY <1>1, <1>2, <1>4

\* A step that touches nothing of a connection keeps what is known of it.
LEMMA Frame ==
  ASSUME NEW d \in Client, ConnInv(d), log' = log,
         UNCHANGED <<chan[d], hand[d], batch[d], lastSent[d], lastId[d], got[d], from[d],
                     told[d], dropped[d], cpc[d]>>,
         d \in subs' <=> d \in subs,
         Offered(d)' <=> Offered(d)
  PROVE  ConnInv(d)'
<1>1. \A n : Holes(d, n)' = Holes(d, n)
  BY DEF Holes
<1>2. InFlight(d)' = InFlight(d)
  BY DEF InFlight
<1>3. Missed(d)' = Missed(d)
  BY <1>1, <1>2 DEF Missed
<1>4. \A n : Wanted(d, n)' <=> Wanted(d, n)
  BY DEF Wanted
<1>5. Below(Missed(d), hand[d])' = Below(Missed(d), hand[d])
  BY <1>3 DEF Below
<1>6. IdleInv(d)'
  BY DEF ConnInv, IdleInv
<1>7. OrderInv(d)'
  BY DEF ConnInv, OrderInv
<1>8. GotInv(d)'
  BY <1>2, <1>4 DEF ConnInv, GotInv
<1>9. ReplayInv(d)'
  BY <1>1 DEF ConnInv, ReplayInv
<1>10. MissedInv(d)'
  BY <1>3, <1>5 DEF ConnInv, MissedInv
<1> QED BY <1>6, <1>7, <1>8, <1>9, <1>10 DEF ConnInv

\* A stamp adds an event that is being offered to every connection.
LEMMA StampKeeps ==
  ASSUME Typed, NEW d \in Client, ConnInv(d), Stamp
  PROVE  ConnInv(d)'
<1> DEFINE L == Len(log)
<1>1. /\ UNCHANGED <<chan, hand, batch, lastSent, lastId, got, from, told, dropped, cpc, subs>>
      /\ fan = {} /\ full = Nobody /\ fan' = subs /\ full' = Nobody
      /\ log' = Append(log, Head(todo)) /\ log \in Seq(Kind)
  BY DEF Stamp, Typed, streamVars, subVars, connVars, viewVars
<1>2. /\ L \in Nat /\ Len(log') = L + 1
      /\ \A m \in 1..L : m \in 1..(L + 1) /\ log'[m] = log[m]
  BY <1>1
<1>3. ~Offered(d) /\ (Offered(d)' <=> d \in subs)
  BY <1>1, Bounds DEF Offered
<1>4. \A n \in Nat : n <= L + 1 => Holes(d, n)' = Holes(d, n)
  <2> SUFFICES ASSUME NEW n \in Nat, n <= L + 1 PROVE Holes(d, n)' = Holes(d, n)
    OBVIOUS
  <2>1. \A m \in 1..(L + 1) : m < n => m \in 1..L
    BY <1>2
  <2>2. Holes(d, n)' = {m \in 1..(L + 1) : /\ from[d] < m /\ m < n /\ m \notin got[d]
                                           /\ log'[m] \in Filter[d]}
    BY <1>1, <1>2 DEF Holes
  <2> QED BY <1>2, <2>1, <2>2 DEF Holes
<1>5. \A m \in Holes(d, Len(log) + 1)' : m \in Holes(d, L + 1) \cup {L + 1}
  <2> TAKE m \in Holes(d, Len(log) + 1)'
  <2>1. /\ m \in 1..(L + 1) /\ from[d] < m /\ m \notin got[d]
        /\ log'[m] \in Filter[d]
    BY <1>1, <1>2 DEF Holes
  <2>2. CASE m = L + 1
    BY <2>2
  <2>3. CASE m \in 1..L
    <3>1. m < L + 1 /\ log'[m] = log[m]
      BY <1>2, <2>3
    <3> QED BY <2>1, <2>3, <3>1 DEF Holes
  <2> QED BY <1>2, <2>1, <2>2, <2>3
<1>6. InFlight(d)' = InFlight(d) \cup (IF d \in subs THEN {L + 1} ELSE {})
  BY <1>1, <1>2, <1>3 DEF InFlight
<1>t. /\ chan[d] \in Seq(Nat) /\ batch[d] \in Seq(Nat) /\ hand[d] \in Nat /\ lastSent[d] \in Nat
      /\ got[d] \subseteq Nat
  BY TypedAt
<1> HIDE DEF L
<1>7. IdleInv(d)'
  BY <1>1, <1>3 DEF ConnInv, IdleInv
<1>8. OrderInv(d)'
  <2>1. \A i \in DOMAIN chan[d] : chan[d][i] \in Nat
    BY <1>t
  <2> QED BY <1>1, <1>2, <1>t, <2>1 DEF ConnInv, OrderInv, L
<1>9. GotInv(d)'
  <2>1. \A m \in got[d] : 0 < m /\ m <= L /\ m <= lastId[d] /\ m \in Nat
    BY <1>t DEF ConnInv, GotInv, L
  <2>2. \A q \in InFlight(d) : q <= L /\ q \in Nat /\ q > 0
    BY <1>3, <1>t DEF ConnInv, OrderInv, InFlight, Range, L
  <2>3. lastSent[d] <= L
    BY DEF ConnInv, OrderInv, L
  <2>4. \A q \in InFlight(d) : Wanted(d, q)' <=> Wanted(d, q)
    BY <1>2, <2>2 DEF Wanted
  <2>5. \A q \in InFlight(d)' : q = L + 1 \/ q \in InFlight(d)
    BY <1>6
  <2>6. \A q \in InFlight(d)', m \in got[d] : m <= lastSent[d] \/ m < q
    BY <1>2, <2>1, <2>5 DEF ConnInv, GotInv
  <2>7. \A q \in InFlight(d)' :
          from[d] < q /\ q <= lastSent[d] /\ Wanted(d, q)' => q \in got[d]
    BY <1>2, <1>t, <2>3, <2>4, <2>5 DEF ConnInv, GotInv
  <2> QED BY <1>1, <1>2, <2>1, <2>6, <2>7 DEF GotInv
<1>10. ReplayInv(d)'
  <2>1. CASE batch[d] = <<>>
    BY <1>1, <2>1 DEF ReplayInv
  <2>2. CASE batch[d] # <<>>
    <3>1. 1 \in DOMAIN batch[d] /\ \A i \in DOMAIN batch[d] : batch[d][i] \in Nat
      BY <1>t, <2>2
    <3>2. /\ \A i \in DOMAIN batch[d] : batch[d][i] = batch[d][1] + i - 1 /\ batch[d][i] <= L
          /\ lastSent[d] < batch[d][1]
          /\ \A m \in got[d] : m < batch[d][1]
          /\ Holes(d, batch[d][1]) = {}
      BY <2>2 DEF ConnInv, ReplayInv, L
    <3>3. Holes(d, batch[d][1])' = {}
      BY <1>1, <1>2, <1>4, <3>1, <3>2
    <3>4. \A i \in DOMAIN batch[d] : batch[d][i] <= Len(log')
      BY <1>2, <3>1, <3>2
    <3> QED BY <1>1, <3>2, <3>3, <3>4 DEF ReplayInv
  <2> QED BY <2>1, <2>2
<1>11. MissedInv(d)'
  <2>1. CASE d \in subs
    <3>1. Missed(d)' \subseteq Missed(d)
      <4> SUFFICES ASSUME NEW m \in Missed(d)' PROVE m \in Missed(d)
        OBVIOUS
      <4>1. m \in Holes(d, Len(log) + 1)' /\ m \notin InFlight(d)' /\ m \notin Range(batch[d])
        BY <1>1 DEF Missed
      <4>2. m \in Holes(d, L + 1) \cup {L + 1} /\ m # L + 1 /\ m \notin InFlight(d)
        BY <1>5, <1>6, <2>1, <4>1
      <4> QED BY <4>1, <4>2 DEF Missed, L
    <3>2. Below(Missed(d), hand[d])' \subseteq Below(Missed(d), hand[d])
      BY <1>1, <3>1 DEF Below
    <3>3. /\ Missed(d)' \in SUBSET Missed(d) /\ Missed(d) \in SUBSET (1..L)
          /\ Below(Missed(d), hand[d])' \in SUBSET Below(Missed(d), hand[d])
          /\ Below(Missed(d), hand[d]) \in SUBSET (1..L)
      BY <3>1, <3>2, TypedAt DEF L
    <3>4. /\ Cardinality(Missed(d)') <= Cardinality(Missed(d))
          /\ Cardinality(Missed(d)') \in Nat /\ Cardinality(Missed(d)) \in Nat
      BY <1>2, <3>3, FewerMissed
    <3>5. /\ Cardinality(Below(Missed(d), hand[d])') <= Cardinality(Below(Missed(d), hand[d]))
          /\ Cardinality(Below(Missed(d), hand[d])') \in Nat
          /\ Cardinality(Below(Missed(d), hand[d])) \in Nat
      BY <1>2, <3>3, FewerMissed
    <3>6. dropped[d] \in Nat /\ told[d] \in Nat
      BY TypedAt
    <3> QED BY <1>1, <3>4, <3>5, <3>6 DEF ConnInv, MissedInv
  <2>2. CASE d \notin subs
    BY <1>1, <2>2 DEF ConnInv, IdleInv, MissedInv
  <2> QED BY <2>1, <2>2
<1> QED BY <1>7, <1>8, <1>9, <1>10, <1>11 DEF ConnInv

-----------------------------------------------------------------------------
\* One lemma per step of a connection or of the dispatcher for it.

\* What is missed when nothing more is: no more than was.
LEMMA MissedShrinks ==
  ASSUME Typed, NEW c \in Client, Missed(c)' \subseteq Missed(c)
  PROVE  /\ Cardinality(Missed(c)') \in Nat /\ Cardinality(Missed(c)) \in Nat
         /\ Cardinality(Missed(c)') <= Cardinality(Missed(c))
BY TypedAt, FewerMissed

\* The dispatcher offers the event stamped last: it is queued, or not yet counted.
LEMMA OfferKeeps ==
  ASSUME Typed, NEW c \in Client, ConnInv(c), Offer(c)
  PROVE  ConnInv(c)'
<1>1. /\ UNCHANGED <<log, subs, hand, batch, lastSent, lastId, got, from, told, dropped, cpc>>
      /\ c \in fan /\ full = Nobody /\ fan' = fan \ {c} /\ Offered(c)
  BY DEF Offer, connVars, viewVars, Offered
<1>2. CASE full' = c /\ chan' = chan
  <2>1. Offered(c)'
    BY <1>2 DEF Offered
  <2> QED BY <1>1, <1>2, <2>1, Frame
<1>3. CASE chan' = [chan EXCEPT ![c] = Append(@, Len(log))] /\ full' = full
  <2>1. PICK N \in Nat : N = Len(log)
    BY TypedAt
  <2>2. PICK K \in Nat : K = Len(chan[c])
    BY TypedAt
  <2>3. /\ chan[c] \in Seq(Nat) /\ hand[c] \in Nat /\ lastSent[c] \in Nat
        /\ chan'[c] = Append(chan[c], N)
    BY <1>3, <2>1, TypedAt DEF Typed
  <2>4. /\ DOMAIN chan'[c] = 1..(K + 1) /\ DOMAIN chan[c] = 1..K
        /\ \A i \in 1..K : chan'[c][i] = chan[c][i] /\ chan[c][i] \in Nat
        /\ chan'[c][K + 1] = N /\ Range(chan'[c]) = Range(chan[c]) \cup {N}
    <3>1. \A i \in DOMAIN chan[c] : chan[c][i] \in Nat
      BY <2>3
    <3> QED BY <2>1, <2>2, <2>3, <3>1, QueueMembers
  <2>5. ~Offered(c)'
    BY <1>1, <1>3, Bounds DEF Offered
  <2>6. InFlight(c)' = InFlight(c)
    BY <1>1, <2>1, <2>4, <2>5 DEF InFlight
  <2>7. \A n : Holes(c, n)' = Holes(c, n)
    BY <1>1 DEF Holes
  <2>8. Missed(c)' = Missed(c)
    BY <1>1, <2>6, <2>7 DEF Missed
  <2>9. Below(Missed(c), hand[c])' = Below(Missed(c), hand[c])
    BY <1>1, <2>8 DEF Below
  <2>10. IdleInv(c)'
    BY <1>1, <2>5 DEF ConnInv, IdleInv
  <2>11. OrderInv(c)'
    <3>1. /\ \A i \in 1..K : /\ hand[c] < chan[c][i] /\ chan[c][i] < N
                             /\ \A j \in 1..K : i < j => chan[c][i] < chan[c][j]
          /\ hand[c] < N /\ lastSent[c] <= N
      BY <1>1, <2>1, <2>4 DEF ConnInv, OrderInv
    <3>2. ASSUME NEW i \in 1..(K + 1)
          PROVE  /\ hand[c] < chan'[c][i] /\ chan'[c][i] <= N
                 /\ \A j \in 1..(K + 1) : i < j => chan'[c][i] < chan'[c][j]
      <4>1. CASE i = K + 1
        BY <2>1, <2>2, <2>4, <3>1, <4>1
      <4>2. CASE i # K + 1
        <5>1. i \in 1..K
          BY <2>2, <4>2
        <5>2. chan'[c][i] = chan[c][i] /\ chan[c][i] \in Nat
          BY <2>4, <5>1
        <5>3. hand[c] < chan'[c][i] /\ chan'[c][i] <= N
          BY <2>1, <3>1, <5>1, <5>2
        <5>4. ASSUME NEW j \in 1..(K + 1), i < j PROVE chan'[c][i] < chan'[c][j]
          <6>1. CASE j = K + 1
            BY <2>4, <3>1, <5>1, <5>2, <6>1
          <6>2. CASE j \in 1..K
            BY <2>4, <3>1, <5>1, <5>2, <5>4, <6>2
          <6> QED BY <2>2, <6>1, <6>2
        <5> QED BY <5>3, <5>4
      <4> QED BY <4>1, <4>2
    <3>3. hand[c] <= N
      BY <2>1, <2>3, <3>1
    <3> QED BY <1>1, <2>1, <2>4, <2>5, <3>1, <3>2, <3>3 DEF OrderInv
  <2>12. GotInv(c)'
    BY <1>1, <2>6 DEF ConnInv, GotInv, Wanted
  <2>13. ReplayInv(c)'
    BY <1>1, <2>7 DEF ConnInv, ReplayInv
  <2>14. MissedInv(c)'
    BY <1>1, <2>8, <2>9 DEF ConnInv, MissedInv
  <2> QED BY <2>10, <2>11, <2>12, <2>13, <2>14 DEF ConnInv
<1> QED BY <1>2, <1>3 DEF Offer

\* The event its queue had no room for is missed from now on, and counted.
LEMMA CountDropKeeps ==
  ASSUME Typed, NEW c \in Client, ConnInv(c), CountDrop(c)
  PROVE  ConnInv(c)'
<1>1. /\ UNCHANGED <<log, subs, fan, chan, hand, batch, lastSent, lastId, got, from, told, cpc>>
      /\ full = c /\ full' = Nobody /\ Offered(c)
      /\ dropped'[c] = dropped[c] + 1
  BY DEF CountDrop, connVars, viewVars, Offered, Typed
<1>2. PICK N \in Nat : N = Len(log)
  BY TypedAt
<1>3. /\ InFlight(c)' \subseteq InFlight(c) /\ InFlight(c) \subseteq InFlight(c)' \cup {N}
  BY <1>1, <1>2 DEF InFlight
<1>4. \A n : Holes(c, n)' = Holes(c, n)
  BY <1>1 DEF Holes
<1>5. Missed(c)' \subseteq Missed(c) \cup {N}
  BY <1>1, <1>3, <1>4 DEF Missed
<1>6. /\ hand[c] < N /\ hand[c] \in Nat /\ dropped[c] \in Nat /\ told[c] \in Nat
  BY <1>1, <1>2, TypedAt DEF ConnInv, OrderInv
<1>7. Below(Missed(c), hand[c])' \subseteq Below(Missed(c), hand[c])
  BY <1>1, <1>5, <1>6 DEF Below
<1>8. IdleInv(c)'
  BY <1>1 DEF ConnInv, IdleInv
<1>9. OrderInv(c)'
  BY <1>1 DEF ConnInv, OrderInv
<1>10. GotInv(c)'
  BY <1>1, <1>3 DEF ConnInv, GotInv, Wanted
<1>11. ReplayInv(c)'
  BY <1>1, <1>4 DEF ConnInv, ReplayInv
<1>12. MissedInv(c)'
  <2>1. Missed(c) \in SUBSET (1..N) /\ IsFiniteSet(Missed(c))
    <3>1. Missed(c) \in SUBSET (1..N)
      BY <1>2, TypedAt
    <3>2. IsFiniteSet(1..N)
      BY FS_Interval
    <3> QED BY <3>1, <3>2, FS_Subset
  <2>2. /\ IsFiniteSet(Missed(c) \cup {N})
        /\ Cardinality(Missed(c) \cup {N}) <= Cardinality(Missed(c)) + 1
        /\ Cardinality(Missed(c)) \in Nat /\ Cardinality(Missed(c) \cup {N}) \in Nat
    <3>1. /\ IsFiniteSet(Missed(c) \cup {N}) /\ Cardinality(Missed(c)) \in Nat
          /\ \/ Cardinality(Missed(c) \cup {N}) = Cardinality(Missed(c))
             \/ Cardinality(Missed(c) \cup {N}) = Cardinality(Missed(c)) + 1
      BY <2>1, FS_AddElement, FS_CardinalityType
    <3> QED BY <3>1
  <2>3. Cardinality(Missed(c)') \in Nat
        /\ Cardinality(Missed(c)') <= Cardinality(Missed(c) \cup {N})
    BY <1>5, <2>2, FS_Subset, FS_CardinalityType
  <2>4. /\ Cardinality(Below(Missed(c), hand[c])') \in Nat
        /\ Cardinality(Below(Missed(c), hand[c])) \in Nat
        /\ Cardinality(Below(Missed(c), hand[c])') <= Cardinality(Below(Missed(c), hand[c]))
    <3>1. Below(Missed(c), hand[c]) \in SUBSET (1..N)
      BY <2>1 DEF Below
    <3> QED BY <1>7, <3>1, FewerMissed
  <2> QED BY <1>1, <1>6, <2>2, <2>3, <2>4 DEF ConnInv, MissedInv
<1> QED BY <1>8, <1>9, <1>10, <1>11, <1>12 DEF ConnInv

\* Subscribing brings nothing yet.
LEMMA ConnectKeeps ==
  ASSUME Typed, NEW c \in Client, ConnInv(c), Connect(c)
  PROVE  ConnInv(c)'
<1>1. /\ UNCHANGED <<log, fan, full, chan, hand, batch, lastSent, lastId, got, from, told, dropped>>
      /\ cpc[c] = "off" /\ cpc'[c] = "subscribed" /\ c \in subs'
  BY DEF Connect, Typed, busVars, dispVars, viewVars
<1>2. (Offered(c)' <=> Offered(c)) /\ InFlight(c)' = InFlight(c)
  BY <1>1 DEF Offered, InFlight
<1>3. \A n : Holes(c, n)' = Holes(c, n)
  BY <1>1 DEF Holes
<1>4. IdleInv(c)'
  BY <1>1 DEF ConnInv, IdleInv
<1>5. OrderInv(c)'
  BY <1>1, <1>2 DEF ConnInv, OrderInv
<1>6. GotInv(c)'
  BY <1>1, <1>2 DEF ConnInv, GotInv, Wanted
<1>7. ReplayInv(c)'
  BY <1>1, <1>3 DEF ConnInv, ReplayInv
<1>8. MissedInv(c)'
  BY <1>1 DEF MissedInv
<1> QED BY <1>4, <1>5, <1>6, <1>7, <1>8 DEF ConnInv

\* The replay begins where the connection does and reaches the end of the log:
\* whatever the connection promises is in it.
LEMMA TakeReplayKeeps ==
  ASSUME Typed, RingInv, NEW c \in Client, ConnInv(c), TakeReplay(c)
  PROVE  ConnInv(c)'
<1>1. /\ UNCHANGED <<log, subs, fan, full, chan, hand, lastSent, lastId, got, dropped>>
      /\ cpc[c] = "subscribed" /\ cpc'[c] = "stream" /\ told'[c] = 0
      /\ batch'[c] = Replay(lastId[c])
      /\ from'[c] = Abs!Larger(lastId[c], Len(log) - RingSize)
  BY DEF TakeReplay, Typed, busVars, dispVars, subVars
<1>2. PICK N \in Nat : N = Len(log)
  BY TypedAt
<1>3. /\ lastId[c] \in Nat /\ dropped[c] \in Nat /\ got[c] \subseteq Nat
      /\ hand[c] = 0 /\ lastSent[c] = 0
  BY <1>1, TypedAt DEF ConnInv, IdleInv
<1>4. PICK F \in Nat : F = Abs!Larger(lastId[c], Len(log) - RingSize)
  BY <1>3, ReplayIsTail
<1>5. /\ batch'[c] \in Seq(Nat) /\ Len(batch'[c]) = IF F < N THEN N - F ELSE 0
      /\ \A i \in DOMAIN batch'[c] : batch'[c][i] = F + i
  BY <1>1, <1>2, <1>3, <1>4, ReplayIsTail
<1>6. lastId[c] <= F
  BY <1>2, <1>3, <1>4, Bounds DEF Abs!Larger
<1>7. (Offered(c)' <=> Offered(c)) /\ InFlight(c)' = InFlight(c)
  BY <1>1 DEF Offered, InFlight
<1>8. IdleInv(c)'
  BY <1>1, <1>3, <1>7 DEF ConnInv, IdleInv
<1>9. OrderInv(c)'
  BY <1>1, <1>7 DEF ConnInv, OrderInv
<1>10. GotInv(c)'
  <2>1. \A q \in InFlight(c) : ~(F < q /\ q <= 0)
    <3>1. \A q \in InFlight(c) : q \in Nat
      BY <1>2, <1>3, TypedAt DEF InFlight, Range
    <3> QED BY <3>1
  <2>2. from'[c] = F /\ lastSent'[c] = 0
    BY <1>1, <1>3, <1>4
  <2> QED BY <1>1, <1>7, <2>1, <2>2 DEF ConnInv, GotInv
<1>11. ReplayInv(c)'
  <2>1. CASE batch'[c] = <<>>
    BY <2>1 DEF ReplayInv
  <2>2. CASE batch'[c] # <<>>
    <3>1. F < N /\ DOMAIN batch'[c] = 1..(N - F) /\ batch'[c][1] = F + 1
      BY <1>5, <2>2
    <3>2. \A i \in DOMAIN batch'[c] : /\ batch'[c][i] = batch'[c][1] + i - 1
                                      /\ batch'[c][i] <= Len(log')
      <4> TAKE i \in DOMAIN batch'[c]
      <4>1. i \in 1..(N - F) /\ batch'[c][i] = F + i
        BY <1>5, <3>1
      <4>2. F + i = (F + 1) + i - 1 /\ F + i <= N
        BY <4>1
      <4> QED BY <1>1, <1>2, <3>1, <4>1, <4>2
    <3>3. \A m \in got[c] : m < F + 1
      BY <1>3, <1>6 DEF ConnInv, GotInv
    <3>4. Holes(c, batch[c][1])' = {}
      BY <1>1, <1>2, <1>4, <3>1 DEF Holes
    <3> QED BY <1>1, <1>3, <3>1, <3>2, <3>3, <3>4 DEF ReplayInv
  <2> QED BY <2>1, <2>2
<1>12. Missed(c)' = {}
  <2> SUFFICES ASSUME NEW m \in Missed(c)' PROVE FALSE
    OBVIOUS
  <2>1. m \in 1..N /\ F < m /\ m \notin Range(batch'[c])
    BY <1>1, <1>2, <1>4 DEF Missed, Holes
  <2>2. m - F \in 1..(N - F) /\ DOMAIN batch'[c] = 1..(N - F)
    BY <1>5, <2>1
  <2>3. batch'[c][m - F] = m
    BY <1>5, <2>1, <2>2
  <2> QED BY <2>1, <2>2, <2>3 DEF Range
<1>13. MissedInv(c)'
  <2>1. Cardinality(Missed(c)') = 0
    BY <1>12, FS_EmptySet
  <2> QED BY <1>1, <1>3, <2>1 DEF MissedInv
<1> QED BY <1>8, <1>9, <1>10, <1>11, <1>13 DEF ConnInv

\* Replayed event n is received, or was not asked for: nothing is left out up to it.
LEMMA SendReplayKeeps ==
  ASSUME Typed, NEW c \in Client, ConnInv(c), SendReplay(c)
  PROVE  ConnInv(c)'
<1>1. /\ UNCHANGED <<log, subs, fan, full, chan, dropped, hand, from, told, cpc>>
      /\ cpc[c] = "stream" /\ batch[c] # <<>> /\ Receives(c, Head(batch[c]))
      /\ lastSent'[c] = Head(batch[c]) /\ batch'[c] = Tail(batch[c])
  BY DEF SendReplay, Typed, busVars, dispVars, subVars
<1>2. PICK N \in Nat : N = Len(log)
  BY TypedAt
<1>3. /\ batch[c] \in Seq(Nat) /\ hand[c] = 0 /\ got[c] \subseteq Nat /\ lastSent[c] \in Nat
      /\ from[c] \in Nat /\ dropped[c] \in Nat /\ told[c] \in Nat
  BY <1>1, TypedAt DEF ConnInv, IdleInv
<1>4. PICK n \in Nat : n = Head(batch[c])
  <2>1. Head(batch[c]) \in Nat
    BY <1>1, <1>3
  <2> QED BY <2>1
<1>5. PICK K \in Nat \ {0} : K = Len(batch[c])
  BY <1>1, <1>3, QueueMembers
<1>6. /\ batch[c][1] = n /\ DOMAIN batch[c] = 1..K /\ DOMAIN batch'[c] = 1..(K - 1)
      /\ \A i \in 1..(K - 1) : batch'[c][i] = batch[c][i + 1]
      /\ Range(batch[c]) = {n} \cup Range(batch'[c])
  BY <1>1, <1>3, <1>4, <1>5, QueueMembers
<1>7. /\ \A i \in 1..K : batch[c][i] = n + i - 1 /\ batch[c][i] <= N
      /\ lastSent[c] < n /\ (\A m \in got[c] : m < n) /\ Holes(c, n) = {}
  BY <1>1, <1>2, <1>6 DEF ConnInv, ReplayInv
<1>8. 0 < n /\ n <= N
  <2>1. 1 \in 1..K
    BY <1>5
  <2>2. batch[c][1] <= N
    BY <1>7, <2>1
  <2> QED BY <1>3, <1>6, <1>7, <2>2
<1>9. /\ Wanted(c, n) => got'[c] = got[c] \cup {n} /\ lastId'[c] = n
      /\ ~Wanted(c, n) => got'[c] = got[c] /\ lastId'[c] = lastId[c]
  BY <1>1, <1>4 DEF Receives, Typed
<1>10. (Offered(c)' <=> Offered(c)) /\ InFlight(c)' = InFlight(c)
  BY <1>1 DEF Offered, InFlight
<1>11. \A m \in 1..N : from[c] < m /\ m <= n /\ Wanted(c, m) => m \in got'[c]
  <2> SUFFICES ASSUME NEW m \in 1..N, from[c] < m, m <= n, Wanted(c, m) PROVE m \in got'[c]
    OBVIOUS
  <2>1. CASE m = n
    BY <1>9, <2>1
  <2>2. CASE m < n
    <3>1. m \in got[c]
      BY <1>2, <1>7, <2>2 DEF Holes, Wanted
    <3> QED BY <1>9, <3>1
  <2> QED BY <2>1, <2>2
<1>12. IdleInv(c)'
  BY <1>1, <1>10 DEF ConnInv, IdleInv
<1>13. OrderInv(c)'
  BY <1>1, <1>2, <1>4, <1>8, <1>10 DEF ConnInv, OrderInv
<1>14. GotInv(c)'
  <2>1. \A m \in got'[c] : 0 < m /\ m <= N /\ m <= lastId'[c] /\ m <= n
    <3> TAKE m \in got'[c]
    <3>1. CASE m \in got[c]
      <4>1. 0 < m /\ m <= N /\ m <= lastId[c] /\ m < n /\ m \in Nat
        BY <1>2, <1>3, <1>7, <3>1 DEF ConnInv, GotInv
      <4> QED BY <1>9, <4>1
    <3>2. CASE m \notin got[c]
      BY <1>8, <1>9, <3>2
    <3> QED BY <3>1, <3>2
  <2>2. \A q \in InFlight(c) : q \in Nat
    BY <1>2, <1>3, TypedAt DEF InFlight, Range
  <2>3. ASSUME NEW q \in InFlight(c), from[c] < q, q <= n, Wanted(c, q) PROVE q \in got'[c]
    <3>1. q \in 1..N
      BY <1>3, <1>8, <2>2, <2>3
    <3> QED BY <1>11, <2>3, <3>1
  <2>4. lastSent'[c] = n
    BY <1>1, <1>4
  <2>5. \A q \in InFlight(c) : Wanted(c, q)' <=> Wanted(c, q)
    BY <1>1 DEF Wanted
  <2> QED BY <1>1, <1>2, <1>10, <2>1, <2>3, <2>4, <2>5 DEF GotInv
<1>15. ReplayInv(c)'
  <2>1. CASE batch'[c] = <<>>
    BY <2>1 DEF ReplayInv
  <2>2. CASE batch'[c] # <<>>
    <3>1. 1 \in 1..(K - 1)
      <4>1. batch'[c] \in Seq(Nat)
        BY <1>1, <1>3
      <4>2. 1 \in DOMAIN batch'[c]
        BY <2>2, <4>1, QueueMembers
      <4> QED BY <1>6, <4>2
    <3>2. \A i \in 1..(K - 1) : batch'[c][i] = n + i /\ batch'[c][i] <= N
      <4> TAKE i \in 1..(K - 1)
      <4>1. i + 1 \in 1..K
        OBVIOUS
      <4>2. batch[c][i + 1] = n + (i + 1) - 1 /\ batch[c][i + 1] <= N
        BY <1>7, <4>1
      <4>3. n + (i + 1) - 1 = n + i
        OBVIOUS
      <4> QED BY <1>6, <4>2, <4>3
    <3>3. batch'[c][1] = n + 1
      BY <3>1, <3>2
    <3>4. \A i \in 1..(K - 1) : batch'[c][i] = (n + 1) + i - 1
      BY <3>2
    <3>5. \A m \in got'[c] : m < n + 1
      <4> TAKE m \in got'[c]
      <4>1. CASE m \in got[c]
        BY <1>3, <1>7, <4>1
      <4>2. CASE m \notin got[c]
        BY <1>9, <4>2
      <4> QED BY <4>1, <4>2
    <3>6. Holes(c, batch[c][1])' = {}
      <4> SUFFICES ASSUME NEW m \in Holes(c, batch[c][1])' PROVE FALSE
        OBVIOUS
      <4>1. m \in 1..N /\ from[c] < m /\ m < n + 1 /\ m \notin got'[c] /\ Wanted(c, m)
        BY <1>1, <1>2, <3>3 DEF Holes, Wanted
      <4>2. m <= n
        BY <4>1
      <4> QED BY <1>11, <4>1, <4>2
    <3>7. lastSent'[c] < n + 1
      BY <1>1, <1>4
    <3> QED BY <1>1, <1>2, <1>6, <3>2, <3>3, <3>4, <3>5, <3>6, <3>7 DEF ReplayInv
  <2> QED BY <2>1, <2>2
<1>16. MissedInv(c)'
  <2>1. Missed(c)' \subseteq Missed(c)
    <3> SUFFICES ASSUME NEW m \in Missed(c)' PROVE m \in Missed(c)
      OBVIOUS
    <3>1. /\ m \in 1..N /\ from[c] < m /\ m < N + 1 /\ m \notin got'[c] /\ Wanted(c, m)
          /\ m \notin InFlight(c) /\ m \notin Range(batch'[c])
      BY <1>1, <1>2, <1>10 DEF Missed, Holes, Wanted
    <3>2. m # n /\ m \notin got[c]
      BY <1>9, <3>1
    <3> QED BY <1>2, <1>6, <3>1, <3>2 DEF Missed, Holes, Wanted
  <2>2. /\ Cardinality(Missed(c)') \in Nat /\ Cardinality(Missed(c)) \in Nat
        /\ Cardinality(Missed(c)') <= Cardinality(Missed(c))
    BY <2>1, MissedShrinks
  <2> QED BY <1>1, <1>3, <2>2 DEF ConnInv, MissedInv
<1> QED BY <1>12, <1>13, <1>14, <1>15, <1>16 DEF ConnInv

\* The first event queued is in the handler's hand.
LEMMA ReceiveKeeps ==
  ASSUME Typed, NEW c \in Client, ConnInv(c), Receive(c)
  PROVE  ConnInv(c)'
<1>1. /\ UNCHANGED <<log, subs, fan, full, dropped, batch, lastSent, lastId, got, from, told>>
      /\ cpc[c] = "stream" /\ cpc'[c] = "report" /\ batch[c] = <<>> /\ chan[c] # <<>>
      /\ hand'[c] = Head(chan[c]) /\ chan'[c] = Tail(chan[c])
  BY DEF Receive, Typed, busVars, dispVars, viewVars
<1>2. PICK N \in Nat : N = Len(log)
  BY TypedAt
<1>3. chan[c] \in Seq(Nat) /\ hand[c] = 0
  BY <1>1, TypedAt DEF ConnInv, IdleInv
<1>4. PICK K \in Nat \ {0} : K = Len(chan[c])
  BY <1>1, <1>3, QueueMembers
<1>5. /\ hand'[c] = chan[c][1] /\ DOMAIN chan[c] = 1..K /\ DOMAIN chan'[c] = 1..(K - 1)
      /\ \A i \in 1..(K - 1) : chan'[c][i] = chan[c][i + 1]
      /\ Range(chan[c]) = {hand'[c]} \cup Range(chan'[c])
  BY <1>1, <1>3, <1>4, QueueMembers
<1>6. 1 \in 1..K /\ \A i \in 1..(K - 1) : i + 1 \in 1..K /\ 1 < i + 1
  BY <1>4
<1>7. \A i \in 1..K : /\ 0 < chan[c][i] /\ chan[c][i] <= N
                      /\ Offered(c) => chan[c][i] < N
                      /\ \A j \in 1..K : i < j => chan[c][i] < chan[c][j]
  BY <1>2, <1>3, <1>5 DEF ConnInv, OrderInv
<1>8. hand'[c] # 0 /\ 0 \notin Range(chan'[c])
  <2>1. \A i \in 1..K : chan[c][i] # 0
    BY <1>7
  <2>2. \A i \in 1..(K - 1) : chan'[c][i] # 0
    BY <1>5, <1>6, <2>1
  <2> QED BY <1>5, <1>6, <2>1, <2>2 DEF Range
<1>9. (Offered(c)' <=> Offered(c)) /\ InFlight(c)' = InFlight(c)
  <2>1. Offered(c)' <=> Offered(c)
    BY <1>1 DEF Offered
  <2> QED BY <1>1, <1>3, <1>5, <1>8, <2>1 DEF InFlight
<1>10. \A n : Holes(c, n)' = Holes(c, n)
  BY <1>1 DEF Holes
<1>11. IdleInv(c)'
  BY <1>1, <1>8, <1>9 DEF ConnInv, IdleInv
<1>12. OrderInv(c)'
  <2>1. ASSUME NEW i \in 1..(K - 1)
        PROVE  /\ hand'[c] < chan'[c][i] /\ chan'[c][i] <= N /\ (Offered(c) => chan'[c][i] < N)
               /\ \A j \in 1..(K - 1) : i < j => chan'[c][i] < chan'[c][j]
    <3>1. i + 1 \in 1..K /\ 1 \in 1..K /\ 1 < i + 1 /\ chan'[c][i] = chan[c][i + 1]
      BY <1>5, <1>6
    <3>2. hand'[c] < chan'[c][i] /\ chan'[c][i] <= N /\ (Offered(c) => chan'[c][i] < N)
      BY <1>5, <1>7, <3>1
    <3>3. ASSUME NEW j \in 1..(K - 1), i < j PROVE chan'[c][i] < chan'[c][j]
      <4>1. j + 1 \in 1..K /\ i + 1 < j + 1 /\ chan'[c][j] = chan[c][j + 1]
        BY <1>5, <1>6, <3>3
      <4> QED BY <1>7, <3>1, <4>1
    <3> QED BY <3>2, <3>3
  <2>2. hand'[c] <= N /\ (Offered(c) => hand'[c] < N) /\ lastSent[c] <= N
    BY <1>2, <1>5, <1>6, <1>7 DEF ConnInv, OrderInv
  <2> QED BY <1>1, <1>2, <1>5, <1>9, <2>1, <2>2 DEF OrderInv
<1>13. GotInv(c)'
  BY <1>1, <1>9 DEF ConnInv, GotInv, Wanted
<1>14. ReplayInv(c)'
  BY <1>1 DEF ReplayInv
<1>15. MissedInv(c)'
  <2>1. Missed(c)' = Missed(c)
    BY <1>1, <1>9, <1>10 DEF Missed
  <2> QED BY <1>1, <2>1 DEF ConnInv, MissedInv
<1> QED BY <1>11, <1>12, <1>13, <1>14, <1>15 DEF ConnInv

\* The client is told of what was counted; nothing else moves.
LEMMA ReportKeeps ==
  ASSUME Typed, NEW c \in Client, ConnInv(c), Report(c) \/ Tick(c)
  PROVE  ConnInv(c)'
<1>1. /\ UNCHANGED <<log, subs, fan, full, chan, batch, hand, lastSent, lastId, got, from>>
      /\ ReportDrops(c)
      /\ \/ cpc[c] = "report" /\ cpc'[c] = "send"
         \/ cpc[c] = "stream" /\ cpc'[c] = "stream"
  BY DEF Report, Tick, Typed, busVars, dispVars, connVars
<1>2. told'[c] = told[c] + dropped[c] /\ dropped'[c] = 0
  BY <1>1 DEF ReportDrops, Typed
<1>3. told[c] \in Nat /\ dropped[c] \in Nat
  BY TypedAt
<1>4. (Offered(c)' <=> Offered(c)) /\ InFlight(c)' = InFlight(c)
  BY <1>1 DEF Offered, InFlight
<1>5. \A n : Holes(c, n)' = Holes(c, n)
  BY <1>1 DEF Holes
<1>6. Missed(c)' = Missed(c)
  BY <1>1, <1>4, <1>5 DEF Missed
<1>7. IdleInv(c)'
  BY <1>1, <1>4 DEF ConnInv, IdleInv
<1>8. OrderInv(c)'
  BY <1>1, <1>4 DEF ConnInv, OrderInv
<1>9. GotInv(c)'
  BY <1>1, <1>4 DEF ConnInv, GotInv, Wanted
<1>10. ReplayInv(c)'
  BY <1>1, <1>5 DEF ConnInv, ReplayInv
<1>11. MissedInv(c)'
  <2>1. Cardinality(Missed(c)) <= told[c] + dropped[c]
    BY <1>1 DEF ConnInv, MissedInv
  <2>2. /\ Cardinality(Below(Missed(c), hand[c])) \in Nat /\ Cardinality(Missed(c)) \in Nat
        /\ Cardinality(Below(Missed(c), hand[c])) <= Cardinality(Missed(c))
    BY TypedAt, FewerMissed
  <2>3. Below(Missed(c), hand[c])' = Below(Missed(c), hand[c])
    BY <1>1, <1>6 DEF Below
  <2> QED BY <1>2, <1>3, <1>6, <2>1, <2>2, <2>3 DEF MissedInv
<1> QED BY <1>7, <1>8, <1>9, <1>10, <1>11 DEF ConnInv

\* The event in hand is received, was received from the replay, or was not asked for.
LEMMA SendEventKeeps ==
  ASSUME Typed, NEW c \in Client, ConnInv(c), SendEvent(c)
  PROVE  ConnInv(c)'
<1>1. /\ UNCHANGED <<log, subs, fan, full, chan, dropped, batch, from, told>>
      /\ cpc[c] = "send" /\ cpc'[c] = "stream" /\ hand'[c] = 0 /\ batch[c] = <<>>
  BY DEF SendEvent, Typed, busVars, dispVars, subVars, ConnInv, IdleInv
<1>2. PICK N \in Nat : N = Len(log)
  BY TypedAt
<1>3. PICK h \in Nat : h = hand[c]
  BY TypedAt
<1>4. /\ h # 0 /\ chan[c] \in Seq(Nat) /\ got[c] \subseteq Nat /\ lastSent[c] \in Nat
      /\ from[c] \in Nat /\ dropped[c] \in Nat /\ told[c] \in Nat /\ h <= N /\ lastSent[c] <= N
  BY <1>1, <1>2, <1>3, TypedAt DEF ConnInv, IdleInv, OrderInv
<1>5. Offered(c)' <=> Offered(c)
  BY <1>1 DEF Offered
<1>6. InFlight(c) = InFlight(c)' \cup {h} /\ h \in InFlight(c)
  BY <1>1, <1>3, <1>4, <1>5 DEF InFlight
<1>7. \A q \in InFlight(c)' : q \in Nat /\ h < q
  <2>1. \A q \in Range(chan[c]) : q \in Nat /\ h < q
    BY <1>3, <1>4 DEF ConnInv, OrderInv, Range
  <2>2. Offered(c) => h < N
    BY <1>2, <1>3 DEF ConnInv, OrderInv
  <2> QED BY <1>1, <1>2, <1>5, <2>1, <2>2 DEF InFlight
<1>8. /\ \/ /\ lastSent[c] < h /\ lastSent'[c] = h
            /\ \/ Wanted(c, h) /\ got'[c] = got[c] \cup {h} /\ lastId'[c] = h
               \/ ~Wanted(c, h) /\ got'[c] = got[c] /\ lastId'[c] = lastId[c]
         \/ /\ h <= lastSent[c] /\ lastSent'[c] = lastSent[c]
            /\ got'[c] = got[c] /\ lastId'[c] = lastId[c]
  <2>1. CASE h > lastSent[c]
    BY <1>3, <1>4, <2>1 DEF SendEvent, Receives, Typed
  <2>2. CASE ~(h > lastSent[c])
    BY <1>3, <1>4, <2>2 DEF SendEvent
  <2> QED BY <2>1, <2>2
<1>9. /\ \A m \in got[c] : 0 < m /\ m <= N /\ m <= lastId[c] /\ m \in Nat
      /\ \A q \in InFlight(c), m \in got[c] : m <= lastSent[c] \/ m < q
      /\ \A q \in InFlight(c) : from[c] < q /\ q <= lastSent[c] /\ Wanted(c, q) => q \in got[c]
  BY <1>2, <1>4 DEF ConnInv, GotInv
<1>10. IdleInv(c)'
  BY <1>1, <1>5 DEF ConnInv, IdleInv
<1>11. OrderInv(c)'
  <2>1. lastSent'[c] <= N
    BY <1>4, <1>8
  <2>2. \A i \in DOMAIN chan[c] : /\ 0 < chan[c][i] /\ chan[c][i] <= N
                                  /\ Offered(c) => chan[c][i] < N
                                  /\ \A j \in DOMAIN chan[c] : i < j => chan[c][i] < chan[c][j]
    BY <1>2, <1>3, <1>4 DEF ConnInv, OrderInv
  <2>3. Offered(c) => 0 < N
    BY <1>2, <1>3, <1>4 DEF ConnInv, OrderInv
  <2> QED BY <1>1, <1>2, <1>5, <2>1, <2>2, <2>3 DEF OrderInv
<1>12. GotInv(c)'
  <2>1. \A m \in got'[c] : 0 < m /\ m <= N /\ m <= lastId'[c]
    <3> TAKE m \in got'[c]
    <3>1. CASE m \in got[c]
      BY <1>4, <1>6, <1>8, <1>9, <3>1
    <3>2. CASE m \notin got[c]
      BY <1>4, <1>8, <3>2
    <3> QED BY <3>1, <3>2
  <2>2. \A q \in InFlight(c)', m \in got'[c] : m <= lastSent'[c] \/ m < q
    <3> TAKE q \in InFlight(c)', m \in got'[c]
    <3>1. CASE m \in got[c]
      BY <1>4, <1>6, <1>7, <1>8, <1>9, <3>1
    <3>2. CASE m \notin got[c]
      BY <1>7, <1>8, <3>2
    <3> QED BY <3>1, <3>2
  <2>3. ASSUME NEW q \in InFlight(c)', from[c] < q, q <= lastSent'[c], Wanted(c, q)
        PROVE  q \in got'[c]
    <3>1. q \in InFlight(c) /\ q \in Nat /\ h < q
      BY <1>6, <1>7
    <3>2. q <= lastSent[c] /\ got'[c] = got[c]
      BY <1>4, <1>8, <2>3, <3>1
    <3> QED BY <1>9, <2>3, <3>1, <3>2
  <2>4. \A q : Wanted(c, q)' <=> Wanted(c, q)
    BY <1>1 DEF Wanted
  <2> QED BY <1>1, <1>2, <2>1, <2>2, <2>3, <2>4 DEF GotInv
<1>13. ReplayInv(c)'
  BY <1>1 DEF ReplayInv
<1>14. MissedInv(c)'
  <2>1. Missed(c)' \subseteq Missed(c)
    <3> SUFFICES ASSUME NEW m \in Missed(c)' PROVE m \in Missed(c)
      OBVIOUS
    <3>1. /\ m \in 1..N /\ from[c] < m /\ m < N + 1 /\ m \notin got'[c] /\ Wanted(c, m)
          /\ m \notin InFlight(c)' /\ m \notin Range(batch[c])
      BY <1>1, <1>2 DEF Missed, Holes, Wanted
    <3>2. m \notin got[c]
      BY <1>8, <3>1
    <3>3. m # h
      BY <1>4, <1>6, <1>8, <1>9, <3>1
    <3>4. m \notin InFlight(c)
      BY <1>6, <3>1, <3>3
    <3> QED BY <1>2, <3>1, <3>2, <3>4 DEF Missed, Holes, Wanted
  <2>2. /\ Cardinality(Missed(c)') \in Nat /\ Cardinality(Missed(c)) \in Nat
        /\ Cardinality(Missed(c)') <= Cardinality(Missed(c))
    BY <2>1, MissedShrinks
  <2> QED BY <1>1, <1>4, <2>2 DEF ConnInv, MissedInv
<1> QED BY <1>10, <1>11, <1>12, <1>13, <1>14 DEF ConnInv

\* A connection that is lost leaves nothing on its way.
LEMMA BreakKeeps ==
  ASSUME Typed, NEW c \in Client, ConnInv(c), Break(c)
  PROVE  ConnInv(c)'
<1>1. /\ UNCHANGED <<log, lastId, got, from, told>> /\ c \notin subs' /\ c \notin fan'
      /\ full' # c /\ cpc'[c] = "off" /\ chan'[c] = <<>> /\ batch'[c] = <<>>
      /\ hand'[c] = 0 /\ lastSent'[c] = 0
  BY Bounds DEF Break, Typed, viewVars
<1>2. ~Offered(c)' /\ InFlight(c)' = {}
  BY <1>1 DEF Offered, InFlight, Range
<1>3. Len(log) \in Nat
  BY TypedAt
<1>4. IdleInv(c)'
  BY <1>1, <1>2 DEF IdleInv
<1>5. OrderInv(c)'
  BY <1>1, <1>2, <1>3 DEF OrderInv
<1>6. GotInv(c)'
  BY <1>1, <1>2 DEF ConnInv, GotInv
<1>7. ReplayInv(c)'
  BY <1>1 DEF ReplayInv
<1>8. MissedInv(c)'
  BY <1>1 DEF MissedInv
<1> QED BY <1>4, <1>5, <1>6, <1>7, <1>8 DEF ConnInv

\* A step of one connection leaves the others alone.
LEMMA OthersKept ==
  ASSUME Typed, NEW c \in Client, NEW d \in Client, d # c, ConnInv(d),
         \/ Offer(c) \/ CountDrop(c) \/ Connect(c) \/ HandlerStep(c) \/ Tick(c) \/ Break(c)
  PROVE  ConnInv(d)'
<1> USE DEF busVars, dispVars, subVars, connVars, viewVars
<1>1. /\ log' = log
      /\ UNCHANGED <<chan[d], hand[d], batch[d], lastSent[d], lastId[d], got[d], from[d],
                     told[d], dropped[d], cpc[d]>>
  <2>1. CASE Offer(c) \/ CountDrop(c) \/ Connect(c)
    BY <2>1 DEF Offer, CountDrop, Connect, Typed
  <2>2. CASE TakeReplay(c) \/ Receive(c) \/ Break(c)
    BY <2>2 DEF TakeReplay, Receive, Break, Typed
  <2>3. CASE Report(c) \/ Tick(c)
    BY <2>3 DEF Report, Tick, ReportDrops, Typed
  <2>4. CASE SendReplay(c)
    BY <2>4 DEF SendReplay, Receives, Typed
  <2>5. CASE SendEvent(c)
    BY <2>5 DEF SendEvent, Receives, Typed
  <2> QED BY <2>1, <2>2, <2>3, <2>4, <2>5 DEF HandlerStep
<1>2. /\ d \in subs' <=> d \in subs
      /\ d \in fan' <=> d \in fan
      /\ full' = d <=> full = d
  BY Bounds DEF Offer, CountDrop, Connect, HandlerStep, TakeReplay, SendReplay, Receive, Report,
                SendEvent, Tick, Break
<1>3. Offered(d)' <=> Offered(d)
  BY <1>2 DEF Offered
<1> QED BY <1>1, <1>2, <1>3, Frame

\* A process begins with nothing on its way to anyone.
LEMMA StreamInit == Init => StreamInv
<1> SUFFICES ASSUME Init PROVE StreamInv
  OBVIOUS
<1>1. Typed
  BY InitTyped
<1>2. RingInv
  BY Bounds DEF Init, RingInv
<1>3. ASSUME NEW c \in Client PROVE ConnInv(c)
  <2>1. /\ log = <<>> /\ subs = {} /\ fan = {} /\ full = Nobody /\ chan[c] = <<>> /\ hand[c] = 0
        /\ batch[c] = <<>> /\ lastSent[c] = 0 /\ got[c] = {} /\ cpc[c] = "off"
    BY DEF Init
  <2>2. ~Offered(c) /\ InFlight(c) = {} /\ Len(log) = 0
    BY <2>1, Bounds DEF Offered, InFlight, Range
  <2> QED BY <2>1, <2>2 DEF ConnInv, IdleInv, OrderInv, GotInv, ReplayInv, MissedInv
<1> QED BY <1>1, <1>2, <1>3 DEF StreamInv

LEMMA StreamStep == StreamInv /\ [Next]_vars => StreamInv'
<1> SUFFICES ASSUME StreamInv, [Next]_vars, NEW d \in Client PROVE ConnInv(d)'
  BY NextTyped, RingStep DEF StreamInv
<1> USE DEF StreamInv
<1>1. ASSUME NEW c \in Client,
             \/ Offer(c) \/ CountDrop(c) \/ Connect(c) \/ HandlerStep(c) \/ Tick(c) \/ Break(c)
      PROVE  ConnInv(d)'
  <2>1. CASE c = d
    BY <1>1, <2>1, OfferKeeps, CountDropKeeps, ConnectKeeps, TakeReplayKeeps, SendReplayKeeps,
       ReceiveKeeps, ReportKeeps, SendEventKeeps, BreakKeeps DEF HandlerStep
  <2>2. CASE c # d
    BY <1>1, <2>2, OthersKept
  <2> QED BY <2>1, <2>2
<1>2. CASE Stamp
  BY <1>2, StampKeeps
<1>3. CASE Restart
  <2>1. /\ log' = <<>> /\ subs' = {} /\ fan' = {} /\ full' = Nobody /\ chan'[d] = <<>>
        /\ hand'[d] = 0 /\ batch'[d] = <<>> /\ lastSent'[d] = 0 /\ got'[d] = {}
        /\ cpc'[d] = "off"
    BY <1>3 DEF Restart
  <2>2. ~Offered(d)' /\ InFlight(d)' = {} /\ Len(log') = 0
    BY <2>1, Bounds DEF Offered, InFlight, Range
  <2> QED BY <2>1, <2>2 DEF ConnInv, IdleInv, OrderInv, GotInv, ReplayInv, MissedInv
<1>4. ASSUME UNCHANGED <<log, fan, full, streamVars>> PROVE ConnInv(d)'
  <2>1. Offered(d)' <=> Offered(d)
    BY <1>4 DEF Offered
  <2> QED BY <1>4, <2>1, Frame DEF streamVars, subVars, connVars, viewVars
<1>5. ASSUME NEW p \in Publisher, Publish(p) \/ Send(p) PROVE ConnInv(d)'
  BY <1>4, <1>5 DEF Publish, Send, dispVars
<1>6. CASE Take \/ DispatcherEnds \/ Stop \/ CloseRaw \/ CloseReturns \/ UNCHANGED vars
  BY <1>4, <1>6 DEF Take, DispatcherEnds, Stop, CloseRaw, CloseReturns, dispVars, vars, busVars
<1> QED BY <1>1, <1>2, <1>3, <1>5, <1>6 DEF Next

\* What no client loses without being counted, in every reachable state.
THEOREM StreamKept == Spec => []StreamInv
BY StreamInit, StreamStep, PTL DEF Spec

-----------------------------------------------------------------------------
(***************************************************************************)
(* The refinement, step by step.                                           *)
(***************************************************************************)
\* FlowLog counts as FlowBus does.
LEMMA SameCount == \A S : Abs!Cardinality(S) = Cardinality(S)
BY DEF Abs!Cardinality, Cardinality

\* Event n, the next to be replayed, is one FlowLog may deliver: it is ahead of
\* all that was received and nothing asked for is left out below it.
LEMMA ReplayDelivers ==
  ASSUME StreamInv, NEW c \in Client, SendReplay(c)
  PROVE  [Abs!Next]_(Abs!vars)
<1>1. Typed /\ ConnInv(c)
  BY DEF StreamInv
<1>2. /\ UNCHANGED <<log, from, told>> /\ batch[c] # <<>> /\ Receives(c, Head(batch[c]))
      /\ batch[c] \in Seq(Nat)
  BY <1>1, TypedAt DEF SendReplay, busVars, dispVars
<1>3. PICK n \in Nat : n = Head(batch[c])
  <2>1. Head(batch[c]) \in Nat
    BY <1>2
  <2> QED BY <2>1
<1>4. CASE ~Wanted(c, n)
  BY <1>2, <1>3, <1>4 DEF Receives, Abs!vars
<1>5. CASE Wanted(c, n)
  <2>1. 1 \in DOMAIN batch[c] /\ batch[c][1] = n
    BY <1>2, <1>3, QueueMembers
  <2>2. n <= Len(log) /\ lastSent[c] < n /\ (\A m \in got[c] : m < n) /\ Holes(c, n) = {}
    BY <1>1, <1>2, <2>1 DEF ConnInv, ReplayInv
  <2>3. n \in 1..Len(log)
    BY <1>1, <2>2, TypedAt
  <2>4. Cardinality(Abs!Holes(c, n)) <= told[c]
    <3>1. Abs!Holes(c, n) = Holes(c, n)
      BY DEF Abs!Holes, Holes
    <3>2. Cardinality(Abs!Holes(c, n)) = 0 /\ told[c] \in Nat
      BY <1>1, <2>2, <3>1, FS_EmptySet, TypedAt
    <3> QED BY <3>2
  <2>5. Abs!Deliver(c, n)
    <3>1. got' = [got EXCEPT ![c] = @ \cup {n}] /\ lastId' = [lastId EXCEPT ![c] = n]
      BY <1>2, <1>3, <1>5 DEF Receives
    <3>2. log[n] \in Filter[c]
      BY <1>5 DEF Wanted
    <3> QED BY <1>2, <2>2, <2>4, <3>1, <3>2, SameCount DEF Abs!Deliver
  <2> QED BY <2>3, <2>5 DEF Abs!Next
<1> QED BY <1>4, <1>5

\* So is the event in hand: what is missed below it, the client was told of.
LEMMA QueueDelivers ==
  ASSUME StreamInv, NEW c \in Client, SendEvent(c)
  PROVE  [Abs!Next]_(Abs!vars)
<1>1. Typed /\ ConnInv(c)
  BY DEF StreamInv
<1>2. UNCHANGED <<log, from, told>> /\ cpc[c] = "send"
  BY DEF SendEvent, busVars, dispVars
<1>3. PICK h \in Nat : h = hand[c]
  BY <1>1, TypedAt
<1>4. CASE ~(h > lastSent[c] /\ Wanted(c, h))
  BY <1>2, <1>3, <1>4 DEF SendEvent, Receives, Abs!vars
<1>5. CASE h > lastSent[c] /\ Wanted(c, h)
  <2>1. PICK N \in Nat : N = Len(log)
    BY <1>1, TypedAt
  <2>2. /\ h # 0 /\ h <= N /\ batch[c] = <<>> /\ lastSent[c] \in Nat /\ got[c] \subseteq Nat
        /\ told[c] \in Nat
    BY <1>1, <1>2, <1>3, <2>1, TypedAt DEF ConnInv, IdleInv, OrderInv
  <2>3. \A m \in got[c] : m < h
    <3>1. h \in InFlight(c)
      BY <1>3, <2>2 DEF InFlight
    <3>2. \A m \in got[c] : m <= lastSent[c] \/ m < h
      BY <1>1, <3>1 DEF ConnInv, GotInv
    <3> QED BY <1>5, <2>2, <3>2
  <2>4. Abs!Holes(c, h) \subseteq Below(Missed(c), h)
    <3> SUFFICES ASSUME NEW m \in Abs!Holes(c, h) PROVE m \in Below(Missed(c), h)
      OBVIOUS
    <3>1. m \in 1..N /\ m < h /\ m < N + 1 /\ m \in Holes(c, N + 1)
      BY <2>1, <2>2 DEF Abs!Holes, Holes
    <3>2. m \notin InFlight(c)
      <4>1. \A i \in DOMAIN chan[c] : chan[c][i] \in Nat /\ h < chan[c][i]
        BY <1>1, <1>3, TypedAt DEF ConnInv, OrderInv
      <4> QED BY <1>3, <2>1, <2>2, <3>1, <4>1 DEF InFlight, Range
    <3>3. m \notin Range(batch[c])
      BY <2>2 DEF Range
    <3> QED BY <2>1, <3>1, <3>2, <3>3 DEF Missed, Below
  <2>5. Cardinality(Abs!Holes(c, h)) <= told[c]
    <3>1. Below(Missed(c), h) \in SUBSET (1..N)
      BY <1>1, <2>1, TypedAt DEF Below
    <3>2. /\ Cardinality(Abs!Holes(c, h)) \in Nat /\ Cardinality(Below(Missed(c), h)) \in Nat
          /\ Cardinality(Abs!Holes(c, h)) <= Cardinality(Below(Missed(c), h))
      BY <2>4, <3>1, FewerMissed
    <3>3. Cardinality(Below(Missed(c), h)) <= told[c]
      BY <1>1, <1>2, <1>3 DEF ConnInv, MissedInv
    <3> QED BY <2>2, <3>2, <3>3
  <2>6. Abs!Deliver(c, h)
    <3>1. Receives(c, h)
      BY <1>3, <1>5 DEF SendEvent
    <3>2. got' = [got EXCEPT ![c] = @ \cup {h}] /\ lastId' = [lastId EXCEPT ![c] = h]
      BY <1>5, <3>1 DEF Receives
    <3>3. log[h] \in Filter[c]
      BY <1>5 DEF Wanted
    <3> QED BY <1>2, <2>3, <2>5, <3>2, <3>3, SameCount DEF Abs!Deliver
  <2>7. h \in 1..Len(log)
    BY <2>1, <2>2
  <2> QED BY <2>6, <2>7 DEF Abs!Next
<1> QED BY <1>4, <1>5

\* A notice is one FlowLog sends, or says nothing.
LEMMA ReportNotifies ==
  ASSUME StreamInv, NEW c \in Client, Report(c) \/ Tick(c)
  PROVE  [Abs!Next]_(Abs!vars)
<1>1. /\ UNCHANGED <<log, got, lastId, from>>
      /\ told' = [told EXCEPT ![c] = @ + dropped[c]]
  BY DEF Report, Tick, ReportDrops, busVars, dispVars
<1>2. told \in [Client -> Nat] /\ told[c] \in Nat /\ dropped[c] \in Nat
  BY DEF StreamInv, Typed
<1>3. CASE dropped[c] = 0
  <2>1. told' = told
    BY <1>1, <1>2, <1>3
  <2> QED BY <1>1, <2>1 DEF Abs!vars
<1>4. CASE dropped[c] > 0
  <2>1. told'[c] = told[c] + dropped[c] /\ told' = [told EXCEPT ![c] = told'[c]]
    BY <1>1, <1>2
  <2>2. told'[c] > told[c]
    BY <1>2, <1>4, <2>1
  <2>3. Abs!Notify(c)
    BY <1>1, <2>1, <2>2 DEF Abs!Notify
  <2> QED BY <2>3 DEF Abs!Next
<1> QED BY <1>2, <1>3, <1>4

\* Every step of the bus and of the stream is one of FlowLog, or invisible to it.
LEMMA StepImplements == StreamInv /\ [Next]_vars => [Abs!Next]_(Abs!vars)
<1> SUFFICES ASSUME StreamInv, [Next]_vars PROVE [Abs!Next]_(Abs!vars)
  OBVIOUS
<1> USE DEF busVars, dispVars, subVars, connVars, viewVars, streamVars
<1>1. CASE Stamp
  <2>1. Head(todo) \in Kind
    BY <1>1 DEF Stamp, StreamInv, Typed
  <2>2. Abs!Emit
    BY <1>1, <2>1 DEF Stamp, Abs!Emit
  <2> QED BY <2>2 DEF Abs!Next
<1>2. CASE Restart
  <2>1. Abs!Restart
    BY <1>2 DEF Restart, Abs!Restart
  <2> QED BY <2>1 DEF Abs!Next
<1>3. ASSUME NEW c \in Client, TakeReplay(c) PROVE [Abs!Next]_(Abs!vars)
  <2>1. Abs!Resume(c)
    BY <1>3 DEF TakeReplay, Abs!Resume
  <2> QED BY <2>1 DEF Abs!Next
<1>4. ASSUME NEW c \in Client,
             Offer(c) \/ CountDrop(c) \/ Connect(c) \/ Receive(c) \/ Break(c)
      PROVE  [Abs!Next]_(Abs!vars)
  BY <1>4 DEF Offer, CountDrop, Connect, Receive, Break, Abs!vars
<1>5. ASSUME NEW p \in Publisher, Publish(p) \/ Send(p) PROVE [Abs!Next]_(Abs!vars)
  BY <1>5 DEF Publish, Send, Abs!vars
<1>6. CASE Take \/ DispatcherEnds \/ Stop \/ CloseRaw \/ CloseReturns \/ UNCHANGED vars
  BY <1>6 DEF Take, DispatcherEnds, Stop, CloseRaw, CloseReturns, vars, Abs!vars
<1> QED
  BY <1>1, <1>2, <1>3, <1>4, <1>5, <1>6, ReplayDelivers, QueueDelivers, ReportNotifies
  DEF Next, HandlerStep

\* The stream implements FlowLog (bus.go, events.go): however publishers, the
\* dispatcher, drops, the replay and reconnections interleave, a client receives
\* what it asked for once and in order, and of a hole below a received event it
\* was told first.
THEOREM StreamImplementsLog == Spec => ImplementsLog
<1>1. Init => Abs!Init
  BY DEF Init, Abs!Init
<1> QED BY <1>1, StreamKept, StepImplements, PTL DEF Spec, ImplementsLog, Abs!Spec
=============================================================================
