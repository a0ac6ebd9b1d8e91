------------------------------- MODULE FlowBus -------------------------------
(***************************************************************************)
(* The flow-event bus (internal/store/bus.go) and the stream that serves   *)
(* it, GET /_emulator/events (internal/server/events.go).                  *)
(*                                                                         *)
(* Publishers queue events without ever blocking; one dispatcher stamps    *)
(* each with its seq, keeps the last RingSize and offers it to every       *)
(* subscriber; a connection replays from the ring and then follows its own *)
(* queue. Each of them may lose events. An event is carried as its seq:    *)
(* log[n] is the kind of event n, which is all a filter looks at.          *)
(***************************************************************************)
EXTENDS Integers, Sequences, FiniteSets

CONSTANTS
  Publisher,     \* request and job threads
  Client,        \* consumers, at most one connection each
  Filter,        \* client -> the kinds it asked for
  RawSize,       \* capacity of the raw queue
  RingSize, SubBuffer,
  Nobody

CONSTANTS        \* bounds of the model
  MaxEvents,     \* events published
  MaxRestarts    \* process restarts

\* A commit is a file event that a table event may be derived from.
Published == {"file", "job"}
Kind == Published \cup {"table"}

ASSUME FlowBusAssumption ==
  /\ Filter \in [Client -> SUBSET Kind]
  /\ RawSize \in Nat \ {0} /\ RingSize \in Nat \ {0} /\ SubBuffer \in Nat \ {0}
  /\ MaxEvents \in Nat /\ MaxRestarts \in Nat
  /\ Nobody \notin Publisher \cup Client

VARIABLES
  mu,            \* the publisher that holds the bus mutex between two steps
  sending,       \* publishers past the test of `stopped'
  made,          \* events published
  raw,           \* the raw queue: kinds, no seq yet
  shut,          \* Store.Close: open, stopped, closed (raw is), returned
  running,       \* the dispatcher's goroutine
  todo,          \* kinds the dispatcher still has to stamp
  log,           \* kinds stamped by this process: seq is Len(log)
  ring,          \* seqs that can be replayed
  subs,          \* clients with a subscriber on the bus
  fan,           \* subscribers the event just stamped is still to be offered to
  full,          \* subscriber whose queue was full, still to be counted for
  chan,          \* client -> its subscriber's queue
  dropped,       \* client -> its subscriber's counter
  cpc,           \* client -> where its handler is
  batch,         \* client -> replayed events still to be sent
  hand,          \* client -> event taken from the queue, 0 for none
  lastSent,      \* client -> the handler's lastSent
  lastId,        \* client -> Last-Event-ID, 0 for none
  got,           \* client -> seqs it received from this process
  from,          \* client -> seq its connection begins after
  told,          \* client -> sum of the dropped notices of its connection
  restarts

pubVars == <<mu, sending, made>>
dispVars == <<todo, log, ring, fan, full>>
busVars == <<pubVars, raw, shut, running, dispVars>>
subVars == <<subs, chan, dropped>>
connVars == <<cpc, batch, hand, lastSent>>
viewVars == <<lastId, got, from, told>>
streamVars == <<subVars, connVars, viewVars, restarts>>
vars == <<busVars, streamVars>>

-----------------------------------------------------------------------------
Init ==
  /\ mu = Nobody /\ sending = {} /\ made = 0
  /\ raw = <<>> /\ shut = "open" /\ running = TRUE
  /\ todo = <<>> /\ log = <<>> /\ ring = <<>> /\ fan = {} /\ full = Nobody
  /\ subs = {}
  /\ chan = [c \in Client |-> <<>>]
  /\ dropped = [c \in Client |-> 0]
  /\ cpc = [c \in Client |-> "off"]
  /\ batch = [c \in Client |-> <<>>]
  /\ hand = [c \in Client |-> 0]
  /\ lastSent = [c \in Client |-> 0]
  /\ lastId = [c \in Client |-> 0]
  /\ got = [c \in Client |-> {}]
  /\ from = [c \in Client |-> 0]
  /\ told = [c \in Client |-> 0]
  /\ restarts = 0

\* Mutant: the lock is released after the test of `stopped'.
PublishUnlocked(p) ==
  /\ mu = Nobody /\ p \notin sending
  /\ shut = "open" /\ made < MaxEvents
  /\ sending' = sending \cup {p}
  /\ made' = made + 1
  /\ UNCHANGED <<mu, raw, shut, running, dispVars, streamVars>>

\* publish: once stop has set `stopped', it returns without sending.
Publish(p) ==
  /\ mu = Nobody /\ p \notin sending
  /\ shut = "open" /\ made < MaxEvents
  /\ mu' = p
  /\ sending' = sending \cup {p}
  /\ made' = made + 1
  /\ UNCHANGED <<raw, shut, running, dispVars, streamVars>>

\* The send, still under the lock: a full queue drops the event.
Send(p) ==
  /\ p \in sending
  /\ \E k \in Published : raw' = IF Len(raw) < RawSize THEN Append(raw, k) ELSE raw
  /\ sending' = sending \ {p}
  /\ mu' = Nobody
  /\ UNCHANGED <<made, shut, running, dispVars, streamVars>>

-----------------------------------------------------------------------------
\* runBus: the next event, and the table event derived from it if it is a commit
\* that is still there to be read.
Take ==
  /\ running /\ todo = <<>> /\ fan = {} /\ full = Nobody /\ raw # <<>>
  /\ \/ todo' = <<Head(raw)>>
     \/ Head(raw) = "file" /\ todo' = <<"file", "table">>
  /\ raw' = Tail(raw)
  /\ UNCHANGED <<pubVars, shut, running, log, ring, fan, full, streamVars>>

\* The ring with event n in it.
Pushed(n) == Append(IF Len(ring) = RingSize THEN Tail(ring) ELSE ring, n)

\* dispatch, under the lock: the next seq, the ring, the subscribers of now.
Stamp ==
  /\ todo # <<>> /\ fan = {} /\ full = Nobody /\ mu = Nobody
  /\ log' = Append(log, Head(todo))
  /\ todo' = Tail(todo)
  /\ ring' = Pushed(Len(log) + 1)
  /\ fan' = subs
  /\ UNCHANGED <<pubVars, raw, shut, running, full, streamVars>>

\* dispatch, after the lock: a queue that is full does not get the event ...
Offer(c) ==
  /\ c \in fan /\ full = Nobody
  /\ fan' = fan \ {c}
  /\ \/ /\ Len(chan[c]) < SubBuffer
        /\ chan' = [chan EXCEPT ![c] = Append(@, Len(log))]
        /\ UNCHANGED full
     \/ /\ Len(chan[c]) = SubBuffer
        /\ full' = c
        /\ UNCHANGED chan
  /\ UNCHANGED <<pubVars, raw, shut, running, todo, log, ring, subs, dropped, connVars,
                 viewVars, restarts>>

\* ... and is counted for only afterwards: it may have been emptied by then.
CountDrop(c) ==
  /\ full = c
  /\ full' = Nobody
  /\ dropped' = [dropped EXCEPT ![c] = @ + 1]
  /\ UNCHANGED <<pubVars, raw, shut, running, todo, log, ring, fan, subs, chan, connVars,
                 viewVars, restarts>>

\* The range over raw ends when it is closed and empty.
DispatcherEnds ==
  /\ running /\ shut = "closed" /\ raw = <<>> /\ todo = <<>> /\ fan = {} /\ full = Nobody
  /\ running' = FALSE
  /\ UNCHANGED <<pubVars, raw, shut, dispVars, streamVars>>

-----------------------------------------------------------------------------
\* Store.Close: bus.stop sets `stopped' under the lock, ...
Stop ==
  /\ shut = "open" /\ mu = Nobody
  /\ shut' = "stopped"
  /\ UNCHANGED <<pubVars, raw, running, dispVars, streamVars>>

\* Mutant: it waits for the dispatcher before closing raw.
CloseRawLate ==
  /\ shut = "stopped" /\ ~running
  /\ shut' = "closed"
  /\ UNCHANGED <<pubVars, raw, running, dispVars, streamVars>>

\* ... closes raw, ...
CloseRaw ==
  /\ shut = "stopped"
  /\ shut' = "closed"
  /\ UNCHANGED <<pubVars, raw, running, dispVars, streamVars>>

\* ... and waits for the dispatcher; then the database is closed.
CloseReturns ==
  /\ shut = "closed" /\ ~running
  /\ shut' = "returned"
  /\ UNCHANGED <<pubVars, raw, running, dispVars, streamVars>>

-----------------------------------------------------------------------------
\* What the stream promises (checked below), over this module's variables.
Abs == INSTANCE FlowLog WITH
         log <- log, got <- got, lastId <- lastId, from <- from, told <- told

Wanted(c, n) == log[n] \in Filter[c]

\* Event n reaches client c if it asked for it. Only these frames carry an id.
Receives(c, n) ==
  IF Wanted(c, n)
  THEN /\ got' = [got EXCEPT ![c] = @ \cup {n}]
       /\ lastId' = [lastId EXCEPT ![c] = n]
  ELSE UNCHANGED <<got, lastId>>

\* emulatorEvents subscribes before it replays.
Connect(c) ==
  /\ cpc[c] = "off" /\ mu = Nobody
  /\ subs' = subs \cup {c}
  /\ cpc' = [cpc EXCEPT ![c] = "subscribed"]
  /\ UNCHANGED <<busVars, chan, dropped, batch, hand, lastSent, viewVars, restarts>>

\* The ring is in the order of seq: what follows its events up to `since'.
Replay(since) ==
  SubSeq(ring, Cardinality({i \in DOMAIN ring : ring[i] <= since}) + 1, Len(ring))

\* The events of the ring after Last-Event-ID.
TakeReplay(c) ==
  /\ cpc[c] = "subscribed" /\ mu = Nobody
  /\ batch' = [batch EXCEPT ![c] = Replay(lastId[c])]
  /\ cpc' = [cpc EXCEPT ![c] = "stream"]
  /\ from' = [from EXCEPT ![c] = Abs!Larger(lastId[c], Len(log) - RingSize)]
  /\ told' = [told EXCEPT ![c] = 0]
  /\ UNCHANGED <<busVars, subVars, hand, lastSent, lastId, got, restarts>>

SendReplay(c) ==
  /\ cpc[c] = "stream" /\ batch[c] # <<>>
  /\ Receives(c, Head(batch[c]))
  /\ lastSent' = [lastSent EXCEPT ![c] = Head(batch[c])]
  /\ batch' = [batch EXCEPT ![c] = Tail(@)]
  /\ UNCHANGED <<busVars, subVars, cpc, hand, from, told, restarts>>

\* reportDrops: the counter is swapped for 0 and its value sent, whatever the
\* filter.
ReportDrops(c) ==
  /\ told' = [told EXCEPT ![c] = @ + dropped[c]]
  /\ dropped' = [dropped EXCEPT ![c] = 0]

\* The loop's select: an event is ready.
Receive(c) ==
  /\ cpc[c] = "stream" /\ batch[c] = <<>> /\ chan[c] # <<>>
  /\ hand' = [hand EXCEPT ![c] = Head(chan[c])]
  /\ chan' = [chan EXCEPT ![c] = Tail(@)]
  /\ cpc' = [cpc EXCEPT ![c] = "report"]
  /\ UNCHANGED <<busVars, subs, dropped, batch, lastSent, viewVars, restarts>>

\* Mutant: the counter is read, and reset, only where the ticker is.
ReportNothing(c) ==
  /\ cpc[c] = "report"
  /\ cpc' = [cpc EXCEPT ![c] = "send"]
  /\ UNCHANGED <<busVars, subVars, batch, hand, lastSent, viewVars, restarts>>

\* Drops are reported before the event is sent ...
Report(c) ==
  /\ cpc[c] = "report"
  /\ ReportDrops(c)
  /\ cpc' = [cpc EXCEPT ![c] = "send"]
  /\ UNCHANGED <<busVars, subs, chan, batch, hand, lastSent, lastId, got, from, restarts>>

\* ... and one the replay covered is skipped.
SendEvent(c) ==
  /\ cpc[c] = "send"
  /\ IF hand[c] > lastSent[c]
     THEN Receives(c, hand[c]) /\ lastSent' = [lastSent EXCEPT ![c] = hand[c]]
     ELSE UNCHANGED <<got, lastId, lastSent>>
  /\ hand' = [hand EXCEPT ![c] = 0]
  /\ cpc' = [cpc EXCEPT ![c] = "stream"]
  /\ UNCHANGED <<busVars, subVars, batch, from, told, restarts>>

\* Mutant: the keepalive only keeps the connection warm.
TickSilently(c) ==
  /\ cpc[c] = "stream" /\ batch[c] = <<>> /\ dropped[c] > 0
  /\ UNCHANGED vars

\* The loop's select: the keepalive ticker.
Tick(c) ==
  /\ cpc[c] = "stream" /\ batch[c] = <<>> /\ dropped[c] > 0
  /\ ReportDrops(c)
  /\ UNCHANGED <<busVars, subs, chan, connVars, lastId, got, from, restarts>>

\* The connection is lost, with whatever was not received; sub.Close.
Break(c) ==
  /\ cpc[c] # "off" /\ mu = Nobody
  /\ cpc' = [cpc EXCEPT ![c] = "off"]
  /\ subs' = subs \ {c}
  /\ fan' = fan \ {c}
  /\ full' = IF full = c THEN Nobody ELSE full
  /\ chan' = [chan EXCEPT ![c] = <<>>]
  /\ dropped' = [dropped EXCEPT ![c] = 0]
  /\ batch' = [batch EXCEPT ![c] = <<>>]
  /\ hand' = [hand EXCEPT ![c] = 0]
  /\ lastSent' = [lastSent EXCEPT ![c] = 0]
  /\ UNCHANGED <<pubVars, raw, shut, running, todo, log, ring, viewVars, restarts>>

\* The process ends, by a crash or after Store.Close, and starts again: nothing
\* of the bus survives. A client keeps its Last-Event-ID.
Restart ==
  /\ restarts < MaxRestarts
  /\ restarts' = restarts + 1
  /\ mu' = Nobody /\ sending' = {}
  /\ raw' = <<>> /\ shut' = "open" /\ running' = TRUE
  /\ todo' = <<>> /\ log' = <<>> /\ ring' = <<>> /\ fan' = {}
  /\ full' = Nobody /\ subs' = {}
  /\ chan' = [c \in Client |-> <<>>]
  /\ dropped' = [c \in Client |-> 0]
  /\ cpc' = [c \in Client |-> "off"]
  /\ batch' = [c \in Client |-> <<>>]
  /\ hand' = [c \in Client |-> 0]
  /\ lastSent' = [c \in Client |-> 0]
  /\ got' = [c \in Client |-> {}]
  /\ from' = [c \in Client |-> 0]
  /\ told' = [c \in Client |-> 0]
  /\ UNCHANGED <<made, lastId>>

HandlerStep(c) ==
  \/ TakeReplay(c) \/ SendReplay(c) \/ Receive(c) \/ Report(c) \/ SendEvent(c)

Next ==
  \/ \E p \in Publisher : Publish(p) \/ Send(p)
  \/ Take \/ Stamp \/ DispatcherEnds
  \/ \E c \in Client : Offer(c) \/ CountDrop(c) \/ Connect(c) \/ HandlerStep(c) \/ Tick(c) \/ Break(c)
  \/ Stop \/ CloseRaw \/ CloseReturns
  \/ Restart

Spec == Init /\ [][Next]_vars

\* The dispatcher and the thread in Store.Close run on, a publisher leaves the
\* lock, the lock comes to whoever waits for it, a handler whose client still
\* reads goes on, and the ticker ticks. No client has to connect.
Fairness ==
  /\ \A p \in Publisher : WF_vars(Send(p))
  /\ WF_vars(Take) /\ SF_vars(Stamp) /\ WF_vars(DispatcherEnds)
  /\ WF_vars(CloseRaw) /\ WF_vars(CloseReturns)
  /\ \A c \in Client : /\ WF_vars(Offer(c)) /\ WF_vars(CountDrop(c))
                       /\ SF_vars(TakeReplay(c))
                       /\ WF_vars(SendReplay(c)) /\ WF_vars(Receive(c))
                       /\ WF_vars(Report(c)) /\ WF_vars(SendEvent(c)) /\ WF_vars(Tick(c))

FairSpec == Spec /\ Fairness

-----------------------------------------------------------------------------
(***************************************************************************)
(* Properties.                                                             *)
(***************************************************************************)
TypeOK ==
  /\ mu \in Publisher \cup {Nobody}
  /\ sending \subseteq Publisher
  /\ made \in 0..MaxEvents
  /\ raw \in Seq(Published) /\ Len(raw) <= RawSize
  /\ shut \in {"open", "stopped", "closed", "returned"} /\ running \in BOOLEAN
  /\ todo \in Seq(Kind) /\ Len(todo) <= 2
  /\ log \in Seq(Kind)
  /\ ring \in Seq(Nat) /\ Len(ring) <= RingSize
  /\ subs \subseteq Client /\ fan \subseteq subs /\ full \in subs \cup {Nobody}
  /\ \A c \in Client :
       /\ chan[c] \in Seq(Nat) /\ Len(chan[c]) <= SubBuffer
       /\ batch[c] \in Seq(Nat) /\ Len(batch[c]) <= RingSize
       /\ dropped[c] \in Nat /\ told[c] \in Nat
       /\ hand[c] \in 0..Len(log) /\ lastSent[c] \in 0..Len(log)
       /\ lastId[c] \in Nat /\ from[c] \in Nat
       /\ got[c] \subseteq 1..Len(log)
       /\ cpc[c] \in {"off", "subscribed", "stream", "report", "send"}
  /\ restarts \in 0..MaxRestarts

\* No publisher is ever about to send to a closed channel, whatever the timing of
\* Store.Close: the send would panic on a request that has already succeeded
\* (bus.go:292-304).
NoSendOnClosed == shut \in {"closed", "returned"} => sending = {}

\* The stream implements FlowLog: however publishers, the dispatcher, drops, the
\* replay and reconnections interleave, a client receives what it asked for once
\* and in order, and of a hole below a received event it was told first.
ImplementsLog == Abs!Spec

\* What a streaming client asked for and has neither received nor been told of.
Untold(c) == Cardinality(Abs!Holes(c, Len(log) + 1)) > told[c]

\* "A gap surfaces within one interval whether or not traffic continues"
\* (docs/31): every event a client asked for reaches it, or it is told that it
\* missed that many, or its connection is lost.
GapSurfaces ==
  \A c \in Client : (cpc[c] # "off" /\ Untold(c)) ~> (cpc[c] = "off" \/ ~Untold(c))

\* Store.Close returns: the dispatcher drains what was queued and ends.
CloseEnds == (shut = "stopped") ~> (shut \in {"returned", "open"})

\* "A dropped connection resumes without a gap" (events.go:127-129): once the
\* replay is through, no event the ring holds and the client asked for is beyond
\* all it received of this process, unless it is queued, being offered or counted
\* as dropped.
Queued(c) == {chan[c][j] : j \in DOMAIN chan[c]}
Beyond(c) == {n \in {ring[i] : i \in DOMAIN ring} :
                Wanted(c, n) /\ \A m \in got[c] : m < n}
ResumesWithoutGap ==
  \A c \in Client :
    cpc[c] = "stream" /\ batch[c] = <<>> /\ c \notin fan /\ full # c
      /\ dropped[c] + told[c] = 0
      => Beyond(c) \subseteq Queued(c)

=============================================================================
