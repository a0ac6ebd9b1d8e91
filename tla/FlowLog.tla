------------------------------- MODULE FlowLog -------------------------------
(***************************************************************************)
(* What GET /_emulator/events promises a consumer that resumes by          *)
(* Last-Event-ID: the events it asked for, each at most once and in order, *)
(* and no hole below an event it received that it was not told of first.   *)
(***************************************************************************)
EXTENDS Integers, Sequences, FiniteSets

CONSTANTS
  Client, Kind,
  Filter,        \* client -> the kinds it asked for
  RingSize       \* how far back a connection can begin

VARIABLES
  log,           \* the events of this process, in the order of their seq
  got,           \* client -> the seqs it received from this process
  lastId,        \* client -> the id of the last event it received
  from,          \* client -> the seq its connection begins after
  told           \* client -> events its connection was told it missed

vars == <<log, got, lastId, from, told>>

Larger(m, n) == IF m >= n THEN m ELSE n

\* What client c asked for and, since its connection began, did not receive
\* below event n.
Holes(c, n) == {m \in 1..Len(log) : /\ from[c] < m /\ m < n /\ m \notin got[c]
                                    /\ log[m] \in Filter[c]}

Init ==
  /\ log = <<>>
  /\ got = [c \in Client |-> {}]
  /\ lastId = [c \in Client |-> 0]
  /\ from = [c \in Client |-> 0]
  /\ told = [c \in Client |-> 0]

Emit ==
  /\ \E k \in Kind : log' = Append(log, k)
  /\ UNCHANGED <<got, lastId, from, told>>

\* A connection begins after the last event received, or as far back as the
\* ring goes.
Resume(c) ==
  /\ from' = [from EXCEPT ![c] = Larger(lastId[c], Len(log) - RingSize)]
  /\ told' = [told EXCEPT ![c] = 0]
  /\ UNCHANGED <<log, got, lastId>>

Notify(c) ==
  /\ told'[c] > told[c]
  /\ told' = [told EXCEPT ![c] = told'[c]]
  /\ UNCHANGED <<log, got, lastId, from>>

Deliver(c, n) ==
  /\ log[n] \in Filter[c]
  /\ \A m \in got[c] : m < n
  /\ Cardinality(Holes(c, n)) <= told[c]
  /\ got' = [got EXCEPT ![c] = @ \cup {n}]
  /\ lastId' = [lastId EXCEPT ![c] = n]
  /\ UNCHANGED <<log, from, told>>

\* seq counts the events of one process; a client keeps the id it has.
Restart ==
  /\ log' = <<>>
  /\ got' = [c \in Client |-> {}]
  /\ from' = [c \in Client |-> 0]
  /\ told' = [c \in Client |-> 0]
  /\ UNCHANGED lastId

Next ==
  \/ Emit \/ Restart
  \/ \E c \in Client : Resume(c) \/ Notify(c) \/ \E n \in 1..Len(log) : Deliver(c, n)

Spec == Init /\ [][Next]_vars
=============================================================================
