---------------------------- MODULE WebhookPark ------------------------------
(***************************************************************************)
(* A WebHook activity waiting for its callback on the emulator's clock     *)
(* (internal/api/webhookactivity.go, internal/clock/clock.go).             *)
(*                                                                         *)
(* The activity registers a token, calls the endpoint and parks until the  *)
(* receiver calls back or the virtual clock reaches the deadline. The      *)
(* clock follows real time, or is frozen, and a control call may move it   *)
(* either way at any moment. Real time is counted in seconds by Tick.      *)
(***************************************************************************)
EXTENDS Integers

CONSTANTS
  Receiver,      \* calls to the callback route: the endpoint's and its retries
  Timeout,       \* of the activity, seconds
  MaxNow,        \* bounds of the model: the virtual clock,
  MaxReal,       \* real seconds,
  MaxControls    \* and control calls

ASSUME WebhookAssumption ==
  /\ Timeout \in Nat \ {0}
  /\ MaxNow \in Nat /\ MaxReal \in Nat /\ MaxControls \in Nat

VARIABLES
  now, frozen,   \* Clock.Now, Clock.frozen
  real,          \* real seconds since the activity began
  controls,      \* control calls made
  subscribed,    \* the channel the park got from Clock.Changed: none, open, closed
  pc,            \* the activity: calling, subscribe, read, select, ended
  timer,         \* real seconds until time.After fires
  waiting,       \* the token is in webhookWaits
  delivered,     \* the callback in the channel of the park
  call,          \* receiver -> idle, taken (the token), accepted, refused
  outcome        \* running, then how the activity ended

clockVars == <<now, frozen, real, controls>>
parkVars == <<pc, timer, outcome>>
vars == <<clockVars, subscribed, parkVars, waiting, delivered, call>>

\* The deadline is fixed before the call, at the activity's own time 0.
Deadline == Timeout

Init ==
  /\ now = 0 /\ frozen \in BOOLEAN /\ real = 0 /\ controls = 0
  /\ subscribed = "none" /\ pc = "calling" /\ timer = 0
  /\ waiting = TRUE /\ delivered = FALSE
  /\ call = [r \in Receiver |-> "idle"]
  /\ outcome = "running"

-----------------------------------------------------------------------------
\* A second of real time.
Tick ==
  /\ real < MaxReal /\ now < MaxNow
  /\ real' = real + 1
  /\ now' = IF frozen THEN now ELSE now + 1
  /\ timer' = IF timer > 0 THEN timer - 1 ELSE 0
  /\ UNCHANGED <<frozen, controls, subscribed, pc, outcome, waiting, delivered, call>>

\* notifyChange closes the channel that was handed out.
NotifyChange == subscribed' = IF subscribed = "open" THEN "closed" ELSE subscribed

Control ==
  /\ controls < MaxControls /\ controls' = controls + 1
  /\ NotifyChange
  /\ UNCHANGED <<real, parkVars, waiting, delivered, call>>

\* Advance, forward or back, keeps a frozen clock frozen; SetOffset does not.
Advance == \E t \in 0 .. MaxNow : now' = t /\ Control /\ UNCHANGED frozen
SetOffset == \E t \in 0 .. MaxNow : now' = t /\ frozen' = FALSE /\ Control

\* Freeze and Unfreeze, neither of which moves the time.
Freeze == ~frozen /\ frozen' = TRUE /\ Control /\ UNCHANGED now
Unfreeze == frozen /\ frozen' = FALSE /\ Control /\ UNCHANGED now

-----------------------------------------------------------------------------
\* The token leaves the map with the activity, however it ends.
End(how) ==
  /\ outcome' = how /\ pc' = "ended"
  /\ waiting' = FALSE

\* httpActivity returned; a call that fails fails the activity.
Called ==
  /\ pc = "calling"
  /\ \/ pc' = "subscribe" /\ UNCHANGED <<outcome, waiting>>
     \/ End("callFailed")
  /\ UNCHANGED <<clockVars, subscribed, timer, delivered, call>>

\* Mutant: the clock is read before its changes are subscribed to.
ReadFirst ==
  /\ \/ /\ pc = "subscribe" /\ now >= Deadline
        /\ End("timeout") /\ UNCHANGED <<timer, subscribed>>
     \/ /\ pc = "subscribe" /\ now < Deadline
        /\ pc' = "read" /\ timer' = Deadline - now /\ UNCHANGED <<outcome, waiting, subscribed>>
     \/ /\ pc = "read" /\ subscribed' = "open"
        /\ pc' = "select" /\ UNCHANGED <<outcome, waiting, timer>>
  /\ UNCHANGED <<clockVars, delivered, call>>

\* The change is subscribed to before the clock is read.
Subscribe ==
  /\ pc = "subscribe"
  /\ subscribed' = "open" /\ pc' = "read"
  /\ UNCHANGED <<clockVars, timer, outcome, waiting, delivered, call>>

Read ==
  /\ pc = "read"
  /\ IF now >= Deadline
     THEN End("timeout") /\ UNCHANGED timer
     ELSE pc' = "select" /\ timer' = Deadline - now /\ UNCHANGED <<outcome, waiting>>
  /\ UNCHANGED <<clockVars, subscribed, delivered, call>>

\* The select: any of its cases that is ready.
Resume ==
  /\ pc = "select" /\ delivered
  /\ delivered' = FALSE /\ End("callback")
  /\ UNCHANGED <<clockVars, subscribed, timer, call>>
Wake ==
  /\ pc = "select"
  /\ subscribed = "closed" \/ timer = 0
  /\ pc' = "subscribe"
  /\ UNCHANGED <<clockVars, subscribed, timer, outcome, waiting, delivered, call>>

-----------------------------------------------------------------------------
\* webhookCallbackHandler: LoadAndDelete, then the send.
Take(r) ==
  /\ call[r] = "idle"
  /\ call' = [call EXCEPT ![r] = IF waiting THEN "taken" ELSE "refused"]
  /\ waiting' = FALSE
  /\ UNCHANGED <<clockVars, subscribed, parkVars, delivered>>

\* The channel holds one callback; a second send would block.
Deliver(r) ==
  /\ call[r] = "taken" /\ ~delivered
  /\ delivered' = TRUE
  /\ call' = [call EXCEPT ![r] = "accepted"]
  /\ UNCHANGED <<clockVars, subscribed, parkVars, waiting>>

Activity == Called \/ Subscribe \/ Read \/ Resume \/ Wake
Next ==
  \/ Tick \/ Advance \/ SetOffset \/ Freeze \/ Unfreeze
  \/ Activity
  \/ \E r \in Receiver : Take(r) \/ Deliver(r)

Spec == Init /\ [][Next]_vars

\* Goroutines run; time need not pass and nobody has to call.
Fairness == WF_vars(Activity) /\ \A r \in Receiver : WF_vars(Deliver(r))
FairSpec == Spec /\ Fairness

-----------------------------------------------------------------------------
\* "a frozen clock advanced past it MUST expire the park": once the clock
\* stays past the deadline the activity ends, without a second of real time
\* passing; and so it does when a callback was accepted, whatever the clock.
ParkEnds ==
  /\ <>[](now >= Deadline) => <>(outcome # "running")
  /\ \A r \in Receiver : call[r] = "accepted" ~> outcome # "running"

=============================================================================
