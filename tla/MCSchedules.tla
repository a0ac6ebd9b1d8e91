---------------------------- MODULE MCSchedules ----------------------------
(* Model-checking instance of Schedules.                                     *)
EXTENDS Schedules, TLC

CONSTANTS every, second

\* One configuration due every second, one due once.
Calendar == (every :> 1..Horizon) @@ (second :> {2})

Symmetric == Permutations(Client) \cup Permutations(Schedule)
=============================================================================
