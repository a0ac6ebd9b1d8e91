------------------------------ MODULE MCJobRuns ------------------------------
(* Two uses of Jobs side by side: three jobs and no agent, without a restart   *)
(* (admission), or two jobs, an agent and a restart (outcomes).                *)
EXTENDS MCJobs

RunMixes == AdmissionMixes \cup Attached({w @@ (j3 :> Man("Clock")) : w \in OutcomeMixes})

\* j3 is not submitted among the outcomes, nothing restarts under admission.
RunNext == Next /\ IF want[j3].agent THEN pc'[j3] = "idle" ELSE restarts' = 0

RunSpec == Init /\ [][RunNext]_vars
=============================================================================
