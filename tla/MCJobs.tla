------------------------------- MODULE MCJobs -------------------------------
(* Model-checking instance of Jobs: two or three jobs, up to two concurrent  *)
(* drains, a capacity with a single slot and one without a ceiling.          *)
EXTENDS Jobs, TLC

CONSTANTS j1, j2, j3, small, open

OneSlot == (small :> 1) @@ (open :> 0)

Req(kind, invoke, cap, fault) ==
  [kind |-> kind, invoke |-> invoke, capacity |-> cap, fault |-> fault, agent |-> FALSE]
Bg(kind) == Req(kind, "Background", small, FALSE)
Man(kind) == Req(kind, "Manual", small, FALSE)
Faulty(kind) == Req(kind, "Background", small, TRUE)

Pair(a, b) == (j1 :> a) @@ (j2 :> b)
Mix(a, b, c) == (j1 :> a) @@ (j2 :> b) @@ (j3 :> c)

\* The same with a Spark agent attached.
Attached(mixes) == {[j \in DOMAIN w |-> [w[j] EXCEPT !.agent = TRUE]] : w \in mixes}

\* Three jobs contending for one slot: admission, refusal, queueing and two
\* drains at work on the same snapshot. No agent: a notebook waits for a callback.
AdmissionMixes == {
  Mix(Bg("Pipeline"), Bg("Pipeline"), Man("Clock")),
  Mix(Faulty("Pipeline"), Bg("Clock"), Req("Clock", "Manual", open, TRUE)),
  Mix(Man("Pipeline"), Bg("Refused"), Man("Dataflow")),
  Mix(Man("Notebook"), Bg("Pipeline"), Bg("Clock"))
}

\* Two jobs each, so that restarts and callbacks can be afforded as well: every
\* engine kind on the direct and on the queued path, with and without a fault.
OutcomeMixes == {
  Pair(Bg("Notebook"), Bg("Dataflow")),
  Pair(Faulty("Notebook"), Bg("Refused")),
  Pair(Faulty("Pipeline"), Bg("Notebook")),
  Pair(Man("Refused"), Bg("Pipeline"))
}

DrainerSymmetry == Permutations(Drainer)

\* The smallest instances of two disagreements with what the sources say.
FIFOMixes == Attached({Mix(Bg("Pipeline"), Bg("Pipeline"), Bg("Pipeline"))})
CancelMixes == Attached({Pair(Bg("Notebook"), Man("Clock"))})
=============================================================================
