------------------------------ MODULE MCFlowBus ------------------------------
(* Model-checking instance of FlowBus: one consumer, which narrows the stream *)
(* or takes all of it. Consumers share nothing but the bus mutex and the      *)
(* dispatcher, whose offers never block.                                      *)
EXTENDS FlowBus, TLC

CONSTANTS consumer

Narrowed == (consumer :> {"table", "job"})
Everything == (consumer :> Kind)
=============================================================================
