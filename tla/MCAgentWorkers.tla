--------------------------- MODULE MCAgentWorkers ---------------------------
(* Values of the constants of AgentWorkers for TLC: two trajectories       *)
(* share the first worker, the third is alone on the second.               *)
EXTENDS AgentWorkers

CONSTANTS w1, w2, t1, t2, t3

MCHome == [t \in Trajectories |-> IF t = t3 THEN w2 ELSE w1]
=============================================================================
