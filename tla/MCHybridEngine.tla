--------------------------- MODULE MCHybridEngine ---------------------------
(* Configurations of HybridEngine for TLC. *)
EXTENDS HybridEngine

MCConfigs ==
  [free : {TRUE}, offload_param : BOOLEAN, offload_optimizer : BOOLEAN,
   sleep_level : {1, 2}, dummy : BOOLEAN, start : {0, 5}]

(* The engine's memory is not freed. *)
MCKeepsCache ==
  {[free |-> FALSE, offload_param |-> FALSE, offload_optimizer |-> FALSE,
    sleep_level |-> 2, dummy |-> FALSE, start |-> 0]}
=============================================================================
