--------------------------- MODULE MCOrderExecution ---------------------------
(* Instances of OrderExecution for TLC: two tasks that call the engine on  *)
(* the same order.                                                         *)
EXTENDS OrderExecution

CONSTANTS t1, t2
=============================================================================
