--------------------------- MODULE MCServiceTasks ---------------------------
(* ServiceTasks: three requests on a store for two tasks. *)
EXTENDS ServiceTasks, TLC

CONSTANTS t1, t2, t3
=============================================================================
