--------------------------- MODULE MCProcManager ---------------------------
(* Model-checking instance of ProcManager: two processes for one place and  *)
(* two concurrent calls, so that kills, a shutdown and two calls of Exec    *)
(* race.  Without symmetry, which liveness does not allow.                  *)
EXTENDS ProcManager
=============================================================================
