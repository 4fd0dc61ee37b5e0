--------------------------- MODULE MCTaskDispatch ---------------------------
(* TaskDispatch for TLC: the executors are a and b. *)
EXTENDS TaskDispatch

CONSTANTS a, b
=============================================================================
