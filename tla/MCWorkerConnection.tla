------------------------- MODULE MCWorkerConnection -------------------------
(* Instances of WorkerConnection for TLC. *)
EXTENDS WorkerConnection, TLC
CONSTANTS c1, c2, c3
=============================================================================
