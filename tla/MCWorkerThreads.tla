--------------------------- MODULE MCWorkerThreads ---------------------------
(* A worker that is asked for three exports with room for two.             *)
EXTENDS WorkerThreads
=============================================================================
