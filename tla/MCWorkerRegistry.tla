-------------------------- MODULE MCWorkerRegistry --------------------------
(* Four worker processes, a registry with room for two, one dispatcher.    *)
EXTENDS WorkerRegistry, TLC

Symmetric == Permutations(Workers)
=============================================================================
