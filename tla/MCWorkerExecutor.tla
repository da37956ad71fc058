-------------------------- MODULE MCWorkerExecutor --------------------------
(* WorkerExecutor on small instances.                                       *)
EXTENDS WorkerExecutor, TLC

Symmetry == Permutations(Runs)
=============================================================================
