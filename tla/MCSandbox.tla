----------------------------- MODULE MCSandbox -----------------------------
(* Sandbox on small instances.  Runs are interchangeable.                   *)
EXTENDS Sandbox, TLC

Symmetry == Permutations(Runs)
=============================================================================
