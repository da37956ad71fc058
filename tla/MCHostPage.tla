----------------------------- MODULE MCHostPage -----------------------------
(* HostPage on small instances.                                             *)
EXTENDS HostPage

CONSTANTS a1, a2, b1, c1

NearBounds == -2..2
ThreePhases == <<{a1, a2}, {b1}, {c1}>>
=============================================================================
