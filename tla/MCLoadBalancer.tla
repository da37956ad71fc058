--------------------------- MODULE MCLoadBalancer ---------------------------
(* LoadBalancer on small instances.  Calls and boxes are interchangeable.   *)
EXTENDS LoadBalancer, TLC

OneWay == {<<1, 2>>}
BothClosed == {{<<1, 2>>, <<0, 1>>}}
Symmetry == Permutations(Calls) \cup Permutations(Boxes)
=============================================================================
