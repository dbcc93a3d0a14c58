--------------------------- MODULE MCLoadBalancer ---------------------------
(* TLC instances of LoadBalancer.                                          *)
EXTENDS LoadBalancer, TLC

Symmetry == Permutations(Jobs) \cup Permutations(Nodes)

=============================================================================
