------------------------------ MODULE MCTunnel ------------------------------
(* Instances of Tunnel for TLC. *)
EXTENDS Tunnel, TLC
CONSTANTS c1, c2, s1, s2

Symmetry == Permutations(Callers) \cup Permutations(Supervisors)
=============================================================================
