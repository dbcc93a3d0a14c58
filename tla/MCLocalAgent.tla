---------------------------- MODULE MCLocalAgent ----------------------------
(* Instances of LocalAgent for TLC. *)
EXTENDS LocalAgent, TLC
CONSTANTS t1, n1, p1, p2, p3, o1, c1, a1, a2

Symmetry == Permutations(Passwords) \cup Permutations(Agents)
=============================================================================
