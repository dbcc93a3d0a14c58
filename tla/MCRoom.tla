------------------------------- MODULE MCRoom -------------------------------
(* Instances of Room for TLC. *)
EXTENDS Room, TLC
CONSTANTS t1, t2, t3, n1, n2, p1, p2, p3, o1, o2, k1

Symmetry == Permutations(Tokens) \cup Permutations(Names) \cup Permutations(Passwords)
                \cup Permutations(Owners)
=============================================================================
