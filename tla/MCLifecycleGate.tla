-------------------------- MODULE MCLifecycleGate --------------------------
(* Small instances of LifecycleGate. *)
EXTENDS LifecycleGate, TLC

(* Not used with the liveness property. *)
Symmetry == Permutations(Readers) \cup Permutations(Writers)
=============================================================================
