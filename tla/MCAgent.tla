------------------------------- MODULE MCAgent -------------------------------
(* Instances of Agent for TLC. *)
EXTENDS Agent
CONSTANTS m1, m2
=============================================================================
