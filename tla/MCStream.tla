------------------------------ MODULE MCStream ------------------------------
(* Instances of ChatStream for TLC. *)
EXTENDS ChatStream
=============================================================================
