--------------------------- MODULE MCGeneration ---------------------------
(* Instances of Generation for TLC. *)
EXTENDS Generation
=============================================================================
