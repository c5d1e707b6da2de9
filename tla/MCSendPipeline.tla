--------------------------- MODULE MCSendPipeline ---------------------------
(* Instances of SendPipeline for TLC. *)
EXTENDS SendPipeline, TLC

WorkerSymmetry == Permutations(Workers)
=============================================================================
