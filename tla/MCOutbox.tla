------------------------------ MODULE MCOutbox ------------------------------
(* Instances of Outbox for TLC, in two schedulers and one or two deliveries. *)
EXTENDS Outbox
=============================================================================
