------------------------------ MODULE MCPlanning ------------------------------
(* Two leads, two emails, chunks of one lead, two workers.                  *)
EXTENDS Planning
=============================================================================
