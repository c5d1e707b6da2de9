----------------------------- MODULE MCImports -----------------------------
(* Two files of two rows that share an address: one of leads for a list, with *)
(* an invalid row, one of suppressions that names its address twice.        *)
EXTENDS Imports

CONSTANTS leads, blocks, a1, a2, l1

MCRows == [f \in {leads, blocks} |-> IF f = leads THEN <<a1, BAD>> ELSE <<a1, a1>>]
MCKind == [f \in {leads, blocks} |-> IF f = leads THEN "LEADS" ELSE "SUPPRESSION"]
MCTarget == [f \in {leads, blocks} |-> IF f = leads THEN l1 ELSE NONE]
=============================================================================
