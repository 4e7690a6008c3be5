------------------------- MODULE MCRollingOperation -------------------------
(***************************************************************************)
(* RollingOperation for TLC: three nodes, in the order of their names.     *)
(***************************************************************************)
EXTENDS RollingOperation

CONSTANTS n1, n2, n3

MCNodes == {n1, n2, n3}
MCOrder == <<n1, n2, n3>>

=============================================================================
