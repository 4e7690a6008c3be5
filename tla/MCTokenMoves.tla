---------------------------- MODULE MCTokenMoves ----------------------------
(***************************************************************************)
(* Two datacenters: 1 has three founders and two more nodes to add, in two *)
(* racks; 2 has one founder, at a position an even ring of 1 needs.        *)
(***************************************************************************)
EXTENDS TokenMoves

CONSTANTS a1, a2, a3, a4, a5, b1

MCOrder == <<a1, a2, a3, b1, a4, a5>>
MCFounders == {a1, a2, a3, b1}
MCDc == [n \in ToSet(MCOrder) |-> IF n = b1 THEN 2 ELSE 1]
MCRack == [n \in ToSet(MCOrder) |-> IF n \in {a2, a4} THEN 2 ELSE 1]
MCRfs == <<{2}, {1}>>
\* Not created yet; or uneven: 7, 19, 31, 43 and 55 would even five nodes out.
MCRings == {<<>>, a1 :> 7 @@ a2 :> 30 @@ a3 :> 21 @@ b1 :> 43}
MCAdditions == {{a4, a5}}
MCGivens == {<<>>, (a1 :> 5 @@ a4 :> 35)}
MCTargets == {<<>>, (a1 :> 30 @@ a2 :> 45)}
MCModes == {"none", "sequential"}
MCLimits == {ToSet(MCOrder), ToSet(MCOrder) \ {a1}}
=============================================================================
