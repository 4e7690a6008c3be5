--------------------------- MODULE MCNodeChanges ---------------------------
(* Three hosts: a alone in the first datacenter, b and c in the second.    *)
EXTENDS NodeChanges

CONSTANTS a, b, c

MCGroup == <<a, b, c>>
MCDc == [h \in {a, b, c} |-> IF h = a THEN "dc1" ELSE "dc2"]
MCRack == [h \in {a, b, c} |-> "rack1"]
MCRf == [dc2 |-> 1]
MCFounders == {a, b}
MCSeedLists == {{a, b}, {a}, {a, c}}
=============================================================================
