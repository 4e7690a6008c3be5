--------------------------- MODULE MCApplyConfig ---------------------------
(* Instances of ApplyConfig for TLC: three nodes in a fixed order.         *)
EXTENDS ApplyConfig

CONSTANTS a, b, c

ThreeNodes == <<a, b, c>>

Cond(s, d, l) == [state |-> s, disk |-> d, loaded |-> l]

(* Running: to restart for its files or for a restart pending, to write, or*)
(* nothing to do; stopped.  A crash before a run makes a failed node, or   *)
(* one in a restart loop; the others follow from these.                    *)
SomeConditions ==
    {Cond("up", "former", FALSE), Cond("up", "perms", TRUE),
     Cond("up", "inventory", FALSE), Cond("up", "inventory", TRUE),
     Cond("stopped", "former", FALSE)}

(* The whole cluster, or all but the first node.                           *)
AnyLimit == {Nodes, Nodes \ {Order[1]}}
=============================================================================
