--------------------------- MODULE OneNodeAtATime ---------------------------
(***************************************************************************)
(* What a rolling operation promises (the headers of rolling_restart.yml   *)
(* and rolling_reboot.yml, and the progress file's in progress.yml): nodes *)
(* are taken down one at a time, and a node is counted done only once it   *)
(* was restarted and is back.  RollingOperation implements it.             *)
(*                                                                         *)
(* The one hole in "one at a time" is an action of its own (Overlook): the *)
(* node asked about the cluster is one of those out.                       *)
(***************************************************************************)
CONSTANTS
    Nodes,
    Overlooks   \* a node that is out may be the one asked, and show itself up

VARIABLES
    out,     \* nodes taken down and not back yet
    unseen,  \* those of them the last look went past
    served,  \* nodes restarted since the operation was last started afresh
    done     \* nodes it counts as done

vars == <<out, unseen, served, done>>

Init == out = {} /\ unseen = {} /\ served = {} /\ done = {}

(* A look at the cluster for n finds no other node out.                    *)
Look(n) ==
    /\ out \subseteq {n}
    /\ unseen' = {}
    /\ UNCHANGED <<out, served, done>>

(* The node asked, another than n, is out itself and hides those out.      *)
Overlook(n) ==
    /\ Overlooks
    /\ \E asked \in out : asked # n
    /\ unseen' = out \ {n}
    /\ UNCHANGED <<out, served, done>>

(* A node is taken down only when none is out that was not overlooked.     *)
TakeOut(n) ==
    /\ out \subseteq unseen
    /\ out' = out \cup {n}
    /\ UNCHANGED <<unseen, served, done>>

(* A node not done is restarted: the one out, one that runs when none is   *)
(* out, or one that had stopped by itself.                                 *)
Serve(n) ==
    /\ n \notin done
    /\ served' = served \cup {n}
    /\ out' = out \/ (out \subseteq unseen /\ out' = out \cup {n})
    /\ UNCHANGED <<unseen, done>>

ComeBack(n) ==
    /\ n \in out
    /\ out' = out \ {n}
    /\ unseen' = unseen \ {n}
    /\ UNCHANGED <<served, done>>

CountDone(n) ==
    /\ n \in served \ out
    /\ done' = done \cup {n}
    /\ UNCHANGED <<out, unseen, served>>

StartOver ==
    /\ served' = {}
    /\ done' = {}
    /\ UNCHANGED <<out, unseen>>

Next ==
    \/ \E n \in Nodes : \/ Look(n) \/ Overlook(n) \/ TakeOut(n) \/ Serve(n)
                        \/ ComeBack(n) \/ CountDone(n)
    \/ StartOver

Spec == Init /\ [][Next]_vars

=============================================================================
