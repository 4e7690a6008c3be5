--------------------------- MODULE ClusterHealth ---------------------------
(***************************************************************************)
(* The cluster health check every operation makes before and after it      *)
(* touches a node: plugins/filter/cassandra_health.py                      *)
(* (cassandra_health_findings), fed by roles/cassandra_service/tasks/      *)
(* cluster_health.yml.  Pure operators: the modules that operate on nodes  *)
(* apply them to the rings their own nodes show.                           *)
(*                                                                         *)
(* A view is what nodetool status said on one node:                        *)
(*   from      the node asked                                              *)
(*   answered  whether the result holds a ring (cluster_status)            *)
(*   ring      address -> status and state code ("UN", "DN", "UJ", ...)    *)
(* The addresses an operation expects not to be UN are a record            *)
(* [down, joining, leaving] of sets (down_ok, joining_ok, leaving_ok).     *)
(***************************************************************************)
EXTENDS FiniteSets

DownCodes == {"DN", "DJ", "DL", "DM"}
Codes == {"UN", "UJ", "UL", "UM", "US"} \cup DownCodes

NoneExpected == [down |-> {}, joining |-> {}, leaving |-> {}]

(* Mutant: a down node passes wherever one is expected down.               *)
ToleratedAnyDown(address, code, ok) ==
    \/ code \in DownCodes /\ ok.down # {}
    \/ code = "UJ" /\ address \in ok.joining
    \/ code = "UL" /\ address \in ok.leaving

(* The three "continue"s of the loop over a ring's nodes.                  *)
Tolerated(address, code, ok) ==
    \/ code \in DownCodes /\ address \in ok.down
    \/ code = "UJ" /\ address \in ok.joining
    \/ code = "UL" /\ address \in ok.leaving

StateFindings(view, ok) ==
    {<<"state", address, view.from>> : address \in
        {a \in DOMAIN view.ring :
            view.ring[a] # "UN" /\ ~Tolerated(a, view.ring[a], ok)}}

CountFinding(view, expected) ==
    {<<"count", view.from>> : x \in
        {y \in {view.from} : Cardinality(DOMAIN view.ring) # expected}}

(* Mutant: the states of the nodes of a ring are not looked at.            *)
ViewFindingsCountOnly(view, expected, ok) ==
    IF view.answered THEN CountFinding(view, expected) ELSE {<<"nodetool", view.from>>}

(* A result without a ring is one finding and hides every other.           *)
ViewFindings(view, expected, ok) ==
    IF view.answered
    THEN StateFindings(view, ok) \cup CountFinding(view, expected)
    ELSE {<<"nodetool", view.from>>}

(* The checks made on the node itself (gossip, native transport, streams,  *)
(* ports).  checks maps the name of a check to "ok", "bad" or "unasked": a *)
(* check nodetool could not be asked is not said twice when nodetool       *)
(* status failed there too.                                                *)
NodeFindings(node, checks, answered) ==
    {<<c, node>> : c \in {d \in DOMAIN checks :
        checks[d] = "bad" \/ (checks[d] = "unasked" /\ answered)}}

=============================================================================
