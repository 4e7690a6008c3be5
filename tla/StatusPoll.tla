----------------------------- MODULE StatusPoll -----------------------------
(***************************************************************************)
(* The read of the ring a health check makes on one node:                  *)
(* plugins/modules/cassandra_status.py polls nodetool status until no node *)
(* is down, while the ring changes and nodetool fails at times; what it    *)
(* returns is judged by cassandra_health_findings (ClusterHealth).         *)
(***************************************************************************)
EXTENDS Naturals, ClusterHealth

CONSTANTS
    Addresses,      \* the nodes of the ring
    NodeCodes,      \* bound: the status and state codes they go through
    Poll,           \* the option poll
    DownExpected    \* cassandra_service_health_down_ok

PollAssumption == Poll \in Nat \ {0} /\ NodeCodes \subseteq Codes

VARIABLES
    ring,           \* address -> code, what nodetool status would print now
    iterations,
    clusterStatus,  \* the ring last parsed, NoRing before (cluster_status)
    rc,             \* return_codes[-1]: "none", "ok", "failed"
    pc              \* "poll", "sleep", "done"

vars == <<ring, iterations, clusterStatus, rc, pc>>

NoRing == <<>>

TypeOK ==
    /\ ring \in [Addresses -> NodeCodes]
    /\ iterations \in 0 .. Poll
    /\ clusterStatus \in [Addresses -> NodeCodes] \cup {NoRing}
    /\ rc \in {"none", "ok", "failed"}
    /\ pc \in {"poll", "sleep", "done"}

Init ==
    /\ ring \in [Addresses -> NodeCodes]
    /\ iterations = 0
    /\ clusterStatus = NoRing
    /\ rc = "none"
    /\ pc = "poll"

(* External: a node goes down, comes back, joins...                        *)
RingChanges ==
    /\ \E a \in Addresses, c \in NodeCodes : ring' = [ring EXCEPT ![a] = c]
    /\ UNCHANGED <<iterations, clusterStatus, rc, pc>>

(* down_running_total > 0                                                  *)
SomeDown(r) == \E a \in DOMAIN r : r[a] \in DownCodes

(* Mutant: no break when no node is down.                                  *)
AnsweredPollsOn ==
    /\ pc = "poll"
    /\ iterations' = iterations + 1
    /\ rc' = "ok"
    /\ clusterStatus' = ring
    /\ pc' = IF iterations' = Poll THEN "done" ELSE "sleep"
    /\ UNCHANGED ring

(* nodetool status answers: no down node, or the last read.                *)
Answered ==
    /\ pc = "poll"
    /\ iterations' = iterations + 1
    /\ rc' = "ok"
    /\ clusterStatus' = ring
    /\ pc' = IF ~SomeDown(ring) \/ iterations' = Poll THEN "done" ELSE "sleep"
    /\ UNCHANGED ring

(* It fails: what an earlier poll read stays.                              *)
Failed ==
    /\ pc = "poll"
    /\ iterations' = iterations + 1
    /\ rc' = "failed"
    /\ pc' = IF iterations' = Poll THEN "done" ELSE "sleep"
    /\ UNCHANGED <<ring, clusterStatus>>

(* The first nodetool call asks for the version (NodeToolCmd): the module  *)
(* fails there without polling.                                            *)
VersionFails ==
    /\ pc = "poll"
    /\ iterations = 0
    /\ rc' = "failed"
    /\ pc' = "done"
    /\ UNCHANGED <<ring, iterations, clusterStatus>>

Sleeps ==
    /\ pc = "sleep"
    /\ pc' = "poll"
    /\ UNCHANGED <<ring, iterations, clusterStatus, rc>>

Next == RingChanges \/ Answered \/ Failed \/ VersionFails \/ Sleeps

Spec == Init /\ [][Next]_vars

-----------------------------------------------------------------------------
View == [from |-> "node", answered |-> clusterStatus # NoRing, ring |-> clusterStatus]

Findings == ViewFindings(View, Cardinality(Addresses), [NoneExpected EXCEPT !.down = DownExpected])

(* "cassandra_status sets cluster_status to None when nodetool itself      *)
(* fails" (test_cassandra_health.py): a read is found healthy only when    *)
(* nodetool answered its last poll, never on a ring read before that.      *)
HealthyWhenAnswered == pc = "done" /\ Findings = {} => rc = "ok"

=============================================================================
