---------------------------- MODULE TopologyPlan ----------------------------
(***************************************************************************)
(* What the playbook topology decides before it touches anything: where    *)
(* each host stands, which ones to add and to remove, in which order, with *)
(* which seeds, and why not.  Pure operators over what was read:           *)
(*   plugins/filter/cassandra_topology.py    the plan, the seed change     *)
(*   plugins/filter/cassandra_health.py      where a decommission stands   *)
(*   plugins/filter/cassandra_node_reset.py  whether data may be wiped     *)
(*   plugins/filter/cassandra_replication.py the replicas a removal leaves *)
(*   tasks/new_node_state.yml                where a host to add stands    *)
(*                                                                         *)
(* A reading is a function host -> record:                                 *)
(*   absent    marked cassandra_node_state: absent                         *)
(*   reachable Ansible reaches it (a host not absent always is: preflight) *)
(*   code      "UN", "UJ", "DN"... in the ring, "absent" when not in it    *)
(*   mode      its nodetool netstats mode, "off" when JMX refuses          *)
(*   data      "none", "partial" (a bootstrap not over) or "member"        *)
(*   mark      the file that says add_node started a bootstrap there       *)
(*   file      the seeds of its cassandra.yaml                             *)
(* Several tokens a node, one address a host, no ring node outside the     *)
(* inventory: the plan's problems about these are left out.                *)
(***************************************************************************)
EXTENDS Naturals, Sequences, FiniteSets, FiniteSetsExt, SequencesExt

CONSTANTS Group,  \* the hosts of the cluster's group, in the inventory's order
          Dc,     \* host -> datacenter
          Rack,   \* host -> rack
          Rf      \* datacenter -> replicas of the keyspace placed there

ASSUME GroupAssumption ==
    /\ Group \in Seq(ToSet(Group))
    /\ \A i, j \in 1..Len(Group) : Group[i] = Group[j] => i = j
    /\ \A dc \in DOMAIN Rf : Rf[dc] \in Nat

Hosts == ToSet(Group)
Index == [h \in Hosts |-> CHOOSE i \in 1..Len(Group) : Group[i] = h]

(* The hosts of a set, in the inventory's order.                           *)
InOrder == [hosts \in SUBSET Hosts |->
    CHOOSE s \in [1..Cardinality(hosts) -> hosts] :
        \A i, j \in 1..Cardinality(hosts) : i < j => Index[s[i]] < Index[s[j]]]

InRing(r, h) == r[h].code # "absent"
Down(r, h) == r[h].code \in {"DN", "DJ"}
Present(r) == {h \in Hosts : ~r[h].absent}
Up(r) == {h \in Hosts : r[h].code = "UN"}

(* Where a node to remove stands (its own mode, the ring of a node that    *)
(* stays): "failed" is an operator's job.                                  *)
LeavingState(r, h) ==
    CASE r[h].mode = "LEAVING" -> "leaving"
      [] r[h].mode = "DECOMMISSIONED" /\ ~InRing(r, h) -> "decommissioned"
      [] r[h].mode = "DECOMMISSIONED" /\ InRing(r, h) -> "failed"
      [] r[h].mode = "DECOMMISSION_FAILED" -> "failed"
      [] /\ r[h].mode = "off" /\ ~InRing(r, h)
         /\ \A other \in Hosts : ~Down(r, other) -> "decommissioned"
      [] OTHER -> "normal"

(* Where a host to add stands.  Anything else than new, joining and joined *)
(* is refused.                                                             *)
NewNodeState(r, h) ==
    CASE ~InRing(r, h) -> "new"
      [] r[h].code = "UN" /\ r[h].data # "none" /\ r[h].mode # "off" -> "joined"
      [] r[h].code = "UJ" /\ r[h].data # "none" /\ r[h].mode # "off" -> "joining"
      [] r[h].code = "DN" /\ r[h].data = "none" -> "replace"
      [] r[h].code = "DJ" \/ (r[h].code = "DN" /\ r[h].data # "none") -> "down"
      [] OTHER -> "busy"

(* Why add_node may not wipe the data of a new host (cassandra_cluster_    *)
(* name and keyspaces are this cluster's here): Cassandra runs, no node    *)
(* answers to say it is in no ring, or it is a former member, which only   *)
(* the operator's word (cassandra_add_node_reset=true) lets through.       *)
ResetProblem(r, h, explicit) ==
    /\ r[h].data # "none"
    /\ \/ r[h].mode # "off"
       \/ Up(r) = {}
       \/ ~r[h].mark /\ ~explicit

(* The hosts to add: present and not in the ring as members.               *)
Joining(r) == {h \in Present(r) : NewNodeState(r, h) = "joining"}
New(r) == {h \in Present(r) : NewNodeState(r, h) = "new"}

PresentProblem(r, h, explicit) ==
    \/ r[h].code = "DJ"   \* a candidate new_node_state.yml refuses
    \/ h \in New(r) /\ ResetProblem(r, h, explicit)

(* One host marked absent falls in one class.                              *)
AbsentClass(r, h, seeds) ==
    LET state == IF r[h].mode = "off" THEN "off" ELSE LeavingState(r, h)
        problem ==
            IF ~r[h].reachable THEN InRing(r, h)
            ELSE \/ state = "failed"
                 \/ Down(r, h)
                 \/ InRing(r, h) /\ h \in seeds
                 \/ r[h].code \in {"UJ", "UM"}
                 \/ ~InRing(r, h) /\ state \notin {"off", "decommissioned", "leaving"}
    IN IF problem THEN "problem"
       ELSE IF ~r[h].reachable THEN "silent"
       ELSE IF ~InRing(r, h)
       THEN IF state = "off" THEN "gone" ELSE "finish"
       ELSE IF state = "leaving" \/ r[h].code = "UL" THEN "leaving" ELSE "normal"

OfClass(r, seeds, class) ==
    {h \in Hosts : r[h].absent /\ AbsentClass(r, h, seeds) = class}

(***************************************************************************)
(* The seeds: a datacenter that keeps nodes but would be left with no seed *)
(* gets seeds of its own, picked by the seed rule, applied live.           *)
(***************************************************************************)
(* The nodes that may be made seeds: up and normal, staying.               *)
Eligible(r, adding, dc) ==
    {h \in Present(r) : Dc[h] = dc /\ r[h].code = "UN" /\ h \notin adding}

(* The nodes picked, one rack after the other: the racks that hold a seed  *)
(* first, and in each rack its seeds first.                                *)
SeedPick(nodes, old, target) ==
    LET seated(rack) == \E h \in nodes : Rack[h] = rack /\ h \in old
        first(rack) == Min({Index[h] : h \in {g \in nodes : Rack[g] = rack}})
        racks == {Rack[h] : h \in nodes}
        turn(h) == Cardinality({x \in racks :
            \/ seated(x) /\ ~seated(Rack[h])
            \/ (seated(x) <=> seated(Rack[h])) /\ first(x) < first(Rack[h])})
        round(h) == Cardinality({g \in nodes : Rack[g] = Rack[h] /\
            (\/ g \in old /\ h \notin old
             \/ (g \in old <=> h \in old) /\ Index[g] < Index[h])})
        key(h) == round(h) * Cardinality(racks) + turn(h)
    IN nodes \cap CHOOSE picked \in SUBSET nodes :
           /\ Cardinality(picked) = Min({target, Cardinality(nodes)})
           /\ \A h \in picked : \A g \in nodes \ picked : key(h) < key(g)

(* The nodes picked for a datacenter: one per rack at least, two or three. *)
Picked(r, adding, old, dc) ==
    LET members == {h \in Present(r) : Dc[h] = dc}
        target == Min({3, Cardinality(members),
                       Max({2, Cardinality({Rack[h] : h \in members})})})
    IN SeedPick(Eligible(r, adding, dc), old, target)

(* The datacenters that keep nodes, and would lose their last seed.        *)
BareDcs(r, old, wanted) ==
    {dc \in {Dc[h] : h \in old \ wanted} :
        /\ \E h \in Present(r) : Dc[h] = dc
        /\ \A h \in Present(r) : Dc[h] = dc => h \notin wanted}

NewSeeds(r, adding, old, wanted) ==
    wanted \cup UNION {Picked(r, adding, old, dc) : dc \in BareDcs(r, old, wanted)}

(* What the change of seeds comes to.  A list a host to add has of its own *)
(* (a package's) is none the cluster runs with.                            *)
SeedChange(r, adding, wanted) ==
    LET listed(h) == IF h \in adding THEN {} ELSE r[h].file
        old == UNION {listed(h) : h \in Present(r)}
        new == NewSeeds(r, adding, old, wanted)
        differ == {h \in Present(r) : listed(h) # {} /\ listed(h) # new}
    IN [new |-> new,
        step |-> old # new \/ differ # {},
        problem |-> \/ wanted = {}
                    \/ \E dc \in BareDcs(r, old, wanted) : Picked(r, adding, old, dc) = {}]

(* Mutant: the nodes kept are counted before the removals.                 *)
NodesLeftBefore(r, dc) == Cardinality({h \in Hosts : Dc[h] = dc})

(* The nodes each datacenter keeps, the ones to add included.              *)
NodesLeft(r, dc) == Cardinality({h \in Present(r) : Dc[h] = dc})

ReplicationProblem(r) == \E dc \in DOMAIN Rf : Rf[dc] > NodesLeft(r, dc)

(* The preflight, before anything: every seed asked for is up, or a host   *)
(* this run adds.                                                          *)
SeedsUp(r, seeds) ==
    \A h \in seeds : \/ r[h].code \in {"UN", "UM"}
                     \/ h \in Present(r) /\ r[h].code \in {"absent", "UJ", "DJ"}

NothingPlan == [add |-> <<>>, new |-> {}, remove |-> <<>>, inRing |-> {},
                seeds |-> {}, seedStep |-> FALSE, explicit |-> FALSE,
                problem |-> FALSE]

(* A bootstrap or a decommission an earlier run started comes first of its *)
(* kind; of the hosts to remove, the ones out of the ring already are only *)
(* stopped.                                                                *)
ToAdd(r) == InOrder[Joining(r)] \o InOrder[New(r)]
ToRemove(r, seeds) ==
    InOrder[OfClass(r, seeds, "leaving")] \o InOrder[OfClass(r, seeds, "finish")]
    \o InOrder[OfClass(r, seeds, "normal")]

Plan(r, seeds, explicit) ==
    LET leaving == OfClass(r, seeds, "leaving")
        normal == OfClass(r, seeds, "normal")
        change == SeedChange(r, New(r), seeds)
    IN [add |-> ToAdd(r),
        new |-> New(r),
        remove |-> ToRemove(r, seeds),
        inRing |-> leaving \cup normal,
        seeds |-> change.new,
        seedStep |-> change.step,
        explicit |-> explicit,
        problem |-> \/ Up(r) = {}
                    \/ Present(r) = {}
                    \/ OfClass(r, seeds, "problem") # {}
                    \/ \E h \in Present(r) : PresentProblem(r, h, explicit)
                    \/ leaving # {} /\ (Joining(r) \cup New(r)) # {}
                    \/ change.step /\ change.problem
                    \/ leaving \cup normal # {} /\ ReplicationProblem(r)]

Todo(plan) == Len(plan.add) + Len(plan.remove) > 0 \/ plan.seedStep

(* Mutant: a new node joins with the seeds asked for, itself one of them.  *)
JoinSeedsAsked(r, seeds) == seeds

(* The seeds a host not in the ring yet joins with: the wanted ones that   *)
(* are members, else nodes that are up.                                    *)
JoinSeeds(r, seeds) ==
    LET members == {h \in Hosts : InRing(r, h) /\ r[h].code \notin {"UJ", "DJ"}}
        pending == Present(r) \ members
        kept == seeds \ pending
        up == InOrder[Up(r)]
    IN IF kept # {} THEN kept ELSE ToSet(SubSeq(up, 1, Min({2, Len(up)})))

=============================================================================
