------------------------- MODULE NodeChangesProofs -------------------------
(***************************************************************************)
(* What TLAPS proves of the playbook topology, for any group of hosts, any *)
(* datacenters, racks and replication factors, any number of faults, of    *)
(* interrupted runs and of edits of the inventory:                         *)
(*   - the data of a former member are deleted on a stopped node only, on  *)
(*     the operator's word or our own mark, and a node to remove is        *)
(*     stopped once its data have been streamed (DataKept);                *)
(*   - a node added has a member among its seeds and not itself            *)
(*     (JoinsThroughMember);                                               *)
(*   - a node begins to leave when what is left can do without it          *)
(*     (LeavesSafely), also when its job begins after the run stopped.     *)
(***************************************************************************)
EXTENDS NodeChanges, FiniteSetTheorems, TLAPS

NodeStates == {"out", "down", "dead_join", "dead_left", "joining",
               "joining_failed", "normal", "leaving", "decommission_failed",
               "left", "lagging", "decommissioned"}
JobStates == {"none", "launched", "running", "changed", "unchanged", "failed"}

AddSteps == {"add", "mark", "start", "wait_join", "unmark", "added"}
LeaveSteps == {"leave", "job", "wait_leave", "stop", "gone"}
Steps == {"idle", "ended", "reset", "prepare", "write", "reload"}
         \cup AddSteps \cup LeaveSteps

(* The steps of a run before the first removal.                            *)
BeforeLeaves == {"reset", "prepare", "write", "reload"} \cup AddSteps

OutOfRing == {"out", "left", "decommissioned"}

(* Cassandra does not run.                                                 *)
OffStates == {"out", "down", "dead_join", "dead_left"}

(* What a node to remove is once its data have been streamed.              *)
Streamed == OutOfRing \cup {"lagging", "dead_left"}

(* The hosts a datacenter keeps.                                           *)
Kept(dc) == Cardinality({h \in Hosts : ~absent[h] /\ Dc[h] = dc})

TypeOK ==
    /\ absent \in [Hosts -> BOOLEAN]
    /\ seeds \in SUBSET Hosts
    /\ node \in [Hosts -> NodeStates]
    /\ data \in [Hosts -> {"none", "partial", "member"}]
    /\ mark \in [Hosts -> BOOLEAN]
    /\ file \in [Hosts -> SUBSET Hosts]
    /\ live \in [Hosts -> SUBSET Hosts]
    /\ job \in [Hosts -> JobStates]
    /\ pc \in Steps
    /\ plan.add \in Seq(Hosts) /\ plan.remove \in Seq(Hosts)
    /\ plan.new \in SUBSET Hosts /\ plan.inRing \in SUBSET Hosts
    /\ plan.seeds \in SUBSET Hosts
    /\ join \in SUBSET Hosts
    /\ todo \in SUBSET Hosts
    /\ at \in Nat
    /\ pc \in {"reset", "prepare", "write", "reload"} => at = 1
    /\ pc \in AddSteps => at \in 1..Len(plan.add)
    /\ pc \in LeaveSteps => at \in 1..Len(plan.remove)

(* The plan stays true to the inventory as long as the run lasts: a host   *)
(* to remove that the ring still has was planned as such, is no seed, and  *)
(* leaves enough nodes.                                                    *)
PlanInv ==
    pc # "idle" =>
        /\ \A h \in plan.new : ~absent[h]
        /\ \A i \in 1..Len(plan.remove) : absent[plan.remove[i]]
        /\ \A h \in Hosts :
              absent[h] /\ node[h] \notin OutOfRing => h \in plan.inRing
        /\ \A h \in plan.inRing :
              h \notin plan.seeds /\ \E i \in 1..Len(plan.remove) : plan.remove[i] = h
        /\ plan.inRing # {} => \A dc \in DOMAIN Rf : Kept(dc) >= Rf[dc]

(* A job that has not begun is a removal's, and no add waits beside it.    *)
JobInv ==
    \A h \in Hosts : job[h] = "launched" => absent[h] /\ pc \notin BeforeLeaves

(* The hosts add_node has still to reset hold nothing, or what the plan    *)
(* was let to delete.                                                      *)
ResetInv ==
    pc = "reset" =>
        \A h \in todo :
            \/ data[h] = "none" /\ node[h] \in OutOfRing
            \/ node[h] = "out" /\ (plan.explicit \/ mark[h])

(* The seeds new nodes join with are members, and stay members until the   *)
(* last add.                                                               *)
JoinInv ==
    /\ pc \in {"reset", "prepare"} \cup AddSteps =>
          join # {} /\ \A g \in join : Member(g) /\ g \notin plan.new
    /\ pc = "reset" => todo \subseteq plan.new
    /\ pc = "prepare" =>
          todo \subseteq plan.new /\ \A h \in plan.new \ todo : file[h] = join
    /\ pc \in AddSteps => \A h \in plan.new : file[h] = join
    /\ pc \in {"mark", "start"} => plan.add[at] \in plan.new

(* A removal goes on once the node has streamed its data.                  *)
StreamedInv ==
    \A h \in Hosts :
        /\ pc = "wait_leave" /\ h = plan.remove[at] /\ job[h] = "changed"
              => node[h] \in Streamed
        /\ pc = "stop" /\ h = plan.remove[at] => node[h] \in Streamed
        /\ pc = "gone" /\ h = plan.remove[at] => node[h] \in {"out", "dead_left"}
        /\ pc \in LeaveSteps => \A i \in 1..at - 1 :
              h = plan.remove[i] => node[h] \in OutOfRing

(* The new seeds are everywhere before the first removal.                  *)
SeedsInv ==
    \A g \in Hosts : ~absent[g] =>
        /\ (pc = "write" /\ g \notin todo) \/ pc \in {"reload"} \cup LeaveSteps
              => file[g] = plan.seeds
        /\ (pc = "reload" /\ g \notin todo) \/ pc \in LeaveSteps
              => (node[g] \notin OffStates => live[g] = plan.seeds)

(* What is left can do without the node.                                   *)
Spared(h) ==
    /\ \A g \in Hosts : ~absent[g] =>
          Member(g) /\ h \notin file[g] /\ (node[g] \notin OffStates => h \notin live[g])
    /\ Dc[h] \in DOMAIN Rf => Kept(Dc[h]) >= Rf[Dc[h]]

(* It can do without the node of a job that has not begun, and without the *)
(* one the run has looked at.                                              *)
SparedInv ==
    \A h \in Hosts :
        /\ node[h] \notin OutOfRing
        /\ \/ job[h] = "launched"
           \/ pc \in {"job", "wait_leave"} /\ h = plan.remove[at]
        => Spared(h)

IInv == /\ TypeOK /\ PlanInv /\ JobInv /\ ResetInv /\ JoinInv /\ StreamedInv
        /\ SeedsInv /\ SparedInv

-----------------------------------------------------------------------------
(* The group: finite, each host at one place.                              *)

(* The place of a host in the group is one, and its own.                   *)
LEMMA IndexOfHost ==
    /\ Index \in [Hosts -> 1..Len(Group)]
    /\ \A h \in Hosts : Group[Index[h]] = h
<1>1. Len(Group) \in Nat /\ DOMAIN Group = 1..Len(Group)
  BY GroupAssumption
<1>2. ASSUME NEW h \in Hosts
      PROVE  (CHOOSE i \in 1..Len(Group) : Group[i] = h) \in 1..Len(Group)
             /\ Group[CHOOSE i \in 1..Len(Group) : Group[i] = h] = h
  <2>1. \E i \in 1..Len(Group) : Group[i] = h
    BY <1>1 DEF Hosts, ToSet
  <2>. QED BY <2>1
<1>. QED BY <1>2 DEF Index

(* The hosts are finite in number.                                         *)
LEMMA HostsFinite == IsFiniteSet(Hosts)
<1>1. Len(Group) \in Nat
  BY GroupAssumption
<1>2. IsFiniteSet(1..Len(Group))
  BY <1>1, FS_Interval
<1>3. Index \in Injection(Hosts, 1..Len(Group))
  BY IndexOfHost DEF Injection, IsInjective
<1>. QED BY <1>2, <1>3, FS_Injection

(* The rank of a host in a set of hosts, by the inventory's order.         *)
Rank(set) == [h \in set |-> Cardinality({g \in set : Index[g] <= Index[h]})]

(* Ranks go from 1 to the number of the hosts, each taken once, in order.  *)
LEMMA RankIsOrder ==
    ASSUME NEW set \in SUBSET Hosts
    PROVE  /\ Cardinality(set) \in Nat /\ IsFiniteSet(set)
           /\ Rank(set) \in [set -> 1..Cardinality(set)]
           /\ \A g, h \in set : Index[g] < Index[h] => Rank(set)[g] < Rank(set)[h]
           /\ \A i \in 1..Cardinality(set) : \E h \in set : Rank(set)[h] = i
<1> DEFINE upTo(h) == {g \in set : Index[g] <= Index[h]}
           n == Cardinality(set)
<1>1. IsFiniteSet(set) /\ n \in Nat
  BY HostsFinite, FS_Subset, FS_CardinalityType
<1>2. \A g \in set : Index[g] \in Nat
  BY IndexOfHost, GroupAssumption
<1>3. ASSUME NEW h \in set
      PROVE  /\ IsFiniteSet(upTo(h))
             /\ Cardinality(upTo(h)) \in 1..n
  <2>1. upTo(h) \in SUBSET set /\ h \in upTo(h)
    BY <1>2
  <2>2. IsFiniteSet(upTo(h)) /\ Cardinality(upTo(h)) <= n
    BY <1>1, <2>1, FS_Subset
  <2>3. Cardinality(upTo(h)) \in Nat /\ Cardinality(upTo(h)) # 0
    BY <2>1, <2>2, FS_CardinalityType, FS_EmptySet
  <2>. QED BY <2>2, <2>3, <1>1
<1>4. ASSUME NEW g \in set, NEW h \in set, Index[g] < Index[h]
      PROVE  Cardinality(upTo(g)) < Cardinality(upTo(h))
  <2>1. upTo(g) \in SUBSET upTo(h) /\ h \in upTo(h) /\ h \notin upTo(g)
    BY <1>2, <1>4
  <2>2. /\ Cardinality(upTo(g)) <= Cardinality(upTo(h))
        /\ Cardinality(upTo(g)) # Cardinality(upTo(h))
    BY <1>3, <2>1, FS_Subset
  <2>. QED BY <1>3, <2>2
<1>5. Rank(set) \in [set -> 1..n]
  BY <1>3 DEF Rank
<1>6. \A g, h \in set : Index[g] < Index[h] => Rank(set)[g] < Rank(set)[h]
  BY <1>4 DEF Rank
<1>7. ASSUME NEW g \in set, NEW h \in set, Rank(set)[g] = Rank(set)[h]
      PROVE  g = h
  <2>1. Rank(set)[g] \in 1..n
    BY <1>5
  <2>2. Index[g] = Index[h]
    BY <1>2, <1>6, <1>7, <2>1, <1>1
  <2>. QED BY <2>2, IndexOfHost
<1>8. Rank(set) \in Injection(set, 1..n)
  BY <1>5, <1>7 DEF Injection, IsInjective
<1>9. IsFiniteSet(1..n) /\ Cardinality(1..n) = n
  BY <1>1, FS_Interval
<1>10. Rank(set) \in Surjection(set, 1..n)
  BY <1>8, <1>9, FS_Injection
<1>. QED BY <1>1, <1>5, <1>6, <1>10 DEF Surjection

(* InOrder lists the hosts of a set, all of them and no other.             *)
LEMMA InOrderLists ==
    ASSUME NEW set \in SUBSET Hosts
    PROVE  /\ Cardinality(set) \in Nat
           /\ InOrder[set] \in Seq(set)
           /\ Len(InOrder[set]) = Cardinality(set)
           /\ \A h \in set : \E i \in 1..Cardinality(set) : InOrder[set][i] = h
<1> DEFINE n == Cardinality(set)
           ordered(s) == \A i, j \in 1..n : i < j => Index[s[i]] < Index[s[j]]
           byRank == [i \in 1..n |-> CHOOSE h \in set : Rank(set)[h] = i]
<1>1. n \in Nat /\ IsFiniteSet(set)
  BY RankIsOrder
<1>2. \A g \in set : Index[g] \in Nat
  BY IndexOfHost, GroupAssumption
<1>3. \A i \in 1..n : byRank[i] \in set /\ Rank(set)[byRank[i]] = i
  BY RankIsOrder
<1>4. byRank \in [1..n -> set]
  BY <1>3
<1>5. ASSUME NEW i \in 1..n, NEW j \in 1..n, i < j
      PROVE  Index[byRank[i]] < Index[byRank[j]]
  <2>1. byRank[i] \in set /\ byRank[j] \in set
    BY <1>3
  <2>2. byRank[i] # byRank[j]
    BY <1>3, <1>5, <1>1
  <2>3. Index[byRank[i]] # Index[byRank[j]]
    BY <2>1, <2>2, IndexOfHost
  <2>4. ~(Index[byRank[j]] < Index[byRank[i]])
    BY <2>1, <1>3, <1>5, <1>1, RankIsOrder
  <2>. QED BY <2>1, <2>3, <2>4, <1>2
<1>6. \E s \in [1..n -> set] : ordered(s)
  BY <1>4, <1>5
<1>7. InOrder[set] = CHOOSE s \in [1..n -> set] : ordered(s)
  BY DEF InOrder
<1>8. InOrder[set] \in [1..n -> set] /\ ordered(InOrder[set])
  BY <1>6, <1>7
<1>9. InOrder[set] \in Injection(1..n, set)
  <2>1. ASSUME NEW i \in 1..n, NEW j \in 1..n, InOrder[set][i] = InOrder[set][j]
        PROVE  i = j
    <3>1. Index[InOrder[set][i]] \in Nat
      BY <1>2, <1>8
    <3>2. ~(i < j) /\ ~(j < i)
      BY <1>8, <2>1, <3>1
    <3>. QED BY <3>2, <1>1
  <2>. QED BY <1>8, <2>1 DEF Injection, IsInjective
<1>10. InOrder[set] \in Surjection(1..n, set)
  <2>1. Cardinality(1..n) = n
    BY <1>1, FS_Interval
  <2>. QED BY <1>1, <1>9, <2>1, FS_Injection
<1>. QED BY <1>1, <1>8, <1>10 DEF Surjection

-----------------------------------------------------------------------------
(* What a run reads, and what it plans from that.                          *)

(* What the ring and nodetool show of a node, by what it is.               *)
LEMMA WhatANodeShows ==
    \A s \in NodeStates :
        /\ CodeOf[s] = "absent" <=> s \in OutOfRing
        /\ CodeOf[s] = "UN" <=> s = "normal"
        /\ CodeOf[s] # "UM"
        /\ CodeOf[s] = "UL" => s \notin OutOfRing \cup {"dead_left", "normal"}
        /\ CodeOf[s] = "DL" <=> s = "dead_left"
        /\ ModeOf[s] = "off" <=> s \in OffStates
        /\ ModeOf[s] = "DECOMMISSIONED" <=> s \in {"lagging", "decommissioned"}
        /\ ModeOf[s] = "NORMAL" <=> s = "normal"
<1>1. \A s \in NodeStates : CodeOf[s] = "absent" <=> s \in OutOfRing
  BY DEF NodeStates, OutOfRing, CodeOf
<1>2. \A s \in NodeStates : CodeOf[s] = "UN" <=> s = "normal"
  BY DEF NodeStates, CodeOf
<1>3. \A s \in NodeStates : CodeOf[s] # "UM"
  BY DEF NodeStates, CodeOf
<1>4. \A s \in NodeStates :
          CodeOf[s] = "UL" => s \notin OutOfRing \cup {"dead_left", "normal"}
  BY DEF NodeStates, OutOfRing, CodeOf
<1>5. \A s \in NodeStates : CodeOf[s] = "DL" <=> s = "dead_left"
  BY DEF NodeStates, CodeOf
<1>6. \A s \in NodeStates :
          ModeOf[s] = "off" <=> s \in OffStates
  BY DEF NodeStates, OffStates, ModeOf
<1>7. \A s \in NodeStates :
          ModeOf[s] = "DECOMMISSIONED" <=> s \in {"lagging", "decommissioned"}
  BY DEF NodeStates, ModeOf
<1>8. \A s \in NodeStates : ModeOf[s] = "NORMAL" <=> s = "normal"
  BY DEF NodeStates, ModeOf
<1>. QED BY <1>1, <1>2, <1>3, <1>4, <1>5, <1>6, <1>7, <1>8

(* A reading of the hosts, the marks apart.                                *)
IsReading(r) ==
    \A h \in Hosts : /\ r[h].absent = absent[h]
                     /\ r[h].code = CodeOf[node[h]] /\ r[h].mode = ModeOf[node[h]]
                     /\ r[h].data = data[h] /\ r[h].file = file[h]

(* What the health check and the leave check look at.                      *)
LEMMA NowIsReading == IsReading(Now)
BY DEF IsReading, Now, Reading, Mode

(* Who is present, in the ring or up in a reading.                         *)
LEMMA ReadingShows ==
    ASSUME TypeOK, NEW r, IsReading(r)
    PROVE  /\ Present(r) = {h \in Hosts : ~absent[h]}
           /\ \A h \in Hosts : InRing(r, h) <=> node[h] \notin OutOfRing
           /\ Up(r) = {h \in Hosts : node[h] = "normal"}
           /\ \A h \in Hosts : node[h] \in NodeStates
<1>1. \A h \in Hosts : node[h] \in NodeStates
  BY DEF TypeOK
<1>2. Present(r) = {h \in Hosts : ~absent[h]}
  BY DEF Present, IsReading
<1>3. \A h \in Hosts : InRing(r, h) <=> node[h] \notin OutOfRing
  BY <1>1, WhatANodeShows DEF InRing, IsReading
<1>4. Up(r) = {h \in Hosts : node[h] = "normal"}
  BY <1>1, WhatANodeShows DEF Up, IsReading
<1>. QED BY <1>1, <1>2, <1>3, <1>4

(* A host of the inventory to remove that the ring has is planned as such, *)
(* or the run is refused; it is no seed.                                   *)
LEMMA ToRemoveIsPlanned ==
    ASSUME NEW r, NEW list, OfClass(r, list, "problem") = {},
           NEW h \in Hosts, r[h].absent, InRing(r, h)
    PROVE  h \in OfClass(r, list, "leaving") \cup OfClass(r, list, "normal")
<1>1. AbsentClass(r, h, list) # "problem"
  BY DEF OfClass
<1>2. AbsentClass(r, h, list) \in {"leaving", "normal"}
  BY <1>1 DEF AbsentClass
<1>. QED BY <1>2 DEF OfClass

LEMMA ToRemoveIsNoSeed ==
    ASSUME NEW r, NEW list,
           NEW h \in OfClass(r, list, "leaving") \cup OfClass(r, list, "normal")
    PROVE  h \in Hosts /\ r[h].absent /\ h \notin list
<1>1. h \in Hosts /\ r[h].absent /\ AbsentClass(r, h, list) \in {"leaving", "normal"}
  BY DEF OfClass
<1>2. InRing(r, h) /\ ~(InRing(r, h) /\ h \in list)
  BY <1>1 DEF AbsentClass
<1>. QED BY <1>1, <1>2

(* The new list of seeds: the ones asked for, and picked hosts that stay.  *)
LEMMA NewSeedsStay ==
    ASSUME NEW r, NEW adding, NEW wanted \in SUBSET Hosts,
           NEW h \in SeedChange(r, adding, wanted).new
    PROVE  h \in wanted \/ h \in Present(r)
<1>1. ASSUME NEW nodes, NEW old, NEW target
      PROVE  SeedPick(nodes, old, target) \subseteq nodes
  BY DEF SeedPick
<1>2. ASSUME NEW dc PROVE Eligible(r, adding, dc) \subseteq Present(r)
  BY DEF Eligible
<1>3. ASSUME NEW old, NEW dc PROVE Picked(r, adding, old, dc) \subseteq Present(r)
  BY <1>1, <1>2 DEF Picked
<1>4. \E old : h \in NewSeeds(r, adding, old, wanted)
  BY DEF SeedChange
<1>. QED BY <1>3, <1>4 DEF NewSeeds

(* A host planned as new is present and in no ring.                        *)
LEMMA NewIsOutOfRing ==
    ASSUME NEW r, NEW h \in New(r)
    PROVE  h \in Present(r) /\ ~InRing(r, h)
<1>1. h \in Present(r) /\ NewNodeState(r, h) = "new"
  BY DEF New
<1>2. InRing(r, h) => NewNodeState(r, h) # "new"
  BY DEF NewNodeState
<1>. QED BY <1>1, <1>2

(* What each part of a plan is.                                            *)
LEMMA PartsOfPlan ==
    ASSUME NEW r, NEW list, NEW explicit
    PROVE  /\ Plan(r, list, explicit).add = ToAdd(r)
           /\ Plan(r, list, explicit).new = New(r)
           /\ Plan(r, list, explicit).remove = ToRemove(r, list)
           /\ Plan(r, list, explicit).inRing =
                 OfClass(r, list, "leaving") \cup OfClass(r, list, "normal")
           /\ Plan(r, list, explicit).seeds = SeedChange(r, New(r), list).new
           /\ Plan(r, list, explicit).explicit = explicit
           /\ ~Plan(r, list, explicit).problem =>
                 /\ OfClass(r, list, "problem") = {}
                 /\ \A h \in Present(r) : ~PresentProblem(r, h, explicit)
                 /\ OfClass(r, list, "leaving") \cup OfClass(r, list, "normal") # {}
                       => ~ReplicationProblem(r)
BY DEF Plan

(* A list of the elements of a set, all of them and no other.              *)
Lists(s, S) == s \in Seq(S) /\ \A h \in S : \E i \in 1..Len(s) : s[i] = h

(* Two lists one after the other list both sets.                           *)
LEMMA TwoLists ==
    ASSUME NEW S, NEW T, NEW s, NEW t, Lists(s, S), Lists(t, T)
    PROVE  Lists(s \o t, S \cup T)
<1>1. s \in Seq(S \cup T) /\ t \in Seq(S \cup T)
  BY DEF Lists
<1>2. Len(s \o t) = Len(s) + Len(t) /\ Len(s) \in Nat /\ Len(t) \in Nat
  BY <1>1
<1>3. s \o t \in Seq(S \cup T)
  BY <1>1
<1>4. \A i \in 1..Len(s) + Len(t) :
         (s \o t)[i] = IF i <= Len(s) THEN s[i] ELSE t[i - Len(s)]
  BY <1>1
<1>5. ASSUME NEW h \in S PROVE \E i \in 1..Len(s \o t) : (s \o t)[i] = h
  <2>1. PICK j \in 1..Len(s) : s[j] = h
    BY DEF Lists
  <2>2. j \in 1..Len(s \o t) /\ (s \o t)[j] = h
    BY <1>2, <1>4, <2>1
  <2>. QED BY <2>2
<1>6. ASSUME NEW h \in T PROVE \E i \in 1..Len(s \o t) : (s \o t)[i] = h
  <2>1. PICK j \in 1..Len(t) : t[j] = h
    BY DEF Lists
  <2>2. j + Len(s) \in 1..Len(s \o t) /\ (s \o t)[j + Len(s)] = h
    BY <1>2, <1>4, <2>1
  <2>. QED BY <2>2
<1>. QED BY <1>3, <1>5, <1>6 DEF Lists

(* InOrder lists a set of hosts.                                           *)
LEMMA InOrderListsAll ==
    ASSUME NEW set \in SUBSET Hosts
    PROVE  Lists(InOrder[set], set)
BY InOrderLists DEF Lists

(* What a plan that is not refused says of the hosts as they are read.     *)
LEMMA PlanOfReading ==
    ASSUME TypeOK, NEW r, IsReading(r), NEW explicit,
           ~Plan(r, seeds, explicit).problem
    PROVE  LET p == Plan(r, seeds, explicit)
           IN  /\ p.add \in Seq(Hosts) /\ p.remove \in Seq(Hosts)
               /\ p.new \in SUBSET Hosts /\ p.inRing \in SUBSET Hosts
               /\ p.seeds \in SUBSET Hosts /\ p.explicit = explicit
               /\ \A h \in p.new :
                     /\ ~absent[h] /\ node[h] \in OutOfRing
                     /\ \/ data[h] = "none"
                        \/ node[h] = "out" /\ (explicit \/ r[h].mark)
               /\ \A i \in 1..Len(p.remove) : absent[p.remove[i]]
               /\ \A h \in Hosts :
                     absent[h] /\ node[h] \notin OutOfRing => h \in p.inRing
               /\ \A h \in p.inRing :
                     /\ h \notin p.seeds
                     /\ \E i \in 1..Len(p.remove) : p.remove[i] = h
               /\ p.inRing # {} => \A dc \in DOMAIN Rf : NodesLeft(r, dc) >= Rf[dc]
<1> DEFINE p == Plan(r, seeds, explicit)
           leaving == OfClass(r, seeds, "leaving")
           finish == OfClass(r, seeds, "finish")
           normal == OfClass(r, seeds, "normal")
<1>1. /\ p.add = ToAdd(r) /\ p.remove = ToRemove(r, seeds)
      /\ p.new = New(r) /\ p.inRing = leaving \cup normal
      /\ p.seeds = SeedChange(r, New(r), seeds).new /\ p.explicit = explicit
      /\ OfClass(r, seeds, "problem") = {}
      /\ \A h \in Present(r) : ~PresentProblem(r, h, explicit)
      /\ leaving \cup normal # {} => ~ReplicationProblem(r)
  BY PartsOfPlan
<1>2. /\ Joining(r) \in SUBSET Hosts /\ New(r) \in SUBSET Hosts
      /\ \A h \in Present(r) : h \in Hosts /\ ~absent[h]
  BY DEF Joining, New, Present, IsReading
<1>3. /\ leaving \in SUBSET Hosts /\ finish \in SUBSET Hosts /\ normal \in SUBSET Hosts
      /\ \A h \in leaving \cup finish \cup normal : absent[h]
  BY DEF OfClass, IsReading
<1>4. p.add \in Seq(Hosts)
  <2>1. InOrder[Joining(r)] \in Seq(Hosts) /\ InOrder[New(r)] \in Seq(Hosts)
    BY <1>2, InOrderLists
  <2>. QED BY <1>1, <2>1 DEF ToAdd
<1>5. /\ p.remove \in Seq(leaving \cup finish \cup normal)
      /\ \A h \in leaving \cup finish \cup normal :
            \E i \in 1..Len(p.remove) : p.remove[i] = h
  <2>0. p.remove = InOrder[leaving] \o InOrder[finish] \o InOrder[normal]
    BY <1>1, Zenon DEF ToRemove
  <2>1. /\ Lists(InOrder[leaving], leaving) /\ Lists(InOrder[finish], finish)
        /\ Lists(InOrder[normal], normal)
    BY <1>3, InOrderListsAll
  <2> HIDE DEF leaving, finish, normal, p
  <2>2. Lists(InOrder[leaving] \o InOrder[finish], leaving \cup finish)
    BY <2>1, TwoLists
  <2>3. Lists(p.remove, leaving \cup finish \cup normal)
    BY <2>0, <2>1, <2>2, TwoLists
  <2>. QED BY <2>3 DEF Lists
<1>6. p.seeds \in SUBSET Hosts /\ \A h \in p.seeds : h \in seeds \/ ~absent[h]
  <2>1. seeds \in SUBSET Hosts
    BY DEF TypeOK
  <2>2. \A h \in p.seeds : h \in seeds \/ h \in Present(r)
    BY <1>1, <2>1, NewSeedsStay
  <2>. QED BY <1>2, <2>1, <2>2
<1>7. ASSUME NEW h \in p.new
      PROVE  /\ ~absent[h] /\ node[h] \in OutOfRing
             /\ data[h] = "none" \/ (node[h] = "out" /\ (explicit \/ r[h].mark))
  <2>1. h \in Present(r) /\ ~InRing(r, h) /\ h \in Hosts /\ ~absent[h]
    BY <1>1, <1>2, NewIsOutOfRing
  <2>2. node[h] \in OutOfRing /\ node[h] \in NodeStates
    BY <2>1, ReadingShows
  <2>3. ~ResetProblem(r, h, explicit)
    BY <1>1, <2>1 DEF PresentProblem
  <2>4. data[h] = "none" \/ (ModeOf[node[h]] = "off" /\ (r[h].mark \/ explicit))
    BY <2>1, <2>3 DEF ResetProblem, IsReading
  <2>5. ModeOf[node[h]] = "off" => node[h] = "out"
    BY <2>2, WhatANodeShows DEF OutOfRing, OffStates
  <2>. QED BY <2>1, <2>2, <2>4, <2>5
<1>8. ASSUME NEW h \in Hosts, absent[h], node[h] \notin OutOfRing
      PROVE  h \in p.inRing
  <2>1. r[h].absent /\ InRing(r, h)
    BY <1>8, ReadingShows DEF IsReading
  <2>. QED BY <1>1, <2>1, ToRemoveIsPlanned
<1>9. ASSUME NEW h \in p.inRing
      PROVE  h \notin p.seeds
  <2>1. h \notin seeds
    BY <1>1, ToRemoveIsNoSeed
  <2>2. absent[h]
    BY <1>1, <1>3
  <2>. QED BY <1>6, <2>1, <2>2
<1>10. ASSUME p.inRing # {}, NEW dc \in DOMAIN Rf
       PROVE  NodesLeft(r, dc) >= Rf[dc]
  <2>1. ~(Rf[dc] > NodesLeft(r, dc)) /\ Rf[dc] \in Nat
    BY <1>1, <1>10, GroupAssumption DEF ReplicationProblem
  <2>2. NodesLeft(r, dc) \in Nat
    BY HostsFinite, FS_Subset, FS_CardinalityType DEF NodesLeft, Present
  <2>. QED BY <2>1, <2>2
<1>11. p.remove \in Seq(Hosts) /\ \A i \in 1..Len(p.remove) : absent[p.remove[i]]
  BY <1>3, <1>5
<1>12. \A h \in p.inRing : \E i \in 1..Len(p.remove) : p.remove[i] = h
  BY <1>1, <1>5
<1>. QED BY <1>1, <1>2, <1>3, <1>4, <1>6, <1>7, <1>8, <1>9, <1>10, <1>11, <1>12

(* A node joins with members, and with nobody but members.                 *)
LEMMA JoinSeedsAreMembers ==
    ASSUME TypeOK, NEW r, IsReading(r), Up(r) # {}, SeedsUp(r, seeds)
    PROVE  /\ JoinSeeds(r, seeds) # {} /\ JoinSeeds(r, seeds) \subseteq Hosts
           /\ \A g \in JoinSeeds(r, seeds) : node[g] = "normal"
<1> DEFINE members == {h \in Hosts : InRing(r, h) /\ r[h].code \notin {"UJ", "DJ"}}
           pending == Present(r) \ members
           kept == seeds \ pending
           up == InOrder[Up(r)]
           n == Min({2, Len(up)})
<1>1. JoinSeeds(r, seeds) = IF kept # {} THEN kept ELSE ToSet(SubSeq(up, 1, n))
  BY DEF JoinSeeds
<1>2. seeds \subseteq Hosts
  BY DEF TypeOK
<1>3. \A g \in kept : node[g] = "normal"
  <2> TAKE g \in kept
  <2>1. \/ r[g].code \in {"UN", "UM"}
        \/ g \in Present(r) /\ r[g].code \in {"absent", "UJ", "DJ"}
    BY <1>2 DEF SeedsUp
  <2>2. ~(g \in Present(r) /\ r[g].code \in {"absent", "UJ", "DJ"})
    BY DEF InRing
  <2>3. g \in Hosts /\ r[g].code \in {"UN", "UM"} /\ node[g] \in NodeStates
    BY <1>2, <2>1, <2>2, ReadingShows
  <2>. QED BY <2>3, WhatANodeShows DEF IsReading
<1>4. Up(r) \in SUBSET Hosts /\ \A h \in Up(r) : node[h] = "normal"
  BY ReadingShows
<1>5. /\ up \in Seq(Up(r)) /\ Len(up) \in Nat /\ Len(up) # 0
  <2>1. /\ up \in Seq(Up(r)) /\ Len(up) = Cardinality(Up(r))
        /\ \A h \in Up(r) : \E i \in 1..Cardinality(Up(r)) : up[i] = h
        /\ Cardinality(Up(r)) \in Nat
    BY <1>4, InOrderLists
  <2>. QED BY <2>1
<1>6. n \in 1..Len(up)
  <2>1. \E x \in {2, Len(up)} : \A y \in {2, Len(up)} : x =< y
    <3>1. CASE 2 <= Len(up)
      BY <1>5, <3>1
    <3>2. CASE ~(2 <= Len(up))
      BY <1>5, <3>2
    <3>. QED BY <3>1, <3>2
  <2>2. n \in {2, Len(up)} /\ \A y \in {2, Len(up)} : n =< y
    BY <2>1 DEF Min
  <2>. QED BY <2>2, <1>5
<1>7. /\ ToSet(SubSeq(up, 1, n)) # {}
      /\ ToSet(SubSeq(up, 1, n)) \subseteq Up(r)
  <2>1. /\ DOMAIN SubSeq(up, 1, n) = 1..n
        /\ \A i \in 1..n : SubSeq(up, 1, n)[i] = up[i]
    <3> HIDE DEF up, n
    <3>. QED BY <1>5, <1>6
  <2>2. \A i \in 1..n : up[i] \in Up(r)
    <3> HIDE DEF up, n
    <3>. QED BY <1>5, <1>6
  <2>3. 1 \in 1..n
    BY <1>5, <1>6
  <2>. QED BY <2>1, <2>2, <2>3 DEF ToSet
<1>. QED BY <1>1, <1>2, <1>3, <1>4, <1>7

-----------------------------------------------------------------------------
(* The steps.                                                              *)

(* The hosts present, the ones Cassandra runs on, the nodes kept.          *)
LEMMA WhoIsWhat ==
    ASSUME TypeOK
    PROVE  /\ Present(Now) = {h \in Hosts : ~absent[h]}
           /\ \A h \in Hosts : Running(h) <=> node[h] \notin OffStates
           /\ \A dc : NodesLeft(Now, dc) = Kept(dc)
<1>1. \A h \in Hosts : node[h] \in NodeStates
  BY DEF TypeOK
<1>2. Present(Now) = {h \in Hosts : ~absent[h]}
  BY NowIsReading, ReadingShows
<1>3. \A h \in Hosts : Running(h) <=> node[h] \notin OffStates
  BY <1>1, WhatANodeShows DEF Running, Mode
<1>4. ASSUME NEW dc PROVE NodesLeft(Now, dc) = Kept(dc)
  <2>1. {h \in Present(Now) : Dc[h] = dc} = {h \in Hosts : ~absent[h] /\ Dc[h] = dc}
    BY <1>2
  <2>. QED BY <2>1 DEF NodesLeft, Kept
<1>. QED BY <1>2, <1>3, <1>4

(* The hosts of the plan the run is at.                                    *)
LEMMA HostOfStep ==
    ASSUME TypeOK
    PROVE  /\ pc \in AddSteps => plan.add[at] \in Hosts
           /\ pc \in LeaveSteps => plan.remove[at] \in Hosts
BY DEF TypeOK

(* What a launch that is not refused reads, and comes to.                  *)
LEMMA LaunchPlans ==
    ASSUME TypeOK, NEW silent, NEW explicit, Launch(silent, explicit), UNCHANGED run => FALSE
    PROVE  \E r : /\ IsReading(r) /\ Up(r) # {} /\ SeedsUp(r, seeds)
                  /\ mark' = [h \in Hosts |-> r[h].mark]
                  /\ plan' = Plan(r, seeds, explicit) /\ ~plan'.problem
                  /\ join' = JoinSeeds(r, seeds)
                  /\ todo' = plan'.new /\ at' = 1
                  /\ pc' \in {"reset", "ended"}
<1> DEFINE r == AfterPreflight(silent)
           p == Plan(r, seeds, explicit)
<1>1. IsReading(r)
  BY DEF IsReading, AfterPreflight, Reading, Mode
<1>2. PICK read \in {AfterPreflight(silent)} :
          /\ Up(read) # {} /\ SeedsUp(read, seeds)
          /\ mark' = [h \in Hosts |-> read[h].mark]
          /\ \E q \in {Plan(read, seeds, explicit)} :
                IF q.problem THEN UNCHANGED run
                ELSE /\ pc' = IF Todo(q) THEN "reset" ELSE "ended"
                     /\ plan' = q
                     /\ join' = JoinSeeds(read, seeds)
                     /\ todo' = q.new
                     /\ at' = 1
  BY Zenon DEF Launch
<1>3. read = r
  OBVIOUS
<1>4. PICK q \in {p} :
          IF q.problem THEN UNCHANGED run
          ELSE /\ pc' = IF Todo(q) THEN "reset" ELSE "ended"
               /\ plan' = q
               /\ join' = JoinSeeds(r, seeds)
               /\ todo' = q.new
               /\ at' = 1
  BY <1>2, <1>3
<1> HIDE DEF r, p
<1>5. /\ pc' \in {"reset", "ended"} /\ plan' = p /\ ~p.problem
      /\ join' = JoinSeeds(r, seeds) /\ todo' = p.new /\ at' = 1
  BY <1>4
<1>. QED BY <1>1, <1>2, <1>3, <1>5 DEF p

(* The marks a launch leaves are marks.                                    *)
LEMMA LaunchMarks ==
    ASSUME TypeOK, NEW silent, NEW explicit, Launch(silent, explicit)
    PROVE  mark' \in [Hosts -> BOOLEAN]
<1>1. mark' = [h \in Hosts |-> AfterPreflight(silent)[h].mark]
  BY Zenon DEF Launch
<1>2. \A h \in Hosts : AfterPreflight(silent)[h].mark
                          = (mark[h] /\ ~(~absent[h] /\ node[h] = "normal"))
  BY DEF AfterPreflight, Reading
<1>3. \A h \in Hosts : (mark[h] /\ ~(~absent[h] /\ node[h] = "normal")) \in BOOLEAN
  OBVIOUS
<1>. QED BY <1>1, <1>2, <1>3

(* A list with something in it has a first element.                        *)
LEMMA NotEmpty ==
    ASSUME NEW S, NEW s \in Seq(S), s # <<>>
    PROVE  1 \in 1..Len(s)
OBVIOUS

(* What a run that stops leaves: the hosts as they are.                    *)
Stops ==
    /\ Failed
    /\ UNCHANGED <<node, data, mark, file, live, absent, seeds>>
    /\ \A h \in Hosts : job'[h] \in {job[h], "none"}
    /\ job' \in [Hosts -> JobStates]

(* A run that fails leaves the hosts as they are.                          *)
LEMMA FailedStops ==
    ASSUME TypeOK, [Next]_vars, Failed, pc # "idle"
    PROVE  Stops
<1>0. pc' = "idle"
  BY DEF Failed
<1>1. CASE \E h \in Hosts : Bootstrapped(h) \/ Leaves(h) \/ Forgotten(h) \/
         JobRuns(h) \/ Fails(h) \/ Crash(h) \/ Repair(h) \/ EditNodes(h) \/
         StartByHand(h) \/ RemoveDead(h) \/ LeaveByHand(h)
  BY <1>1, <1>0, HostOfStep DEF TypeOK, Stops, LeaveSteps, JobStates, Failed,
     Bootstrapped, Leaves, Forgotten, JobRuns, Fails, JobBroken, Crash,
     Stopped, Repair, EditNodes, Edit, Quiet, StartByHand, RemoveDead,
     LeaveByHand, hosts, inventory, run, bounds
<1>2. CASE \/ ResetOver
         \/ PrepareOver
         \/ MarkBootstrap
         \/ StartNode
         \/ Unmark
         \/ LaunchJob
         \/ StopLeft
  BY <1>2, <1>0, HostOfStep DEF TypeOK, Stops, LeaveSteps, JobStates, Failed,
     ResetOver, ForEach, PrepareOver, AfterAdds, Goto, MarkBootstrap,
     StartNode, Unmark, LaunchJob, StopLeft, Stopped, hosts, inventory, run,
     bounds
<1>3. CASE \E h \in Hosts : Prepare(h) \/ WriteSeeds(h) \/ ReloadSeeds(h)
  BY <1>3, <1>0, HostOfStep DEF TypeOK, Stops, LeaveSteps, JobStates, Failed,
     Prepare, ForEach, WriteSeeds, ReloadSeeds, hosts, inventory, run, bounds
<1>4. CASE \/ \E h \in Hosts : Reset(h)
         \/ AddCheck
         \/ WaitJoin
         \/ AddedCheck
         \/ WaitLeave
         \/ WaitStalls
         \/ LeftCheck
         \/ Close
         \/ Interrupt
  BY <1>4, <1>0, HostOfStep DEF TypeOK, Stops, LeaveSteps, JobStates, Failed, Reset,
     ForEach, AddCheck, Goto, WaitJoin, AddedCheck, AfterAdds, WaitLeave,
     WaitStalls, LeftCheck, Ended, Close, Interrupt, hosts, inventory, run,
     bounds
<1>5. CASE \E silent, explicit : Launch(silent, explicit)
  BY <1>5 DEF Launch, Quiet
<1>6. CASE LeaveCheck
  BY <1>6, <1>0, HostOfStep DEF TypeOK, Stops, LeaveSteps, JobStates, Failed,
     LeaveCheck, Goto, hosts, inventory, run, bounds
<1>7. CASE \E list \in SeedLists : EditSeeds(list)
  BY <1>7, <1>0, HostOfStep DEF TypeOK, Stops, LeaveSteps, JobStates, Failed,
     EditSeeds, Edit, Quiet, hosts, inventory, run, bounds
<1>8. CASE UNCHANGED vars
  BY <1>8, <1>0, HostOfStep DEF TypeOK, Stops, LeaveSteps, JobStates, Failed, vars,
     hosts, inventory, run, bounds
<1>. QED
  BY <1>1, <1>2, <1>3, <1>4, <1>5, <1>6, <1>7, <1>8      DEF Next, Controller,
     LaunchOtherwise, Cassandra

(* Every step keeps the types.                                             *)
LEMMA TypeStep ==
    ASSUME TypeOK, [Next]_vars, ~(pc # "idle" /\ Failed)
    PROVE  TypeOK'
<1>1. CASE \E silent, explicit : Launch(silent, explicit)
  <2> PICK silent, explicit : Launch(silent, explicit)
    BY <1>1
  <2>1. /\ mark' \in [Hosts -> BOOLEAN]
        /\ UNCHANGED <<node, data, file, live, job, absent, seeds>>
    <3>1. UNCHANGED <<node, data, file, live, job, inventory, bounds>>
      BY Zenon DEF Launch
    <3>. QED BY <3>1, LaunchMarks DEF inventory
  <2>2. CASE UNCHANGED run
    BY <2>1, <2>2 DEF TypeOK, run
  <2>3. CASE ~UNCHANGED run
    <3>1. PICK r : /\ IsReading(r) /\ Up(r) # {} /\ SeedsUp(r, seeds)
                   /\ plan' = Plan(r, seeds, explicit) /\ ~plan'.problem
                   /\ join' = JoinSeeds(r, seeds)
                   /\ todo' = plan'.new /\ at' = 1
                   /\ pc' \in {"reset", "ended"}
      BY <2>3, LaunchPlans
    <3>2. /\ plan'.add \in Seq(Hosts) /\ plan'.remove \in Seq(Hosts)
          /\ plan'.new \in SUBSET Hosts /\ plan'.inRing \in SUBSET Hosts
          /\ plan'.seeds \in SUBSET Hosts
      BY <3>1, PlanOfReading
    <3>3. join' \in SUBSET Hosts
      BY <3>1, JoinSeedsAreMembers
    <3>. QED BY <2>1, <3>1, <3>2, <3>3 DEF TypeOK, Steps, AddSteps, LeaveSteps
  <2>. QED BY <2>2, <2>3
<1>2. CASE \E h \in Hosts : Reset(h)
  <2> PICK h \in Hosts : Reset(h)
    BY <1>2
  <2>1. /\ pc = "reset" /\ pc' = "reset" /\ todo' = todo \ {h}
        /\ UNCHANGED <<plan, join, at, node, file, live, job, absent, seeds>>
        /\ \/ UNCHANGED <<data, mark>>
           \/ /\ data' = [data EXCEPT ![h] = "none"]
              /\ mark' = [mark EXCEPT ![h] = FALSE]
    BY DEF Reset, ForEach, hosts, inventory
  <2>. QED BY <2>1 DEF TypeOK, Steps, AddSteps, LeaveSteps
<1>3. CASE \E h \in Hosts : Prepare(h)
  BY <1>3, HostOfStep, WhoIsWhat, NotEmpty, SeedListsAssumption DEF TypeOK,
     Steps, AddSteps, LeaveSteps, NodeStates, JobStates, Prepare, ForEach,
     hosts, inventory, run, bounds
<1>4. CASE \E h \in Hosts : WriteSeeds(h)
  BY <1>4, HostOfStep, WhoIsWhat, NotEmpty, SeedListsAssumption DEF TypeOK,
     Steps, AddSteps, LeaveSteps, NodeStates, JobStates, WriteSeeds, ForEach,
     hosts, inventory, run, bounds
<1>5. CASE \E h \in Hosts : ReloadSeeds(h)
  <2> PICK h \in Hosts : ReloadSeeds(h)
    BY <1>5
  <2>1. live' \in [Hosts -> SUBSET Hosts]
    BY DEF ReloadSeeds, TypeOK
  <2>2. todo' \in SUBSET Hosts /\ pc' \in {"reload", "ended", "leave"}
    BY DEF ReloadSeeds, ForEach, TypeOK
  <2>3. plan.remove = <<>> => pc' # "leave"
    BY DEF ReloadSeeds, ForEach
  <2>4. at = 1 /\ UNCHANGED <<plan, join, at, node, data, mark, file, job, absent, seeds>>
    BY DEF ReloadSeeds, ForEach, TypeOK, inventory
  <2>. QED BY <2>1, <2>2, <2>3, <2>4, NotEmpty DEF TypeOK, Steps, AddSteps, LeaveSteps
<1>6. CASE ResetOver
  BY <1>6, HostOfStep, WhoIsWhat, NotEmpty, SeedListsAssumption DEF TypeOK,
     Steps, AddSteps, LeaveSteps, NodeStates, JobStates, ResetOver, ForEach,
     hosts, inventory, run, bounds
<1>7. CASE PrepareOver
  BY <1>7, HostOfStep, WhoIsWhat, NotEmpty, SeedListsAssumption DEF TypeOK,
     Steps, AddSteps, LeaveSteps, NodeStates, JobStates, PrepareOver,
     AfterAdds, Goto, hosts, inventory, run, bounds
<1>8. CASE AddCheck
  BY <1>8, HostOfStep, WhoIsWhat, NotEmpty, SeedListsAssumption DEF TypeOK,
     Steps, AddSteps, LeaveSteps, NodeStates, JobStates, AddCheck, Goto,
     hosts, inventory, run, bounds
<1>9. CASE MarkBootstrap
  BY <1>9, HostOfStep, WhoIsWhat, NotEmpty, SeedListsAssumption DEF TypeOK,
     Steps, AddSteps, LeaveSteps, NodeStates, JobStates, MarkBootstrap, Goto,
     hosts, inventory, run, bounds
<1>10. CASE StartNode
  BY <1>10, HostOfStep, WhoIsWhat, NotEmpty, SeedListsAssumption DEF TypeOK,
     Steps, AddSteps, LeaveSteps, NodeStates, JobStates, StartNode, Goto,
     hosts, inventory, run, bounds
<1>11. CASE WaitJoin
  BY <1>11, HostOfStep, WhoIsWhat, NotEmpty, SeedListsAssumption DEF TypeOK,
     Steps, AddSteps, LeaveSteps, NodeStates, JobStates, WaitJoin, Goto,
     hosts, inventory, run, bounds
<1>12. CASE Unmark
  BY <1>12, HostOfStep, WhoIsWhat, NotEmpty, SeedListsAssumption DEF TypeOK,
     Steps, AddSteps, LeaveSteps, NodeStates, JobStates, Unmark, Goto, hosts,
     inventory, run, bounds
<1>13. CASE AddedCheck
  BY <1>13, HostOfStep, WhoIsWhat, NotEmpty, SeedListsAssumption DEF TypeOK,
     Steps, AddSteps, LeaveSteps, NodeStates, JobStates, AddedCheck,
     AfterAdds, hosts, inventory, run, bounds
<1>14. CASE LeaveCheck
  BY <1>14, HostOfStep, WhoIsWhat, NotEmpty, SeedListsAssumption DEF TypeOK,
     Steps, AddSteps, LeaveSteps, NodeStates, JobStates, LeaveCheck, Goto,
     hosts, inventory, run, bounds
<1>15. CASE LaunchJob
  BY <1>15, HostOfStep, WhoIsWhat, NotEmpty, SeedListsAssumption DEF TypeOK,
     Steps, AddSteps, LeaveSteps, NodeStates, JobStates, LaunchJob, Goto,
     hosts, inventory, run, bounds
<1>16. CASE WaitLeave
  BY <1>16, HostOfStep, WhoIsWhat, NotEmpty, SeedListsAssumption DEF TypeOK,
     Steps, AddSteps, LeaveSteps, NodeStates, JobStates, WaitLeave, Goto,
     hosts, inventory, run, bounds
<1>17. CASE WaitStalls
  BY <1>17, HostOfStep, WhoIsWhat, NotEmpty, SeedListsAssumption DEF TypeOK,
     Steps, AddSteps, LeaveSteps, NodeStates, JobStates, WaitStalls, hosts,
     inventory, run, bounds
<1>18. CASE StopLeft
  BY <1>18, HostOfStep, WhoIsWhat, NotEmpty, SeedListsAssumption DEF TypeOK,
     Steps, AddSteps, LeaveSteps, NodeStates, JobStates, StopLeft, Goto,
     Stopped, hosts, inventory, run, bounds
<1>19. CASE LeftCheck
  BY <1>19, HostOfStep, WhoIsWhat, NotEmpty, SeedListsAssumption DEF TypeOK,
     Steps, AddSteps, LeaveSteps, NodeStates, JobStates, LeftCheck, Ended,
     Goto, hosts, inventory, run, bounds
<1>20. CASE Close
  BY <1>20, HostOfStep, WhoIsWhat, NotEmpty, SeedListsAssumption DEF TypeOK,
     Steps, AddSteps, LeaveSteps, NodeStates, JobStates, Close, hosts,
     inventory, run, bounds
<1>21. CASE Interrupt
  BY <1>21, HostOfStep, WhoIsWhat, NotEmpty, SeedListsAssumption DEF TypeOK,
     Steps, AddSteps, LeaveSteps, NodeStates, JobStates, Interrupt, hosts,
     inventory, run, bounds
<1>22. CASE \E h \in Hosts : Bootstrapped(h)
  BY <1>22, HostOfStep, WhoIsWhat, NotEmpty, SeedListsAssumption DEF TypeOK,
     Steps, AddSteps, LeaveSteps, NodeStates, JobStates, Bootstrapped, hosts,
     inventory, run, bounds
<1>23. CASE \E h \in Hosts : Leaves(h)
  BY <1>23, HostOfStep, WhoIsWhat, NotEmpty, SeedListsAssumption DEF TypeOK,
     Steps, AddSteps, LeaveSteps, NodeStates, JobStates, Leaves, hosts,
     inventory, run, bounds
<1>24. CASE \E h \in Hosts : Forgotten(h)
  BY <1>24, HostOfStep, WhoIsWhat, NotEmpty, SeedListsAssumption DEF TypeOK,
     Steps, AddSteps, LeaveSteps, NodeStates, JobStates, Forgotten, hosts,
     inventory, run, bounds
<1>25. CASE \E h \in Hosts : JobRuns(h)
  <2>1. PICK h \in Hosts : JobRuns(h)
    BY <1>25
  <2>2. UNCHANGED <<data, mark, file, live, inventory, run, bounds>>
    BY <2>1 DEF JobRuns
  <2>3. node' \in [Hosts -> NodeStates] /\ job' \in [Hosts -> JobStates]
    <3>1. \/ node' = [node EXCEPT ![h] = "leaving"] /\ job' = [job EXCEPT ![h] = "running"]
          \/ job' = [job EXCEPT ![h] = "unchanged"] /\ node' = node
          \/ job' = [job EXCEPT ![h] = "failed"] /\ node' = node
      BY <2>1 DEF JobRuns
    <3> QED
      BY <3>1 DEF TypeOK, NodeStates, JobStates
  <2> QED
    BY <2>2, <2>3 DEF TypeOK, inventory, run, bounds
<1>26. CASE \E h \in Hosts : Fails(h)
  BY <1>26, HostOfStep, WhoIsWhat, NotEmpty, SeedListsAssumption DEF TypeOK,
     Steps, AddSteps, LeaveSteps, NodeStates, JobStates, Fails, JobBroken,
     hosts, inventory, run, bounds
<1>27. CASE \E h \in Hosts : Crash(h)
  BY <1>27, HostOfStep, WhoIsWhat, NotEmpty, SeedListsAssumption DEF TypeOK,
     Steps, AddSteps, LeaveSteps, NodeStates, JobStates, Crash, JobBroken,
     Stopped, hosts, inventory, run, bounds
<1>28. CASE \E h \in Hosts : Repair(h)
  BY <1>28, HostOfStep, WhoIsWhat, NotEmpty, SeedListsAssumption DEF TypeOK,
     Steps, AddSteps, LeaveSteps, NodeStates, JobStates, Repair, hosts,
     inventory, run, bounds
<1>29. CASE \E h \in Hosts : EditNodes(h)
  BY <1>29, HostOfStep, WhoIsWhat, NotEmpty, SeedListsAssumption DEF TypeOK,
     Steps, AddSteps, LeaveSteps, NodeStates, JobStates, EditNodes, Edit,
     Quiet, hosts, inventory, run, bounds
<1>30. CASE \E h \in Hosts : StartByHand(h)
  BY <1>30, HostOfStep, WhoIsWhat, NotEmpty, SeedListsAssumption DEF TypeOK,
     Steps, AddSteps, LeaveSteps, NodeStates, JobStates, StartByHand, Edit,
     Quiet, hosts, inventory, run, bounds
<1>31. CASE \E h \in Hosts : RemoveDead(h)
  BY <1>31, HostOfStep, WhoIsWhat, NotEmpty, SeedListsAssumption DEF TypeOK,
     Steps, AddSteps, LeaveSteps, NodeStates, JobStates, RemoveDead, Edit,
     Quiet, hosts, inventory, run, bounds
<1>32. CASE \E h \in Hosts : LeaveByHand(h)
  BY <1>32, HostOfStep, WhoIsWhat, NotEmpty, SeedListsAssumption DEF TypeOK,
     Steps, AddSteps, LeaveSteps, NodeStates, JobStates, LeaveByHand, hosts,
     inventory, run, bounds
<1>33. CASE \E list \in SeedLists : EditSeeds(list)
  BY <1>33, HostOfStep, WhoIsWhat, NotEmpty, SeedListsAssumption DEF TypeOK,
     Steps, AddSteps, LeaveSteps, NodeStates, JobStates, EditSeeds, Edit,
     Quiet, hosts, inventory, run, bounds
<1>34. CASE UNCHANGED vars
  BY <1>34, HostOfStep, WhoIsWhat, NotEmpty, SeedListsAssumption DEF TypeOK,
     Steps, AddSteps, LeaveSteps, NodeStates, JobStates, vars, hosts,
     inventory, run, bounds
<1>. QED
  BY <1>1, <1>2, <1>3, <1>4, <1>5, <1>6, <1>7, <1>8, <1>9, <1>10, <1>11,
     <1>12, <1>13, <1>14, <1>15, <1>16, <1>17, <1>18, <1>19, <1>20, <1>21,
     <1>22, <1>23, <1>24, <1>25, <1>26, <1>27, <1>28, <1>29, <1>30, <1>31,
     <1>32, <1>33, <1>34      DEF Next, Controller, LaunchOtherwise, Cassandra

(* A run that stops keeps the invariant.                                   *)
LEMMA StopKeeps ==
    ASSUME IInv, Stops
    PROVE  IInv'
<1>1. pc' = "idle" /\ plan' = NothingPlan /\ join' = {} /\ at' = 0 /\ todo' = {}
  BY DEF Stops, Failed
<1>2. TypeOK'
  BY <1>1 DEF IInv, TypeOK, Stops, NothingPlan, Steps, AddSteps, LeaveSteps
<1>3. PlanInv' /\ ResetInv'
  BY <1>1 DEF PlanInv, ResetInv
<1>4. JobInv'
  BY <1>1 DEF IInv, JobInv, Stops, BeforeLeaves, AddSteps
<1>5. JoinInv' /\ StreamedInv' /\ SeedsInv'
  BY <1>1 DEF JoinInv, StreamedInv, SeedsInv, AddSteps, LeaveSteps
<1>6. SparedInv'
  <2>1. \A dc : Kept(dc)' = Kept(dc)
    BY DEF Stops, Kept
  <2>. QED BY <1>1, <2>1 DEF IInv, SparedInv, Spared, Member, Stops
<1>. QED BY <1>2, <1>3, <1>4, <1>5, <1>6 DEF IInv

-----------------------------------------------------------------------------
(* What a step leaves as it was.                                           *)

(* The nodes kept change with the inventory only.                          *)
LEMMA KeptStays ==
    ASSUME absent' = absent
    PROVE  \A dc : Kept(dc)' = Kept(dc)
BY DEF Kept

(* The plan stays true as long as no node to remove comes into the ring.   *)
LEMMA PlanStays ==
    ASSUME PlanInv, pc # "idle", plan' = plan, absent' = absent,
           \A h \in Hosts : absent[h] /\ node'[h] \notin OutOfRing
                                => node[h] \notin OutOfRing
    PROVE  PlanInv'
BY KeptStays DEF PlanInv

(* The files stay, and a running Cassandra has its file's seeds or the     *)
(* ones it had.                                                            *)
SeedsStay(g) ==
    /\ file'[g] = file[g]
    /\ node'[g] \notin OffStates =>
          live'[g] = file[g] \/ (live'[g] = live[g] /\ node[g] \notin OffStates)

(* What is left still can do without a node as long as its members stay    *)
(* members and their seeds stay.                                           *)
LEMMA SparedStays ==
    ASSUME NEW h \in Hosts, Spared(h), absent' = absent,
           \A g \in Hosts : ~absent[g] /\ Member(g) => Member(g)' /\ SeedsStay(g)
    PROVE  Spared(h)'
<1>1. \A g \in Hosts : ~absent[g] =>
         /\ Member(g)' /\ h \notin file'[g]
         /\ node'[g] \notin OffStates => h \notin live'[g]
  BY DEF Spared, SeedsStay
<1>2. Dc[h] \in DOMAIN Rf => Kept(Dc[h])' >= Rf[Dc[h]]
  BY KeptStays DEF Spared
<1>. QED BY <1>1, <1>2 DEF Spared

(* Before the first removal no job waits to begin, and none is looked at.  *)
LEMMA BeforeLeavesStay ==
    ASSUME JobInv, pc \in BeforeLeaves, pc' \in BeforeLeaves, job' = job
    PROVE  JobInv' /\ StreamedInv' /\ SparedInv'
<1>1. pc' \notin LeaveSteps
  BY DEF BeforeLeaves, AddSteps, LeaveSteps
<1>2. \A h \in Hosts : job'[h] # "launched"
  BY DEF JobInv
<1>3. JobInv'
  BY <1>2 DEF JobInv
<1>4. StreamedInv'
  BY <1>1 DEF StreamedInv, LeaveSteps
<1>5. SparedInv'
  BY <1>1, <1>2 DEF SparedInv, LeaveSteps
<1>. QED BY <1>3, <1>4, <1>5

-----------------------------------------------------------------------------
(* What happens to a node by itself or by hand while a run may go on.      *)
HostStep(h) ==
    \/ Cassandra(h) \/ Fails(h) \/ Crash(h) \/ Repair(h) \/ LeaveByHand(h)

(* What it makes of the nodes: none comes back into the ring, a member     *)
(* leaves on a job's or an operator's word, no job is asked for, a job is  *)
(* through when the node has streamed.                                     *)
GoesOn(g) ==
    /\ node[g] \in OutOfRing => node'[g] \in OutOfRing
    /\ node[g] \in Streamed => node'[g] \in Streamed
    /\ node[g] \in {"out", "dead_left"} => node'[g] \in {"out", "dead_left"}
    /\ node[g] = "out" => node'[g] = "out"
    /\ Member(g) =>
          \/ Member(g)'
          \/ /\ node[g] = "normal"
             /\ \/ job[g] = "launched"
                \/ pc \in {"job", "wait_leave"} /\ g = plan.remove[at]
    /\ job'[g] = "launched" => job[g] = "launched"
    /\ job'[g] = "changed" => job[g] = "changed" \/ node'[g] \in Streamed
    /\ SeedsStay(g)
    /\ data'[g] = data[g] \/ node[g] = "joining"

LEMMA HostStepDoes ==
    ASSUME TypeOK, NEW h \in Hosts, HostStep(h)
    PROVE  /\ UNCHANGED <<mark, file, absent, seeds, pc, plan, join, at, todo>>
           /\ \A g \in Hosts : GoesOn(g)
<1> USE DEF TypeOK, NodeStates, JobStates, OutOfRing, Streamed, OffStates, GoesOn,
        SeedsStay, Member, inventory, run
<1>1. CASE Bootstrapped(h)
  BY <1>1 DEF Bootstrapped
<1>2. CASE Leaves(h)
  BY <1>2 DEF Leaves
<1>3. CASE Forgotten(h)
  BY <1>3 DEF Forgotten
<1>4. CASE JobRuns(h)
  BY <1>4, WhatANodeShows DEF JobRuns, Mode
<1>5. CASE Fails(h)
  BY <1>5 DEF Fails, JobBroken
<1>6. CASE Crash(h)
  BY <1>6, WhatANodeShows DEF Crash, JobBroken, Stopped, Running, Mode
<1>7. CASE Repair(h)
  BY <1>7 DEF Repair
<1>8. CASE LeaveByHand(h)
  BY <1>8 DEF LeaveByHand
<1>. QED BY <1>1, <1>2, <1>3, <1>4, <1>5, <1>6, <1>7, <1>8 DEF HostStep, Cassandra

(* None of it takes the invariant away.                                    *)
LEMMA HostStepKeeps ==
    ASSUME IInv, TypeOK', NEW h \in Hosts, HostStep(h)
    PROVE  IInv'
<1>1. /\ UNCHANGED <<mark, file, absent, seeds, pc, plan, join, at, todo>>
      /\ \A g \in Hosts : GoesOn(g)
  BY HostStepDoes DEF IInv
<1>2. PlanInv'
  <2>1. CASE pc = "idle"
    BY <1>1, <2>1 DEF PlanInv
  <2>2. CASE pc # "idle"
    BY <1>1, <2>2, PlanStays DEF IInv, GoesOn
  <2>. QED BY <2>1, <2>2
<1>3. JobInv'
  BY <1>1 DEF IInv, JobInv, GoesOn
<1>4. ResetInv'
  <2> SUFFICES ASSUME pc = "reset", NEW g \in todo
               PROVE  \/ data'[g] = "none" /\ node'[g] \in OutOfRing
                      \/ node'[g] = "out" /\ (plan.explicit \/ mark[g])
    BY <1>1 DEF ResetInv
  <2>1. g \in Hosts /\ GoesOn(g)
    BY <1>1 DEF IInv, TypeOK
  <2>2. CASE data[g] = "none" /\ node[g] \in OutOfRing
    BY <2>1, <2>2 DEF GoesOn, OutOfRing
  <2>3. CASE node[g] = "out" /\ (plan.explicit \/ mark[g])
    BY <2>1, <2>3 DEF GoesOn
  <2>. QED BY <2>2, <2>3 DEF IInv, ResetInv
<1>5. JoinInv'
  <2>1. ASSUME pc \in {"reset", "prepare"} \cup AddSteps, NEW g \in join
        PROVE  Member(g)'
    <3>1. g \in Hosts /\ GoesOn(g)
      BY <1>1 DEF IInv, TypeOK
    <3>2. Member(g)
      BY <2>1 DEF IInv, JoinInv
    <3>3. job[g] # "launched"
      BY <2>1, <3>1 DEF IInv, JobInv, BeforeLeaves
    <3>4. pc \notin {"job", "wait_leave"}
      BY <2>1 DEF AddSteps
    <3>. QED BY <3>1, <3>2, <3>3, <3>4 DEF GoesOn
  <2>. QED BY <1>1, <2>1 DEF IInv, JoinInv
<1>6. StreamedInv'
  BY <1>1 DEF IInv, StreamedInv, GoesOn
<1>7. SeedsInv'
  <2> SUFFICES ASSUME NEW g \in Hosts, ~absent[g]
               PROVE  /\ (pc = "write" /\ g \notin todo) \/ pc \in {"reload"} \cup LeaveSteps
                            => file'[g] = plan.seeds
                      /\ (pc = "reload" /\ g \notin todo) \/ pc \in LeaveSteps
                            => (node'[g] \notin OffStates => live'[g] = plan.seeds)
    BY <1>1 DEF SeedsInv
  <2>1. GoesOn(g)
    BY <1>1
  <2>. QED BY <1>1, <2>1 DEF IInv, SeedsInv, GoesOn, SeedsStay
<1>8. SparedInv'
  <2> SUFFICES ASSUME NEW g \in Hosts, node'[g] \notin OutOfRing,
                      \/ job'[g] = "launched"
                      \/ pc \in {"job", "wait_leave"} /\ g = plan.remove[at]
               PROVE  Spared(g)'
    BY <1>1 DEF SparedInv
  <2>1. Spared(g)
    BY <1>1 DEF IInv, SparedInv, GoesOn
  <2>2. ASSUME NEW k \in Hosts, ~absent[k], Member(k)
        PROVE  Member(k)' /\ SeedsStay(k)
    <3>1. GoesOn(k)
      BY <1>1
    <3>2. job[k] # "launched"
      BY <2>2 DEF IInv, JobInv
    <3>3. ~(pc \in {"job", "wait_leave"} /\ k = plan.remove[at])
      BY <2>2 DEF IInv, PlanInv, TypeOK, LeaveSteps
    <3>. QED BY <2>2, <3>1, <3>2, <3>3 DEF GoesOn
  <2>. QED BY <1>1, <2>1, <2>2, SparedStays
<1>. QED BY <1>2, <1>3, <1>4, <1>5, <1>6, <1>7, <1>8 DEF IInv

(* What the operator changes between two runs, with no job to begin, takes *)
(* nothing away; nor does a step that changes nothing.                     *)
LEMMA EditKeeps ==
    ASSUME TypeOK', pc' = "idle", \A h \in Hosts : job'[h] # "launched"
    PROVE  IInv'
<1>1. PlanInv' /\ ResetInv' /\ JobInv'
  BY DEF PlanInv, ResetInv, JobInv
<1>2. JoinInv' /\ StreamedInv' /\ SeedsInv' /\ SparedInv'
  BY DEF JoinInv, StreamedInv, SeedsInv, SparedInv, AddSteps, LeaveSteps
<1>. QED BY <1>1, <1>2 DEF IInv

LEMMA StutterKeeps ==
    ASSUME IInv, UNCHANGED <<hosts, inventory, run>>
    PROVE  IInv'
<1>1. UNCHANGED <<node, data, mark, file, live, job, absent, seeds,
                  pc, plan, join, at, todo>>
  BY DEF hosts, inventory, run
<1>2. TypeOK' /\ PlanInv' /\ JobInv' /\ ResetInv'
  BY <1>1, KeptStays DEF IInv, TypeOK, PlanInv, JobInv, ResetInv
<1>3. JoinInv' /\ StreamedInv' /\ SeedsInv'
  BY <1>1 DEF IInv, JoinInv, StreamedInv, SeedsInv, Member
<1>4. SparedInv'
  BY <1>1, KeptStays DEF IInv, SparedInv, Spared, Member
<1>. QED BY <1>2, <1>3, <1>4 DEF IInv

(* A launch begins a run with a plan that is true to what it read.         *)
LEMMA LaunchKeeps ==
    ASSUME IInv, TypeOK', NEW silent, NEW explicit, Launch(silent, explicit)
    PROVE  IInv'
<1>1. /\ UNCHANGED <<node, data, file, live, job, absent, seeds>>
      /\ pc = "idle" /\ \A h \in Hosts : job[h] # "launched"
  <2>1. UNCHANGED <<node, data, file, live, job, inventory, bounds>> /\ Quiet
    BY Zenon DEF Launch
  <2>. QED BY <2>1 DEF inventory, Quiet
<1>2. CASE UNCHANGED run
  BY <1>1, <1>2, EditKeeps DEF run
<1>3. CASE ~UNCHANGED run
  <2>0. TypeOK
    BY DEF IInv
  <2>1. PICK r : /\ IsReading(r) /\ Up(r) # {} /\ SeedsUp(r, seeds)
                 /\ mark' = [h \in Hosts |-> r[h].mark]
                 /\ plan' = Plan(r, seeds, explicit) /\ ~plan'.problem
                 /\ join' = JoinSeeds(r, seeds)
                 /\ todo' = plan'.new /\ at' = 1
                 /\ pc' \in {"reset", "ended"}
    BY <1>3, <2>0, LaunchPlans
  <2>2. /\ plan'.new \in SUBSET Hosts /\ plan'.explicit = explicit
        /\ \A h \in plan'.new :
              /\ ~absent[h] /\ node[h] \in OutOfRing
              /\ data[h] = "none" \/ (node[h] = "out" /\ (explicit \/ r[h].mark))
        /\ \A i \in 1..Len(plan'.remove) : absent[plan'.remove[i]]
        /\ \A h \in Hosts : absent[h] /\ node[h] \notin OutOfRing => h \in plan'.inRing
        /\ \A h \in plan'.inRing :
              h \notin plan'.seeds /\ \E i \in 1..Len(plan'.remove) : plan'.remove[i] = h
        /\ plan'.inRing # {} => \A dc \in DOMAIN Rf : NodesLeft(r, dc) >= Rf[dc]
    BY <2>0, <2>1, PlanOfReading
  <2>3. \A dc : NodesLeft(r, dc) = Kept(dc) /\ Kept(dc)' = Kept(dc)
    <3>1. Present(r) = {h \in Hosts : ~absent[h]}
      BY <2>0, <2>1, ReadingShows
    <3>2. ASSUME NEW dc
          PROVE  {h \in Present(r) : Dc[h] = dc} = {h \in Hosts : ~absent[h] /\ Dc[h] = dc}
      BY <3>1
    <3>. QED BY <1>1, <3>2, KeptStays DEF NodesLeft, Kept
  <2>4. PlanInv'
    BY <1>1, <2>2, <2>3 DEF PlanInv
  <2>5. JobInv' /\ StreamedInv' /\ SeedsInv' /\ SparedInv'
    BY <1>1, <2>1 DEF JobInv, StreamedInv, SeedsInv, SparedInv, LeaveSteps
  <2>6. ResetInv'
    BY <1>1, <2>1, <2>2 DEF ResetInv
  <2>7. /\ join' # {} /\ join' \subseteq Hosts
        /\ \A g \in join' : node[g] = "normal" /\ g \notin plan'.new
    BY <2>0, <2>1, <2>2, JoinSeedsAreMembers DEF OutOfRing
  <2>8. JoinInv'
    BY <1>1, <2>1, <2>7 DEF JoinInv, Member, AddSteps
  <2>. QED BY <2>4, <2>5, <2>6, <2>8 DEF IInv
<1>. QED BY <1>2, <1>3

-----------------------------------------------------------------------------
(* The adds.                                                               *)

(* What the steps of the adds share: the inventory, the plan, the jobs and *)
(* the seeds to join with stay, and no node comes into the ring but one of *)
(* the plan.                                                               *)
LEMMA AddStepKeeps ==
    ASSUME IInv, TypeOK', pc \in BeforeLeaves \ {"write", "reload"},
           pc' \in BeforeLeaves \ {"reload"},
           UNCHANGED <<absent, plan, join, job>>,
           \A h \in Hosts : node'[h] = node[h] \/ h \in plan.new,
           pc' = "write" => \A g \in Hosts : ~absent[g] => g \in todo',
           ResetInv', JoinInv'
    PROVE  IInv'
<1>1. JobInv' /\ StreamedInv' /\ SparedInv'
  BY BeforeLeavesStay DEF IInv, BeforeLeaves
<1>2. pc # "idle" /\ \A h \in plan.new : ~absent[h]
  BY DEF IInv, PlanInv, BeforeLeaves, AddSteps
<1>3. PlanInv'
  BY <1>2, PlanStays DEF IInv
<1>4. SeedsInv'
  BY DEF SeedsInv, BeforeLeaves, AddSteps, LeaveSteps
<1>. QED BY <1>1, <1>3, <1>4 DEF IInv

LEMMA ResetKeeps ==
    ASSUME IInv, TypeOK', NEW h \in Hosts, Reset(h), ~Failed
    PROVE  IInv'
<1>1. /\ pc = "reset" /\ pc' = "reset" /\ h \in todo /\ todo' = todo \ {h}
      /\ UNCHANGED <<plan, join, node, file, job, absent>>
      /\ \A g \in Hosts \ {h} : data'[g] = data[g] /\ mark'[g] = mark[g]
  BY DEF Reset, ForEach, hosts, inventory, IInv, TypeOK
<1>2. ResetInv'
  BY <1>1 DEF IInv, ResetInv, TypeOK
<1>3. JoinInv'
  BY <1>1 DEF IInv, JoinInv, Member, AddSteps
<1>. QED BY <1>1, <1>2, <1>3, AddStepKeeps DEF BeforeLeaves

LEMMA PrepareKeeps ==
    ASSUME IInv, TypeOK', NEW h \in Hosts, Prepare(h)
    PROVE  IInv'
<1>1. /\ pc = "prepare" /\ pc' = "prepare" /\ h \in todo /\ todo' = todo \ {h}
      /\ UNCHANGED <<plan, join, node, job, absent>>
      /\ file' = [file EXCEPT ![h] = join]
  BY DEF Prepare, ForEach, inventory
<1>2. ResetInv'
  BY <1>1 DEF ResetInv
<1>3. JoinInv'
  BY <1>1 DEF IInv, JoinInv, Member, AddSteps, TypeOK
<1>. QED BY <1>1, <1>2, <1>3, AddStepKeeps DEF BeforeLeaves

LEMMA AddsKeep ==
    ASSUME IInv, TypeOK', ~Failed,
           \/ ResetOver \/ PrepareOver \/ AddCheck \/ MarkBootstrap
           \/ WaitJoin \/ Unmark \/ AddedCheck
    PROVE  IInv'
<1>1. /\ UNCHANGED <<node, file, job, absent, plan, join>>
      /\ pc' # "reset"
  BY DEF ResetOver, PrepareOver, AddCheck, MarkBootstrap, WaitJoin, Unmark,
         AddedCheck, ForEach, Goto, AfterAdds, hosts, inventory
<1>2. \/ pc = "reset" /\ pc' = "prepare" /\ todo' = plan.new
      \/ /\ pc = "prepare" /\ todo = {}
         /\ pc' \in {"write", "add"}
      \/ pc = "add" /\ pc' = "mark" /\ at' = at /\ plan.add[at] \in plan.new
      \/ pc = "add" /\ pc' = "wait_join"
      \/ pc = "mark" /\ pc' = "start" /\ at' = at
      \/ pc = "wait_join" /\ pc' = "unmark"
      \/ pc = "unmark" /\ pc' = "added"
      \/ pc = "added" /\ pc' \in {"add", "write"}
  BY DEF ResetOver, PrepareOver, AddCheck, MarkBootstrap, WaitJoin, Unmark,
         AddedCheck, ForEach, Goto, AfterAdds
<1>3. pc' = "write" => todo' = Present(Now)
  BY <1>2 DEF ResetOver, PrepareOver, AddCheck, MarkBootstrap, WaitJoin, Unmark,
              AddedCheck, ForEach, Goto, AfterAdds
<1>4. pc' = "write" => \A g \in Hosts : ~absent[g] => g \in todo'
  BY <1>3, WhoIsWhat DEF IInv
<1>5. ResetInv'
  BY <1>1 DEF ResetInv
<1>6. JoinInv'
  BY <1>1, <1>2 DEF IInv, JoinInv, Member, AddSteps
<1>7. pc \in BeforeLeaves \ {"write", "reload"} /\ pc' \in BeforeLeaves \ {"reload"}
  BY <1>2 DEF BeforeLeaves, AddSteps
<1>. QED BY <1>1, <1>4, <1>5, <1>6, <1>7, AddStepKeeps

(* The node started is a new one: no seed of the others, and no node to    *)
(* remove.                                                                 *)
LEMMA StartKeeps ==
    ASSUME IInv, TypeOK', StartNode
    PROVE  IInv'
<1>1. /\ pc = "start" /\ pc' = "wait_join" /\ at' = at
      /\ node' = [node EXCEPT ![plan.add[at]] = "joining"]
      /\ UNCHANGED <<file, job, absent, plan, join>>
  BY DEF StartNode, Goto, inventory
<1>2. plan.add[at] \in plan.new
  BY <1>1 DEF IInv, JoinInv
<1>3. \A h \in Hosts : node'[h] = node[h] \/ h \in plan.new
  BY <1>1, <1>2 DEF IInv, TypeOK
<1>4. ResetInv'
  BY <1>1 DEF ResetInv
<1>5. JoinInv'
  <2>1. /\ join # {} /\ join \subseteq Hosts
        /\ \A g \in join : Member(g) /\ g \notin plan.new
        /\ \A h \in plan.new : file[h] = join
    BY <1>1 DEF IInv, TypeOK, JoinInv, AddSteps
  <2>2. \A g \in join : Member(g)'
    BY <1>3, <2>1 DEF Member
  <2>. QED BY <1>1, <2>1, <2>2 DEF JoinInv, AddSteps
<1>. QED BY <1>1, <1>3, <1>4, <1>5, AddStepKeeps DEF BeforeLeaves, AddSteps

-----------------------------------------------------------------------------
(* The seeds.                                                              *)
LEMMA WriteKeeps ==
    ASSUME IInv, TypeOK', NEW h \in Hosts, WriteSeeds(h)
    PROVE  IInv'
<1>1. /\ pc = "write" /\ h \in todo
      /\ file' = [file EXCEPT ![h] = plan.seeds]
      /\ \/ todo = {h} /\ pc' = "reload" /\ todo' = Present(Now)
         \/ todo # {h} /\ pc' = "write" /\ todo' = todo \ {h}
      /\ UNCHANGED <<node, job, absent, plan, join, live, data, mark>>
  BY DEF WriteSeeds, ForEach, inventory
<1>2. JobInv' /\ StreamedInv' /\ SparedInv'
  BY <1>1, BeforeLeavesStay DEF IInv, BeforeLeaves
<1>3. PlanInv'
  BY <1>1, PlanStays DEF IInv
<1>4. ResetInv' /\ JoinInv'
  BY <1>1 DEF ResetInv, JoinInv, AddSteps
<1>5. SeedsInv'
  <2> SUFFICES ASSUME NEW g \in Hosts, ~absent[g]
               PROVE  /\ (pc' = "write" /\ g \notin todo') \/ pc' = "reload"
                            => file'[g] = plan.seeds
                      /\ ~(pc' = "reload" /\ g \notin todo')
    BY <1>1 DEF SeedsInv, LeaveSteps
  <2>1. g \notin todo \/ g = h => file'[g] = plan.seeds
    BY <1>1 DEF IInv, TypeOK, SeedsInv
  <2>2. g \in Present(Now)
    BY WhoIsWhat DEF IInv
  <2>. QED BY <1>1, <2>1, <2>2
<1>. QED BY <1>2, <1>3, <1>4, <1>5 DEF IInv

LEMMA ReloadKeeps ==
    ASSUME IInv, TypeOK', NEW h \in Hosts, ReloadSeeds(h)
    PROVE  IInv'
<1>1. /\ pc = "reload" /\ h \in todo
      /\ live' = [live EXCEPT ![h] = IF Running(h) THEN file[h] ELSE @]
      /\ \/ todo # {h} /\ pc' = "reload" /\ todo' = todo \ {h}
         \/ todo = {h} /\ pc' \in {"ended", "leave"} /\ todo' = {}
      /\ UNCHANGED <<node, job, absent, plan, join, at, file>>
  BY DEF ReloadSeeds, ForEach, inventory
<1>2. \A g \in Hosts : job[g] # "launched"
  BY <1>1 DEF IInv, JobInv, BeforeLeaves
<1>3. JobInv' /\ SparedInv'
  BY <1>1, <1>2 DEF JobInv, SparedInv
<1>4. StreamedInv'
  BY <1>1 DEF IInv, TypeOK, StreamedInv, LeaveSteps
<1>5. PlanInv'
  BY <1>1, PlanStays DEF IInv
<1>6. ResetInv' /\ JoinInv'
  BY <1>1 DEF ResetInv, JoinInv, AddSteps
<1>7. SeedsInv'
  <2> SUFFICES ASSUME NEW g \in Hosts, ~absent[g]
               PROVE  /\ file'[g] = plan.seeds
                      /\ (pc' = "reload" /\ g \notin todo') \/ pc' \in LeaveSteps
                            => (node[g] \notin OffStates => live'[g] = plan.seeds)
    BY <1>1 DEF SeedsInv, LeaveSteps
  <2>1. file[g] = plan.seeds
    BY <1>1 DEF IInv, SeedsInv
  <2>2. ASSUME g \notin todo \/ g = h, node[g] \notin OffStates
        PROVE  live'[g] = plan.seeds
    <3>1. CASE g = h
      <4>1. Running(h)
        BY <2>2, <3>1, WhoIsWhat DEF IInv
      <4>. QED BY <1>1, <2>1, <3>1, <4>1 DEF IInv, TypeOK
    <3>2. CASE g # h
      BY <1>1, <2>2, <3>2 DEF IInv, TypeOK, SeedsInv
    <3>. QED BY <3>1, <3>2
  <2>. QED BY <1>1, <2>1, <2>2 DEF LeaveSteps
<1>. QED BY <1>3, <1>4, <1>5, <1>6, <1>7 DEF IInv

-----------------------------------------------------------------------------
(* The removals.                                                           *)

(* Where a node to remove stands: what the classes mean of the node.       *)
LEMMA LeavingStateShows ==
    ASSUME TypeOK, NEW h \in Hosts
    PROVE  /\ LeavingState(Now, h)
                 \in {"leaving", "decommissioned", "failed", "normal"}
           /\ LeavingState(Now, h) = "decommissioned" => node[h] \in OutOfRing
<1>1. /\ Now[h].mode = ModeOf[node[h]] /\ node[h] \in NodeStates
      /\ InRing(Now, h) <=> node[h] \notin OutOfRing
  BY NowIsReading, ReadingShows DEF IsReading
<1>2. LeavingState(Now, h) = "decommissioned" => ~InRing(Now, h)
  BY DEF LeavingState
<1>3. LeavingState(Now, h) \in {"leaving", "decommissioned", "failed", "normal"}
  BY DEF LeavingState
<1>. QED BY <1>1, <1>2, <1>3

(* The health check before a removal: the ring has as many nodes as there  *)
(* are hosts to keep and hosts still to remove, so every host to keep is   *)
(* in it; and they are all up and normal, only the node itself may be      *)
(* leaving.                                                                *)
LEMMA LeaveCheckSeesAll ==
    ASSUME IInv, pc \in LeaveSteps, NEW leavingOk \in SUBSET {plan.remove[at]},
           Healthy(LeaveExpected(plan.remove[at]), {}, leavingOk)
    PROVE  \A g \in Hosts : ~absent[g] => node[g] = "normal"
<1> DEFINE h == plan.remove[at]
           ring == {g \in Hosts : InRing(Now, g)}
           here == {g \in Hosts : ~absent[g]}
           kept == ring \cap here
           others == OthersInRing
           it == IF InRing(Now, h) THEN {h} ELSE {}
<1>0. TypeOK /\ h \in Hosts /\ at \in 1..Len(plan.remove)
  BY HostOfStep DEF IInv, TypeOK
<1>1. /\ Present(Now) = here
      /\ \A g \in Hosts : InRing(Now, g) <=> node[g] \notin OutOfRing
      /\ \A g \in Hosts : node[g] \in NodeStates
  BY <1>0, NowIsReading, ReadingShows
<1>2. absent[h]
  BY <1>0 DEF IInv, PlanInv, LeaveSteps
<1>3. /\ ring \in SUBSET Hosts /\ kept \in SUBSET here /\ here \in SUBSET Hosts
      /\ others \in SUBSET Hosts /\ it \in SUBSET Hosts
  BY <1>0 DEF OthersInRing, IInv, TypeOK
<1>4. ring \subseteq kept \cup others \cup it
  <2> SUFFICES ASSUME NEW g \in ring, g \notin kept, g # h PROVE g \in others
    BY <1>0
  <2>1. g \in Hosts /\ absent[g] /\ node[g] \notin OutOfRing
    BY <1>1
  <2>2. g \in plan.inRing
    BY <2>1 DEF IInv, PlanInv, LeaveSteps
  <2>3. PICK i \in 1..Len(plan.remove) : plan.remove[i] = g
    BY <2>2 DEF IInv, PlanInv, LeaveSteps
  <2>4. i \notin 1..at - 1
    BY <2>1, <2>3 DEF IInv, StreamedInv
  <2>5. i \in at + 1..Len(plan.remove)
    BY <1>0, <2>3, <2>4
  <2>6. plan.remove \in Seq(Hosts)
    BY <1>0 DEF TypeOK
  <2>7. LET s == SubSeq(plan.remove, at + 1, Len(plan.remove))
        IN  i - at \in 1..Len(s) /\ s[i - at] = g
    BY <1>0, <2>3, <2>5, <2>6
  <2>8. g \in ToSet(SubSeq(plan.remove, at + 1, Len(plan.remove)))
    <3>1. DOMAIN SubSeq(plan.remove, at + 1, Len(plan.remove))
             = 1..Len(SubSeq(plan.remove, at + 1, Len(plan.remove)))
      BY <1>0, <2>6
    <3>. QED BY <2>7, <3>1 DEF ToSet
  <2>. QED BY <2>2, <2>8 DEF OthersInRing
<1>5. /\ IsFiniteSet(ring) /\ IsFiniteSet(kept) /\ IsFiniteSet(here)
      /\ IsFiniteSet(others) /\ IsFiniteSet(it)
  BY <1>3, HostsFinite, FS_Subset
<1>6. /\ Cardinality(ring) \in Nat /\ Cardinality(kept) \in Nat
      /\ Cardinality(here) \in Nat /\ Cardinality(others) \in Nat
      /\ Cardinality(it) = IF InRing(Now, h) THEN 1 ELSE 0
  BY <1>5, FS_CardinalityType, FS_Singleton, FS_EmptySet
<1>7. Cardinality(ring) = Cardinality(here) + Cardinality(others) + Cardinality(it)
  BY <1>1, <1>6 DEF Healthy, LeaveExpected
<1> HIDE DEF ring, kept, here, others, it
<1>8. Cardinality(ring) <= Cardinality(kept) + Cardinality(others) + Cardinality(it)
  <2>1. /\ IsFiniteSet(kept \cup others)
        /\ Cardinality(kept \cup others) <= Cardinality(kept) + Cardinality(others)
        /\ Cardinality(kept \cup others) \in Nat
    <3>1. Cardinality(kept \cap others) \in Nat
      BY <1>5, FS_Intersection, FS_CardinalityType
    <3>2. /\ IsFiniteSet(kept \cup others)
          /\ Cardinality(kept \cup others) = Cardinality(kept) + Cardinality(others)
                                              - Cardinality(kept \cap others)
      BY <1>5, FS_Union, Zenon
    <3>3. Cardinality(kept \cup others) \in Nat
      BY <3>2, FS_CardinalityType
    <3>. QED BY <1>6, <3>1, <3>2, <3>3
  <2>2. /\ IsFiniteSet(kept \cup others \cup it)
        /\ Cardinality(kept \cup others \cup it)
              <= Cardinality(kept \cup others) + Cardinality(it)
        /\ Cardinality(kept \cup others \cup it) \in Nat
    <3>1. Cardinality((kept \cup others) \cap it) \in Nat
      BY <2>1, <1>5, FS_Intersection, FS_CardinalityType
    <3>2. /\ IsFiniteSet(kept \cup others \cup it)
          /\ Cardinality(kept \cup others \cup it)
                = Cardinality(kept \cup others) + Cardinality(it)
                  - Cardinality((kept \cup others) \cap it)
      BY <1>5, <2>1, FS_Union, Zenon
    <3>3. Cardinality(kept \cup others \cup it) \in Nat /\ Cardinality(it) \in Nat
      BY <1>6, <3>2, FS_CardinalityType
    <3>. QED BY <2>1, <3>1, <3>2, <3>3
  <2>3. Cardinality(ring) <= Cardinality(kept \cup others \cup it)
    BY <1>4, <2>2, FS_Subset
  <2>. QED BY <1>6, <2>1, <2>2, <2>3
<1>9. kept = here
  <2>1. Cardinality(kept) <= Cardinality(here)
    BY <1>3, <1>5, FS_Subset
  <2>2. Cardinality(it) \in Nat
    BY <1>6
  <2>3. Cardinality(kept) = Cardinality(here)
    BY <1>6, <1>7, <1>8, <2>1, <2>2
  <2>. QED BY <1>3, <1>5, <2>3, FS_Subset
<1>10. ASSUME NEW g \in Hosts, ~absent[g] PROVE node[g] = "normal"
  <2>1. InRing(Now, g)
    BY <1>9, <1>10 DEF kept, here, ring
  <2>2. g \notin leavingOk
    BY <1>2, <1>10 DEF h
  <2>3. Now[g].code = "UN"
    BY <2>1, <2>2 DEF Healthy
  <2>. QED BY <2>3, <1>1, WhatANodeShows, NowIsReading DEF IsReading
<1>. QED BY <1>10

(* Before a removal the seeds are everywhere: a node the plan has in the   *)
(* ring to remove is spared when all the others are members.               *)
LEMMA MembersSpare ==
    ASSUME IInv, pc \in LeaveSteps, NEW h \in Hosts, absent[h],
           node[h] \notin OutOfRing,
           \A g \in Hosts : ~absent[g] => node[g] = "normal"
    PROVE  Spared(h)
<1>1. h \in plan.inRing /\ h \notin plan.seeds
  BY DEF IInv, PlanInv, LeaveSteps
<1>2. ASSUME NEW g \in Hosts, ~absent[g]
      PROVE  /\ Member(g) /\ h \notin file[g]
             /\ node[g] \notin OffStates => h \notin live[g]
  BY <1>1, <1>2 DEF IInv, SeedsInv, Member
<1>3. \A dc \in DOMAIN Rf : Kept(dc) >= Rf[dc]
  BY <1>1 DEF IInv, PlanInv, LeaveSteps
<1>. QED BY <1>2, <1>3 DEF Spared

(* What the steps of the removals share.                                   *)
LEMMA LeaveStepKeeps ==
    ASSUME IInv, TypeOK', pc \in LeaveSteps, pc' \in LeaveSteps \cup {"ended"},
           UNCHANGED <<absent, plan, file, live>>,
           \A g \in Hosts : \/ node'[g] = node[g]
                            \/ absent[g] /\ node[g] \in Streamed /\ node'[g] = Stopped(node[g]),
           \A g \in Hosts : \/ job'[g] \in {job[g], "none"}
                            \/ pc' = "wait_leave" /\ g = plan.remove[at'],
           StreamedInv',
           pc' \in {"job", "wait_leave"} /\ node'[plan.remove[at']] \notin OutOfRing
              => Spared(plan.remove[at'])
    PROVE  IInv'
<1>0. TypeOK /\ pc # "idle"
  BY DEF IInv, LeaveSteps
<1>1. ASSUME NEW g \in Hosts
      PROVE  /\ node'[g] \notin OutOfRing => node[g] \notin OutOfRing
             /\ ~absent[g] => node'[g] = node[g]
             /\ SeedsStay(g)
  <2>1. node[g] \in NodeStates
    BY <1>0 DEF TypeOK
  <2>2. CASE node'[g] = node[g]
    BY <2>2 DEF SeedsStay
  <2>3. CASE absent[g] /\ node[g] \in Streamed /\ node'[g] = Stopped(node[g])
    BY <2>1, <2>3 DEF SeedsStay, Streamed, OutOfRing, Stopped, OffStates
  <2>. QED BY <2>2, <2>3
<1>2. PlanInv'
  BY <1>0, <1>1, PlanStays DEF IInv
<1>3. JobInv'
  <2> SUFFICES ASSUME NEW g \in Hosts, job'[g] = "launched" PROVE absent[g]
    BY DEF JobInv, BeforeLeaves, LeaveSteps, AddSteps
  <2>1. CASE job[g] = "launched"
    BY <2>1 DEF IInv, JobInv
  <2>2. CASE pc' = "wait_leave" /\ g = plan.remove[at']
    BY <2>2, <1>2 DEF PlanInv, TypeOK, LeaveSteps
  <2>. QED BY <2>1, <2>2
<1>4. ResetInv' /\ JoinInv'
  BY DEF ResetInv, JoinInv, LeaveSteps, AddSteps
<1>5. SeedsInv'
  <2> SUFFICES ASSUME NEW g \in Hosts, ~absent[g], pc' \in LeaveSteps
               PROVE  /\ file'[g] = plan.seeds
                      /\ node'[g] \notin OffStates => live'[g] = plan.seeds
    BY DEF SeedsInv, LeaveSteps
  <2>. QED BY <1>1 DEF IInv, SeedsInv
<1>6. SparedInv'
  <2> SUFFICES ASSUME NEW g \in Hosts, node'[g] \notin OutOfRing,
                      \/ job'[g] = "launched"
                      \/ pc' \in {"job", "wait_leave"} /\ g = plan.remove[at']
               PROVE  Spared(g)'
    BY DEF SparedInv
  <2>1. Spared(g)
    BY <1>1 DEF IInv, SparedInv
  <2>2. \A k \in Hosts : ~absent[k] /\ Member(k) => Member(k)' /\ SeedsStay(k)
    BY <1>1 DEF Member
  <2>. QED BY <2>1, <2>2, SparedStays
<1>. QED BY <1>2, <1>3, <1>4, <1>5, <1>6 DEF IInv

LEMMA LeaveCheckKeeps ==
    ASSUME IInv, TypeOK', LeaveCheck, ~Failed
    PROVE  IInv'
<1> DEFINE h == plan.remove[at]
<1>1. /\ pc = "leave" /\ at' = at
      /\ job' = [job EXCEPT ![h] = "none"]
      /\ UNCHANGED <<node, file, live, absent, plan>>
      /\ LeavingState(Now, h) # "failed"
      /\ Healthy(LeaveExpected(h), {},
                 IF LeavingState(Now, h) = "leaving" THEN {h} ELSE {})
      /\ pc' = CASE LeavingState(Now, h) = "normal" -> "job"
                 [] LeavingState(Now, h) = "leaving" -> "wait_leave"
                 [] OTHER -> "stop"
  BY DEF LeaveCheck, Goto, inventory
<1>2. TypeOK /\ h \in Hosts /\ absent[h] /\ pc \in LeaveSteps
  BY <1>1, HostOfStep DEF IInv, PlanInv, TypeOK, LeaveSteps
<1>3. \A g \in Hosts : ~absent[g] => node[g] = "normal"
  BY <1>1, <1>2, LeaveCheckSeesAll
<1>4. node[h] \notin OutOfRing => Spared(h)
  BY <1>2, <1>3, MembersSpare
<1>5. /\ pc' \in {"job", "wait_leave", "stop"}
      /\ pc' = "stop" => node[h] \in OutOfRing
  BY <1>1, <1>2, LeavingStateShows
<1>6. \A g \in Hosts : job'[g] \in {job[g], "none"}
  BY <1>1, <1>2 DEF TypeOK
<1>7. StreamedInv'
  BY <1>1, <1>2, <1>5 DEF IInv, StreamedInv, Streamed, TypeOK, LeaveSteps
<1>. QED BY <1>1, <1>2, <1>4, <1>5, <1>6, <1>7, LeaveStepKeeps DEF LeaveSteps

LEMMA LaunchJobKeeps ==
    ASSUME IInv, TypeOK', LaunchJob
    PROVE  IInv'
<1>1. /\ pc = "job" /\ pc' = "wait_leave" /\ at' = at
      /\ job' = [job EXCEPT ![plan.remove[at]] = "launched"]
      /\ UNCHANGED <<node, file, live, absent, plan>>
  BY DEF LaunchJob, Goto, inventory
<1>2. TypeOK /\ plan.remove[at] \in Hosts /\ pc \in LeaveSteps
  BY <1>1, HostOfStep DEF IInv, LeaveSteps
<1>3. \A g \in Hosts : job'[g] = job[g] \/ g = plan.remove[at]
  BY <1>1, <1>2 DEF TypeOK
<1>4. StreamedInv'
  BY <1>1, <1>2 DEF IInv, StreamedInv, TypeOK, LeaveSteps
<1>5. node[plan.remove[at]] \notin OutOfRing => Spared(plan.remove[at])
  BY <1>1, <1>2 DEF IInv, SparedInv
<1>. QED BY <1>1, <1>2, <1>3, <1>4, <1>5, LeaveStepKeeps DEF LeaveSteps

LEMMA WaitLeaveKeeps ==
    ASSUME IInv, TypeOK', WaitLeave, ~Failed
    PROVE  IInv'
<1>1. /\ pc = "wait_leave" /\ pc' = "stop" /\ at' = at
      /\ UNCHANGED <<node, job, file, live, absent, plan>>
      /\ StreamStatus("DECOMMISSIONED", Mode(plan.remove[at]), job[plan.remove[at]]) = "done"
  BY DEF WaitLeave, Goto, inventory, hosts
<1>2. TypeOK /\ plan.remove[at] \in Hosts /\ pc \in LeaveSteps
  BY <1>1, HostOfStep DEF IInv, LeaveSteps
<1>3. node[plan.remove[at]] \in Streamed
  <2>1. \/ ModeOf[node[plan.remove[at]]] = "DECOMMISSIONED"
        \/ job[plan.remove[at]] = "changed"
    BY <1>1 DEF StreamStatus, Mode
  <2>2. node[plan.remove[at]] \in NodeStates
    BY <1>2 DEF TypeOK
  <2>. QED BY <1>1, <1>2, <2>1, <2>2, WhatANodeShows DEF IInv, StreamedInv, Streamed, OutOfRing
<1>4. StreamedInv'
  BY <1>1, <1>2, <1>3 DEF IInv, StreamedInv, LeaveSteps
<1>. QED BY <1>1, <1>2, <1>4, LeaveStepKeeps DEF LeaveSteps

LEMMA StopLeftKeeps ==
    ASSUME IInv, TypeOK', StopLeft
    PROVE  IInv'
<1> DEFINE h == plan.remove[at]
<1>1. /\ pc = "stop" /\ pc' = "gone" /\ at' = at
      /\ node' = [node EXCEPT ![h] = Stopped(@)]
      /\ UNCHANGED <<job, file, live, absent, plan>>
  BY DEF StopLeft, Goto, inventory
<1>2. TypeOK /\ h \in Hosts /\ absent[h] /\ pc \in LeaveSteps
  BY <1>1, HostOfStep DEF IInv, PlanInv, TypeOK, LeaveSteps
<1>3. node[h] \in Streamed
  BY <1>1, <1>2 DEF IInv, StreamedInv
<1>4. /\ node'[h] = Stopped(node[h])
      /\ \A g \in Hosts \ {h} : node'[g] = node[g]
  BY <1>1, <1>2 DEF TypeOK
<1>5. /\ node'[h] \in {"out", "dead_left"}
      /\ node[h] \in OutOfRing => node'[h] \in OutOfRing
  BY <1>3, <1>4 DEF Stopped, Streamed, OutOfRing
<1>6. StreamedInv'
  BY <1>1, <1>2, <1>4, <1>5 DEF IInv, StreamedInv, LeaveSteps
<1>. QED BY <1>1, <1>2, <1>3, <1>4, <1>6, LeaveStepKeeps DEF LeaveSteps

LEMMA LeftCheckKeeps ==
    ASSUME IInv, TypeOK', LeftCheck, ~Failed
    PROVE  IInv'
<1> DEFINE h == plan.remove[at]
<1>1. /\ pc = "gone"
      /\ \/ pc' = "ended"
         \/ pc' = "leave" /\ at' = at + 1
      /\ UNCHANGED <<node, job, file, live, absent, plan>>
      /\ Healthy(Cardinality(Present(Now)) + Cardinality(OthersInRing), {}, {})
  BY DEF LeftCheck, Ended, Goto, inventory, hosts
<1>2. TypeOK /\ h \in Hosts /\ pc \in LeaveSteps
  BY <1>1, HostOfStep DEF IInv, LeaveSteps
<1>3. node[h] \in OutOfRing
  <2>1. node[h] \in {"out", "dead_left"}
    BY <1>1, <1>2 DEF IInv, StreamedInv
  <2>2. node[h] # "dead_left"
    <3>1. /\ InRing(Now, h) <=> node[h] \notin OutOfRing
          /\ Now[h].code = CodeOf[node[h]] /\ node[h] \in NodeStates
      BY <1>2, NowIsReading, ReadingShows DEF IsReading
    <3>2. InRing(Now, h) => Now[h].code = "UN"
      BY <1>1, <1>2 DEF Healthy
    <3>. QED BY <3>1, <3>2, WhatANodeShows DEF OutOfRing
  <2>. QED BY <2>1, <2>2 DEF OutOfRing
<1>4. StreamedInv'
  <2>1. \A g \in Hosts : \A i \in 1..at : g = plan.remove[i] => node[g] \in OutOfRing
    BY <1>1, <1>2, <1>3 DEF IInv, StreamedInv, TypeOK
  <2>2. pc' = "leave" => 1..at' - 1 = 1..at
    BY <1>1, <1>2 DEF TypeOK
  <2>3. pc' \notin {"wait_leave", "stop", "gone"} /\ (pc' \in LeaveSteps => pc' = "leave")
    BY <1>1 DEF LeaveSteps
  <2>. QED BY <1>1, <2>1, <2>2, <2>3 DEF StreamedInv
<1>. QED BY <1>1, <1>2, <1>4, LeaveStepKeeps DEF LeaveSteps

-----------------------------------------------------------------------------
(* The invariant.                                                          *)

LEMMA InitIsInv == ASSUME Init PROVE IInv
<1>1. /\ pc = "idle" /\ plan = NothingPlan /\ \A h \in Hosts : job[h] = "none"
  BY DEF Init
<1>2. TypeOK
  BY <1>1, SeedListsAssumption
     DEF Init, TypeOK, NodeStates, JobStates, Steps, AddSteps, LeaveSteps, NothingPlan
<1>3. PlanInv /\ JobInv /\ ResetInv
  BY <1>1 DEF PlanInv, JobInv, ResetInv
<1>4. JoinInv /\ StreamedInv /\ SeedsInv /\ SparedInv
  BY <1>1 DEF JoinInv, StreamedInv, SeedsInv, SparedInv, AddSteps, LeaveSteps
<1>. QED BY <1>2, <1>3, <1>4 DEF IInv

LEMMA StepKeepsInv ==
    ASSUME IInv, [Next]_vars
    PROVE  IInv'
<1>1. CASE pc # "idle" /\ Failed
  BY <1>1, FailedStops, StopKeeps DEF IInv
<1>2. CASE ~(pc # "idle" /\ Failed)
  <2>0. TypeOK'
    BY <1>2, TypeStep DEF IInv
  <2>1. CASE \E silent, explicit : Launch(silent, explicit)
    BY <2>0, <2>1, LaunchKeeps
  <2>2. CASE \E h \in Hosts : Reset(h) \/ Prepare(h) \/ WriteSeeds(h) \/ ReloadSeeds(h)
    <3> PICK h \in Hosts : Reset(h) \/ Prepare(h) \/ WriteSeeds(h) \/ ReloadSeeds(h)
      BY <2>2
    <3>1. Reset(h) => ~Failed
      BY <1>2 DEF Reset
    <3>. QED BY <2>0, <3>1, ResetKeeps, PrepareKeeps, WriteKeeps, ReloadKeeps
  <2>3. CASE \/ ResetOver \/ PrepareOver \/ AddCheck \/ MarkBootstrap
             \/ WaitJoin \/ Unmark \/ AddedCheck
    <3>1. ~Failed
      BY <1>2, <2>3 DEF ResetOver, PrepareOver, AddCheck, MarkBootstrap, WaitJoin,
                        Unmark, AddedCheck
    <3>. QED BY <2>0, <2>3, <3>1, AddsKeep
  <2>4. CASE StartNode
    BY <2>0, <2>4, StartKeeps
  <2>5. CASE LeaveCheck \/ LaunchJob \/ WaitLeave \/ StopLeft \/ LeftCheck
    <3>1. LeaveCheck \/ WaitLeave \/ LeftCheck => ~Failed
      BY <1>2 DEF LeaveCheck, WaitLeave, LeftCheck
    <3>. QED BY <2>0, <2>5, <3>1, LeaveCheckKeeps, LaunchJobKeeps, WaitLeaveKeeps,
                StopLeftKeeps, LeftCheckKeeps
  <2>6. CASE WaitStalls \/ Close \/ Interrupt
    BY <1>2, <2>6 DEF WaitStalls, Close, Interrupt
  <2>7. CASE \/ \E h \in Hosts : EditNodes(h) \/ StartByHand(h) \/ RemoveDead(h)
             \/ \E list \in SeedLists : EditSeeds(list)
    <3>1. pc' = "idle" /\ job' = job /\ Quiet
      BY <2>7 DEF EditNodes, StartByHand, RemoveDead, EditSeeds, Edit, Quiet, run, hosts
    <3>. QED BY <2>0, <3>1, EditKeeps DEF Quiet
  <2>8. CASE \E h \in Hosts : HostStep(h)
    BY <2>0, <2>8, HostStepKeeps
  <2>9. CASE UNCHANGED vars
    BY <2>9, StutterKeeps DEF vars
  <2>. QED BY <2>1, <2>2, <2>3, <2>4, <2>5, <2>6, <2>7, <2>8, <2>9
           DEF Next, Controller, LaunchOtherwise, HostStep
<1>. QED BY <1>1, <1>2

(* Every state of every run keeps the types, and the relations above: the  *)
(* plan is true to the inventory, the seeds new nodes join with are        *)
(* members, the nodes to stop have streamed, the others can do without the *)
(* nodes to remove.                                                        *)
THEOREM RunsKeepInv == Spec => []IInv
<1>1. Init => IInv
  BY InitIsInv
<1>2. IInv /\ [Next]_vars => IInv'
  BY StepKeepsInv
<1>. QED BY <1>1, <1>2, PTL DEF Spec

-----------------------------------------------------------------------------
(* What may never happen.                                                  *)

(* The hosts a job that begins, or an operator, makes leave.               *)
LEMMA LeavesAreSpared ==
    ASSUME IInv, [Next]_vars, NEW h \in Hosts, node[h] = "normal", node'[h] = "leaving"
    PROVE  absent[h] /\ Spared(h)
<1>0. TypeOK
  BY DEF IInv
<1>1. \/ job[h] = "launched"
      \/ pc \in {"job", "wait_leave"} /\ h = plan.remove[at]
  <2>1. CASE \E silent, explicit : Launch(silent, explicit)
    BY <2>1, Zenon DEF Launch
  <2>2. CASE \E g \in Hosts : Reset(g) \/ Prepare(g) \/ WriteSeeds(g) \/ ReloadSeeds(g)
    BY <2>2 DEF Reset, Prepare, WriteSeeds, ReloadSeeds, hosts
  <2>3. CASE \/ ResetOver \/ PrepareOver \/ AddCheck \/ MarkBootstrap \/ WaitJoin
             \/ Unmark \/ AddedCheck \/ LeaveCheck \/ LaunchJob \/ WaitLeave
             \/ WaitStalls \/ LeftCheck \/ Close \/ Interrupt
    BY <2>3 DEF ResetOver, PrepareOver, AddCheck, MarkBootstrap, WaitJoin, Unmark,
                AddedCheck, LeaveCheck, LaunchJob, WaitLeave, WaitStalls, LeftCheck,
                Close, Interrupt, hosts
  <2>4. CASE StartNode
    BY <2>4, <1>0 DEF StartNode, TypeOK
  <2>5. CASE StopLeft
    BY <2>5, <1>0 DEF StopLeft, TypeOK, Stopped
  <2>6. CASE \/ \E g \in Hosts : EditNodes(g) \/ StartByHand(g) \/ RemoveDead(g)
             \/ \E list \in SeedLists : EditSeeds(list)
    BY <2>6, <1>0 DEF EditNodes, StartByHand, RemoveDead, EditSeeds, hosts, TypeOK
  <2>7. CASE \E g \in Hosts : HostStep(g)
    BY <2>7, <1>0, HostStepDoes DEF GoesOn, Member
  <2>8. CASE UNCHANGED vars
    BY <2>8 DEF vars, hosts
  <2>. QED BY <2>1, <2>2, <2>3, <2>4, <2>5, <2>6, <2>7, <2>8
           DEF Next, Controller, LaunchOtherwise, HostStep
<1>2. Spared(h)
  BY <1>1 DEF IInv, SparedInv, OutOfRing
<1>3. absent[h]
  BY <1>0, <1>1 DEF IInv, JobInv, PlanInv, TypeOK, LeaveSteps
<1>. QED BY <1>2, <1>3

(* A node begins to leave when what is left can do without it: the hosts   *)
(* that stay are members, none has it among its seeds, and enough of its   *)
(* datacenter stay for the replicas (LeavesSafely).  So also when its job  *)
(* begins after the run was interrupted, and whatever broke meanwhile.     *)
THEOREM LeavesOnlySafely == Spec => LeavesSafely
<1>1. ASSUME IInv, [Next]_vars, NEW h \in Hosts, node[h] = "normal", node'[h] = "leaving"
      PROVE  /\ \A g \in Present(Now) :
                   Member(g) /\ h \notin file[g] /\ (Running(g) => h \notin live[g])
             /\ Dc[h] \in DOMAIN Rf =>
                   Cardinality({g \in Hosts \ {h} : Member(g) /\ Dc[g] = Dc[h]}) >= Rf[Dc[h]]
  <2> DEFINE kept == {g \in Hosts : ~absent[g] /\ Dc[g] = Dc[h]}
             left == {g \in Hosts \ {h} : Member(g) /\ Dc[g] = Dc[h]}
  <2>1. absent[h] /\ Spared(h) /\ TypeOK
    BY <1>1, LeavesAreSpared DEF IInv
  <2>2. \A g \in Present(Now) :
           Member(g) /\ h \notin file[g] /\ (Running(g) => h \notin live[g])
    BY <2>1, WhoIsWhat DEF Spared
  <2>3. ASSUME Dc[h] \in DOMAIN Rf
        PROVE  Cardinality(left) >= Rf[Dc[h]]
    <3>1. kept \subseteq left /\ left \subseteq Hosts
      BY <2>1 DEF Spared
    <3>2. IsFiniteSet(left) /\ IsFiniteSet(kept)
      BY <3>1, HostsFinite, FS_Subset
    <3>3. Cardinality(kept) <= Cardinality(left)
      BY <3>1, <3>2, FS_Subset
    <3>4. Cardinality(left) \in Nat /\ Cardinality(kept) \in Nat
      BY <3>2, FS_CardinalityType
    <3>5. Cardinality(kept) >= Rf[Dc[h]] /\ Rf[Dc[h]] \in Nat
      BY <2>1, <2>3, GroupAssumption DEF Spared, Kept
    <3>. QED BY <3>3, <3>4, <3>5
  <2>. QED BY <2>2, <2>3
<1>2. IInv /\ [Next]_vars =>
         [\A h \in Hosts : node[h] = "normal" /\ node'[h] = "leaving" =>
            /\ \A g \in Present(Now) :
                  Member(g) /\ h \notin file[g] /\ (Running(g) => h \notin live[g])
            /\ Dc[h] \in DOMAIN Rf =>
                  Cardinality({g \in Hosts \ {h} : Member(g) /\ Dc[g] = Dc[h]}) >= Rf[Dc[h]]
         ]_vars
  BY <1>1
<1>. QED BY <1>2, RunsKeepInv, PTL DEF Spec, LeavesSafely

(* No data that count are lost: a former member's are deleted on a stopped *)
(* node, on the operator's word or our own mark; a node to remove is       *)
(* stopped when it has streamed its own (DataKept).                        *)
THEOREM NoDataLost == Spec => DataKept
<1>1. ASSUME IInv, [Next]_vars, NEW h \in Hosts, data[h] = "member", data'[h] = "none"
      PROVE  node[h] = "out" /\ (plan.explicit \/ mark[h])
  <2>0. TypeOK
    BY <1>1 DEF IInv
  <2>1. CASE \E silent, explicit : Launch(silent, explicit)
    BY <1>1, <2>1, Zenon DEF Launch
  <2>2. CASE \E g \in Hosts : Reset(g)
    <3> PICK g \in Hosts : Reset(g)
      BY <2>2
    <3>1. pc = "reset" /\ g \in todo /\ h = g
      BY <1>1, <2>0 DEF Reset, hosts, TypeOK
    <3>. QED BY <1>1, <3>1 DEF IInv, ResetInv
  <2>3. CASE \E g \in Hosts : Prepare(g) \/ WriteSeeds(g) \/ ReloadSeeds(g)
    BY <1>1, <2>3 DEF Prepare, WriteSeeds, ReloadSeeds
  <2>4. CASE \/ ResetOver \/ PrepareOver \/ AddCheck \/ MarkBootstrap \/ WaitJoin
             \/ Unmark \/ AddedCheck \/ LeaveCheck \/ LaunchJob \/ WaitLeave
             \/ WaitStalls \/ LeftCheck \/ Close \/ Interrupt \/ StopLeft
    BY <1>1, <2>4 DEF ResetOver, PrepareOver, AddCheck, MarkBootstrap, WaitJoin, Unmark,
                AddedCheck, LeaveCheck, LaunchJob, WaitLeave, WaitStalls, LeftCheck,
                Close, Interrupt, StopLeft, hosts
  <2>5. CASE StartNode
    BY <1>1, <2>5, <2>0 DEF StartNode, TypeOK
  <2>6. CASE \/ \E g \in Hosts : EditNodes(g) \/ StartByHand(g) \/ RemoveDead(g)
             \/ \E list \in SeedLists : EditSeeds(list)
    BY <1>1, <2>6 DEF EditNodes, StartByHand, RemoveDead, EditSeeds, hosts
  <2>7. CASE \E g \in Hosts : HostStep(g)
    <3>1. CASE \E g \in Hosts : Bootstrapped(g)
      BY <1>1, <3>1, <2>0 DEF Bootstrapped, TypeOK
    <3>2. CASE \E g \in Hosts : Leaves(g) \/ Forgotten(g) \/ JobRuns(g) \/ Fails(g)
                               \/ Crash(g) \/ Repair(g) \/ LeaveByHand(g)
      BY <1>1, <3>2 DEF Leaves, Forgotten, JobRuns, Fails, Crash, Repair, LeaveByHand
    <3>. QED BY <2>7, <3>1, <3>2 DEF HostStep, Cassandra
  <2>8. CASE UNCHANGED vars
    BY <1>1, <2>8 DEF vars, hosts
  <2>. QED BY <1>1, <2>1, <2>2, <2>3, <2>4, <2>5, <2>6, <2>7, <2>8
           DEF Next, Controller, LaunchOtherwise, HostStep
<1>2. ASSUME IInv, NEW h \in Hosts, pc = "stop", h = plan.remove[at]
      PROVE  node[h] \in {"left", "lagging", "decommissioned", "out", "dead_left"}
  BY <1>2 DEF IInv, StreamedInv, Streamed, OutOfRing
<1>3. IInv /\ [Next]_vars =>
         [\A h \in Hosts : data[h] = "member" =>
            /\ data'[h] = "none" => node[h] = "out" /\ (plan.explicit \/ mark[h])
            /\ (pc = "stop" /\ pc' = "gone" /\ h = plan.remove[at]) =>
                  node[h] \in {"left", "lagging", "decommissioned", "out", "dead_left"}
         ]_vars
  BY <1>1, <1>2
<1>. QED BY <1>3, RunsKeepInv, PTL DEF Spec, DataKept

(* A node is started with a member among its seeds, and not as its own     *)
(* seed (JoinsThroughMember): it bootstraps.                               *)
THEOREM NodesBootstrap == Spec => JoinsThroughMember
<1>1. ASSUME IInv, [Next]_vars, NEW h \in Hosts,
             pc = "start", node[h] = "out", node'[h] = "joining"
      PROVE  h \notin live'[h] /\ \E g \in live'[h] : Member(g)
  <2>0. TypeOK
    BY <1>1 DEF IInv
  <2>1. StartNode /\ h = plan.add[at]
    <3>1. CASE \E g \in Hosts : HostStep(g)
      BY <1>1, <2>0, <3>1, HostStepDoes DEF GoesOn
    <3>2. CASE StartNode
      BY <1>1, <3>2, <2>0 DEF StartNode, TypeOK
    <3>3. CASE \E silent, explicit : Launch(silent, explicit)
      BY <1>1, <3>3, Zenon DEF Launch
    <3>4. CASE \E g \in Hosts : Reset(g) \/ Prepare(g) \/ WriteSeeds(g) \/ ReloadSeeds(g)
      BY <1>1, <3>4 DEF Reset, Prepare, WriteSeeds, ReloadSeeds
    <3>5. CASE \/ ResetOver \/ PrepareOver \/ AddCheck \/ MarkBootstrap \/ WaitJoin
               \/ Unmark \/ AddedCheck \/ LeaveCheck \/ LaunchJob \/ WaitLeave
               \/ WaitStalls \/ LeftCheck \/ Close \/ StopLeft
      BY <1>1, <3>5 DEF ResetOver, PrepareOver, AddCheck, MarkBootstrap, WaitJoin,
            Unmark, AddedCheck, LeaveCheck, LaunchJob, WaitLeave, WaitStalls, LeftCheck,
            Close, StopLeft
    <3>6. CASE Interrupt \/ UNCHANGED vars
      BY <1>1, <3>6 DEF Interrupt, vars, hosts
    <3>7. CASE \/ \E g \in Hosts : EditNodes(g) \/ StartByHand(g) \/ RemoveDead(g)
               \/ \E list \in SeedLists : EditSeeds(list)
      BY <1>1, <3>7 DEF EditNodes, StartByHand, RemoveDead, EditSeeds, Edit, Quiet
    <3>. QED BY <1>1, <3>1, <3>2, <3>3, <3>4, <3>5, <3>6, <3>7
             DEF Next, Controller, LaunchOtherwise, HostStep
  <2>2. h \in plan.new /\ file[h] = join /\ live'[h] = join
    BY <1>1, <2>0, <2>1 DEF IInv, JoinInv, AddSteps, StartNode, TypeOK
  <2>. QED BY <1>1, <2>2 DEF IInv, JoinInv, AddSteps
<1>2. IInv /\ [Next]_vars =>
         [\A h \in Hosts : pc = "start" /\ node[h] = "out" /\ node'[h] = "joining" =>
             h \notin live'[h] /\ \E g \in live'[h] : Member(g)]_vars
  BY <1>1
<1>. QED BY <1>2, RunsKeepInv, PTL DEF Spec, JoinsThroughMember
=============================================================================
