---------------------------- MODULE NodeChanges ----------------------------
(***************************************************************************)
(* The playbook topology, run as often as it takes: it adds the hosts of   *)
(* the inventory that are not in the ring (add_node), puts the seed list   *)
(* on every node, then removes the hosts marked absent                     *)
(* (decommission_node), one node at a time.  Runs are interrupted, nodes   *)
(* crash, bootstraps and decommissions fail, the operator edits the        *)
(* inventory between two runs; nothing is kept on the controller from one  *)
(* run to the next, the plan is worked out again from the ring.            *)
(*                                                                         *)
(*   playbooks/topology.yml, add_node.yml, decommission_node.yml           *)
(*   roles/cassandra_service/tasks/action_add.yml, action_decommission.yml,*)
(*     node_operation.yml, seeds_apply.yml, reset_node.yml                 *)
(*   plugins/modules/cassandra_decommission.py (the async job),            *)
(*   plugins/filter/cassandra_stream.py (cassandra_stream_status)          *)
(*                                                                         *)
(* What a node is, by its process and by what the ring remembers of it:    *)
(*   out        stopped, in no ring                                        *)
(*   down       stopped, DN in the ring                                    *)
(*   dead_join  stopped in its bootstrap, DJ until gossip forgets it       *)
(*   dead_left  decommissioned and stopped, DL until gossip forgets it     *)
(*   left       LEAVING still, the ring has dropped it                     *)
(*   lagging    DECOMMISSIONED, the ring still shows it                    *)
(*   the others are nodetool's modes                                       *)
(***************************************************************************)
EXTENDS TopologyPlan

CONSTANTS Founders,   \* the members of the cluster at first
          SeedLists,  \* the values the operator gives cassandra_seeds
          MaxFaults,  \* bound: crashes, failed bootstraps and decommissions
          MaxStops,   \* bound: runs interrupted
          MaxEdits    \* bound: what the operator does between runs

ASSUME SeedListsAssumption == SeedLists \subseteq SUBSET Hosts

VARIABLES absent,  \* host -> marked cassandra_node_state: absent
          seeds,   \* cassandra_seeds
          node,    \* host -> what it is
          data,    \* host -> what its directories hold
          mark,    \* host -> the mark of a bootstrap started there
          file,    \* host -> the seeds of its cassandra.yaml
          live,    \* host -> the seeds its Cassandra runs with
          job,     \* host -> its decommission job
          pc, plan, join, at, todo,   \* the run: its step, its plan,
                   \* the seeds new nodes join with, the position in the
                   \* plan, the hosts a step has still to do
          faults, stops, edits

hosts == <<node, data, mark, file, live, job>>
inventory == <<absent, seeds>>
run == <<pc, plan, join, at, todo>>
bounds == <<faults, stops, edits>>
vars == <<hosts, inventory, run, bounds>>

CodeOf == [out |-> "absent", down |-> "DN", dead_join |-> "DJ",
           dead_left |-> "DL",
           joining |-> "UJ", joining_failed |-> "UJ", normal |-> "UN",
           leaving |-> "UL", decommission_failed |-> "UL", left |-> "absent",
           lagging |-> "UL", decommissioned |-> "absent"]
ModeOf == [out |-> "off", down |-> "off", dead_join |-> "off", dead_left |-> "off",
           joining |-> "JOINING", joining_failed |-> "JOINING_FAILED",
           normal |-> "NORMAL", leaving |-> "LEAVING",
           decommission_failed |-> "DECOMMISSION_FAILED", left |-> "LEAVING",
           lagging |-> "DECOMMISSIONED", decommissioned |-> "DECOMMISSIONED"]

Mode(h) == ModeOf[node[h]]
Running(h) == Mode(h) # "off"
Member(h) == node[h] \in {"normal", "down"}

(* What a run reads of the hosts; silent: the hosts marked absent it does  *)
(* not reach.                                                              *)
Reading(silent) ==
    [h \in Hosts |-> [absent |-> absent[h], reachable |-> h \notin silent,
                      code |-> CodeOf[node[h]], mode |-> Mode(h),
                      data |-> data[h], mark |-> mark[h], file |-> file[h]]]

Now == Reading({})

(* The cluster health check: the ring as every node shows it.              *)
Healthy(expected, joiningOk, leavingOk) ==
    LET ring == {h \in Hosts : InRing(Now, h)}
    IN /\ Cardinality(ring) = expected
       /\ \A h \in ring : \/ Now[h].code = "UN"
                          \/ Now[h].code = "UJ" /\ h \in joiningOk
                          \/ Now[h].code = "UL" /\ h \in leavingOk

Init ==
    /\ absent = [h \in Hosts |-> FALSE]
    /\ seeds \in SeedLists
    /\ node = [h \in Hosts |-> IF h \in Founders THEN "normal" ELSE "out"]
    /\ data = [h \in Hosts |-> IF h \in Founders THEN "member" ELSE "none"]
    /\ mark = [h \in Hosts |-> FALSE]
    /\ file = [h \in Hosts |-> IF h \in Founders THEN seeds ELSE {}]
    /\ live = file
    /\ job = [h \in Hosts |-> "none"]
    /\ pc = "idle" /\ plan = NothingPlan /\ join = {} /\ at = 0 /\ todo = {}
    /\ faults = 0 /\ stops = 0 /\ edits = 0

(***************************************************************************)
(* The run                                                                 *)
(***************************************************************************)
Goto(step) == pc' = step /\ UNCHANGED <<plan, join, at, todo>>
Ended == Goto("ended")

(* Nothing of a run is kept on the controller for the next one.            *)
Failed ==
    pc' = "idle" /\ plan' = NothingPlan /\ join' = {} /\ at' = 0 /\ todo' = {}
ForEach(step, set) == pc' = step /\ todo' = set /\ UNCHANGED <<plan, join, at>>

(* No run, and no job a run left that has not begun.                       *)
Quiet == pc = "idle" /\ \A h \in Hosts : job[h] # "launched"

(* The preflight removes the mark of a bootstrap that went through.        *)
AfterPreflight(silent) ==
    [h \in Hosts |-> [Reading(silent)[h] EXCEPT
                         !.mark = @ /\ ~(~absent[h] /\ node[h] = "normal")]]

(* Then everything is read, and the plan refused, empty, or confirmed.     *)
Launch(silent, explicit) ==
    /\ Quiet
    /\ silent \subseteq {h \in Hosts : absent[h]}
    /\ \E read \in {AfterPreflight(silent)} :
          /\ Up(read) # {} /\ SeedsUp(read, seeds)
          /\ mark' = [h \in Hosts |-> read[h].mark]
          /\ \E p \in {Plan(read, seeds, explicit)} :
                IF p.problem THEN UNCHANGED run
                ELSE /\ pc' = IF Todo(p) THEN "reset" ELSE "ended"
                     /\ plan' = p
                     /\ join' = JoinSeeds(read, seeds)
                     /\ todo' = p.new
                     /\ at' = 1
    /\ UNCHANGED <<node, data, file, live, job, inventory, bounds>>

(* add_node's reset of the hosts to add that hold data: Cassandra is       *)
(* looked for again, then everything is deleted, the mark too.             *)
Reset(h) ==
    /\ pc = "reset" /\ h \in todo
    /\ IF data[h] = "none" THEN ForEach("reset", todo \ {h}) /\ UNCHANGED hosts
       ELSE IF Running(h) THEN Failed /\ UNCHANGED hosts
       ELSE /\ data' = [data EXCEPT ![h] = "none"]
            /\ mark' = [mark EXCEPT ![h] = FALSE]
            /\ ForEach("reset", todo \ {h})
            /\ UNCHANGED <<node, file, live, job>>
    /\ UNCHANGED <<inventory, bounds>>

ResetOver ==
    /\ pc = "reset" /\ todo = {}
    /\ ForEach("prepare", plan.new)
    /\ UNCHANGED <<hosts, inventory, bounds>>

(* The config of a new node: the seeds it joins with, never itself.        *)
Prepare(h) ==
    /\ pc = "prepare" /\ h \in todo
    /\ file' = [file EXCEPT ![h] = join]
    /\ ForEach("prepare", todo \ {h})
    /\ UNCHANGED <<node, data, mark, live, job, inventory, bounds>>

(* The seed step is for every node of the group, the files already right   *)
(* too: a run may have stopped between the write and the reload.           *)
AfterAdds == pc' = "write" /\ todo' = Present(Now) /\ at' = 1 /\ UNCHANGED <<plan, join>>

PrepareOver ==
    /\ pc = "prepare" /\ todo = {}
    /\ IF plan.add = <<>> THEN AfterAdds ELSE Goto("add")
    /\ UNCHANGED <<hosts, inventory, bounds>>

(* Around each node added: the ring has the group's nodes but the new ones *)
(* from here on, and the hosts to remove; the bootstraps an earlier run    *)
(* started are joining.                                                    *)
AddsLeft == ToSet(SubSeq(plan.add, at, Len(plan.add)))
AddExpected == Cardinality(Present(Now)) - Cardinality(AddsLeft \cap plan.new)
               + Cardinality(plan.inRing)
AddJoining == AddsLeft \ plan.new

AddCheck ==
    LET h == plan.add[at]
    IN /\ pc = "add"
       /\ IF Healthy(AddExpected, AddJoining, {})
          THEN Goto(IF h \in plan.new THEN "mark" ELSE "wait_join")
          ELSE Failed
       /\ UNCHANGED <<hosts, inventory, bounds>>

MarkBootstrap ==
    /\ pc = "mark"
    /\ mark' = [mark EXCEPT ![plan.add[at]] = TRUE]
    /\ Goto("start")
    /\ UNCHANGED <<node, data, file, live, job, inventory, bounds>>

StartNode ==
    LET h == plan.add[at]
    IN /\ pc = "start"
       /\ node' = [node EXCEPT ![h] = "joining"]
       /\ data' = [data EXCEPT ![h] = "partial"]
       /\ live' = [live EXCEPT ![h] = file[h]]
       /\ Goto("wait_join")
       /\ UNCHANGED <<mark, file, job, inventory, bounds>>

(* Mutant: the end of the async job alone ends the wait, done or not.      *)
StreamStatusJob(waitsFor, mode, itsJob) ==
    IF mode = waitsFor \/ itsJob \in {"changed", "unchanged"} THEN "done"
    ELSE IF itsJob = "failed" THEN "job_failed"
    ELSE IF mode \in {"JOINING_FAILED", "DECOMMISSION_FAILED"} THEN "failed"
    ELSE IF mode = "off" THEN "stopped" ELSE "going"

(* Where a join (waitsFor NORMAL) or a decommission (DECOMMISSIONED) is: a *)
(* job that changed nothing found the node leaving already and ends        *)
(* nothing.                                                                *)
StreamStatus(waitsFor, mode, itsJob) ==
    IF mode = waitsFor \/ itsJob = "changed" THEN "done"
    ELSE IF itsJob = "failed" THEN "job_failed"
    ELSE IF mode \in {"JOINING_FAILED", "DECOMMISSION_FAILED"} THEN "failed"
    ELSE IF mode = "off" THEN "stopped" ELSE "going"

WaitJoin ==
    LET status == StreamStatus("NORMAL", Mode(plan.add[at]), "none")
    IN /\ pc = "wait_join" /\ status # "going"
       /\ IF status = "done" THEN Goto("unmark") ELSE Failed
       /\ UNCHANGED <<hosts, inventory, bounds>>

Unmark ==
    /\ pc = "unmark"
    /\ mark' = [mark EXCEPT ![plan.add[at]] = FALSE]
    /\ Goto("added")
    /\ UNCHANGED <<node, data, file, live, job, inventory, bounds>>

AddedCheck ==
    LET h == plan.add[at]
    IN /\ pc = "added"
       /\ IF ~Healthy(AddExpected + (IF h \in plan.new THEN 1 ELSE 0), AddJoining \ {h}, {})
          THEN Failed
          ELSE IF at = Len(plan.add) THEN AfterAdds
          ELSE pc' = "add" /\ at' = at + 1 /\ UNCHANGED <<plan, join, todo>>
       /\ UNCHANGED <<hosts, inventory, bounds>>

(* cassandra_seeds on every node: the seeds line of its file, then a       *)
(* running Cassandra reloads it.                                           *)
WriteSeeds(h) ==
    /\ pc = "write" /\ h \in todo
    /\ file' = [file EXCEPT ![h] = plan.seeds]
    /\ IF todo = {h} THEN ForEach("reload", Present(Now)) ELSE ForEach("write", todo \ {h})
    /\ UNCHANGED <<node, data, mark, live, job, inventory, bounds>>

ReloadSeeds(h) ==
    /\ pc = "reload" /\ h \in todo
    /\ live' = [live EXCEPT ![h] = IF Running(h) THEN file[h] ELSE @]
    /\ IF todo # {h} THEN ForEach("reload", todo \ {h})
       ELSE ForEach(IF plan.remove = <<>> THEN "ended" ELSE "leave", {})
    /\ UNCHANGED <<node, data, mark, file, job, inventory, bounds>>

(* Around each node removed: the nodes that stay, the ones to remove after *)
(* it, and itself while the ring has it.                                   *)
OthersInRing == ToSet(SubSeq(plan.remove, at + 1, Len(plan.remove))) \cap plan.inRing
LeaveExpected(h) == Cardinality(Present(Now)) + Cardinality(OthersInRing)
                    + (IF InRing(Now, h) THEN 1 ELSE 0)

LeaveCheck ==
    LET h == plan.remove[at]
        state == LeavingState(Now, h)
    IN /\ pc = "leave"
       /\ IF \/ state = "failed"
             \/ ~Healthy(LeaveExpected(h), {}, IF state = "leaving" THEN {h} ELSE {})
          THEN Failed
          ELSE Goto(CASE state = "normal" -> "job"
                      [] state = "leaving" -> "wait_leave"
                      [] OTHER -> "stop")
       /\ job' = [job EXCEPT ![h] = "none"]
       /\ UNCHANGED <<node, data, mark, file, live, inventory, bounds>>

LaunchJob ==
    /\ pc = "job"
    /\ job' = [job EXCEPT ![plan.remove[at]] = "launched"]
    /\ Goto("wait_leave")
    /\ UNCHANGED <<node, data, mark, file, live, inventory, bounds>>

(* cassandra_decommission, on the node, whether the run still waits or not.*)
JobRuns(h) ==
    /\ job[h] = "launched"
    /\ CASE Mode(h) = "NORMAL" -> /\ node' = [node EXCEPT ![h] = "leaving"]
                                  /\ job' = [job EXCEPT ![h] = "running"]
         [] Mode(h) \in {"LEAVING", "DECOMMISSIONED"} ->
                                  /\ job' = [job EXCEPT ![h] = "unchanged"]
                                  /\ UNCHANGED node
         [] OTHER -> job' = [job EXCEPT ![h] = "failed"] /\ UNCHANGED node
    /\ UNCHANGED <<data, mark, file, live, inventory, run, bounds>>

WaitLeave ==
    LET h == plan.remove[at]
        status == StreamStatus("DECOMMISSIONED", Mode(h), job[h])
    IN /\ pc = "wait_leave" /\ status # "going"
       /\ IF status = "done" THEN Goto("stop") ELSE Failed
       /\ UNCHANGED <<hosts, inventory, bounds>>

(* Mutant: the wait goes on as long as nothing failed.                     *)
WaitStallsNever == FALSE

(* A decommission that is no more (the node was restarted, which cancels   *)
(* it) streams nothing: the wait gives up after its stall time.            *)
WaitStalls ==
    LET h == plan.remove[at]
    IN /\ pc = "wait_leave"
       /\ node[h] = "normal" /\ job[h] \notin {"launched", "failed", "changed"}
       /\ Failed
       /\ UNCHANGED <<hosts, inventory, bounds>>

(* What a node whose Cassandra stops is.                                   *)
Stopped(state) ==
    CASE state \in {"joining", "joining_failed", "dead_join"} -> "dead_join"
      [] state \in {"lagging", "dead_left"} -> "dead_left"
      [] state \in {"left", "decommissioned", "out"} -> "out"
      [] OTHER -> "down"

StopLeft ==
    LET h == plan.remove[at]
    IN /\ pc = "stop"
       /\ node' = [node EXCEPT ![h] = Stopped(@)]
       /\ Goto("gone")
       /\ UNCHANGED <<data, mark, file, live, job, inventory, bounds>>

LeftCheck ==
    /\ pc = "gone"
    /\ IF ~Healthy(Cardinality(Present(Now)) + Cardinality(OthersInRing), {}, {}) THEN Failed
       ELSE IF at = Len(plan.remove) THEN Ended
       ELSE pc' = "leave" /\ at' = at + 1 /\ UNCHANGED <<plan, join, todo>>
    /\ UNCHANGED <<hosts, inventory, bounds>>

Close ==
    /\ pc = "ended"
    /\ Failed
    /\ UNCHANGED <<hosts, inventory, bounds>>

(* Ctrl-C, the controller lost, a task that fails, a wait given up.        *)
Interrupt ==
    /\ pc \notin {"idle", "ended"} /\ stops < MaxStops
    /\ stops' = stops + 1
    /\ Failed
    /\ UNCHANGED <<hosts, inventory, faults, edits>>

(***************************************************************************)
(* Cassandra                                                               *)
(***************************************************************************)
Bootstrapped(h) ==
    /\ node[h] = "joining"
    /\ node' = [node EXCEPT ![h] = "normal"]
    /\ data' = [data EXCEPT ![h] = "member"]
    /\ UNCHANGED <<mark, file, live, job, inventory, run, bounds>>

Leaves(h) ==
    /\ \/ node[h] = "leaving" /\ \E s \in {"left", "lagging"} : node' = [node EXCEPT ![h] = s]
       \/ node[h] \in {"left", "lagging"} /\ node' = [node EXCEPT ![h] = "decommissioned"]
    /\ job' = [job EXCEPT ![h] = IF @ = "running" /\ node'[h] # "left" THEN "changed" ELSE @]
    /\ UNCHANGED <<data, mark, file, live, inventory, run, bounds>>

JobBroken(h) == job' = [job EXCEPT ![h] = IF @ = "running" THEN "failed" ELSE @]

Fails(h) ==
    /\ faults < MaxFaults
    /\ node[h] \in {"joining", "leaving"}
    /\ node' = [node EXCEPT ![h] = IF @ = "joining" THEN "joining_failed"
                                   ELSE "decommission_failed"]
    /\ JobBroken(h)
    /\ faults' = faults + 1
    /\ UNCHANGED <<data, mark, file, live, inventory, run, stops, edits>>

Crash(h) ==
    /\ faults < MaxFaults /\ Running(h)
    /\ node' = [node EXCEPT ![h] = Stopped(@)]
    /\ JobBroken(h)
    /\ faults' = faults + 1
    /\ UNCHANGED <<data, mark, file, live, inventory, run, stops, edits>>

(* Gossip forgets a node that died in its bootstrap, and one that has left.*)
Forgotten(h) ==
    /\ node[h] \in {"dead_join", "dead_left"}
    /\ node' = [node EXCEPT ![h] = "out"]
    /\ UNCHANGED <<data, mark, file, live, job, inventory, run, bounds>>

(***************************************************************************)
(* The operator                                                            *)
(***************************************************************************)
(* A dead node is started again; a failed bootstrap is stopped, a failed   *)
(* decommission cancelled by a restart.                                    *)
Repair(h) ==
    /\ node' = [node EXCEPT ![h] = CASE @ \in {"down", "decommission_failed"} -> "normal"
                                     [] @ = "joining_failed" -> "dead_join"
                                     [] OTHER -> @]
    /\ node' # node
    /\ live' = [live EXCEPT ![h] = file[h]]
    /\ UNCHANGED <<data, mark, file, job, inventory, run, bounds>>

Edit == Quiet /\ edits < MaxEdits /\ edits' = edits + 1 /\ UNCHANGED <<faults, stops>>

EditNodes(h) ==
    /\ Edit
    /\ absent' = [absent EXCEPT ![h] = ~@]
    /\ UNCHANGED <<seeds, hosts, run>>

EditSeeds(list) ==
    /\ Edit
    /\ list # seeds /\ seeds' = list
    /\ UNCHANGED <<absent, hosts, run>>

(* A failed bootstrap started again by hand, from the data it has.         *)
StartByHand(h) ==
    /\ Edit
    /\ node[h] = "out" /\ data[h] = "partial"
    /\ node' = [node EXCEPT ![h] = "joining"]
    /\ live' = [live EXCEPT ![h] = file[h]]
    /\ UNCHANGED <<data, mark, file, job, inventory, run>>

(* remove_dead_node: out of the ring, its data still on its disks.         *)
RemoveDead(h) ==
    /\ Edit
    /\ node[h] = "down"
    /\ node' = [node EXCEPT ![h] = "out"]
    /\ UNCHANGED <<data, mark, file, live, job, inventory, run>>

(* A decommission begun by hand after the run has looked at the node.      *)
LeaveByHand(h) ==
    /\ edits < MaxEdits
    /\ pc \in {"job", "wait_leave"} /\ h = plan.remove[at] /\ job[h] \in {"none", "launched"}
    /\ node[h] = "normal"
    /\ node' = [node EXCEPT ![h] = "leaving"]
    /\ edits' = edits + 1
    /\ UNCHANGED <<data, mark, file, live, job, inventory, run, faults, stops>>

Controller ==
    \/ Launch({}, FALSE)
    \/ \E h \in Hosts : Reset(h) \/ Prepare(h) \/ WriteSeeds(h) \/ ReloadSeeds(h)
    \/ ResetOver \/ PrepareOver \/ AddCheck \/ MarkBootstrap \/ StartNode
    \/ WaitJoin \/ Unmark \/ AddedCheck \/ LeaveCheck \/ LaunchJob
    \/ WaitLeave \/ WaitStalls \/ StopLeft \/ LeftCheck \/ Close

(* The hosts marked absent that do not answer, the operator's word on what *)
(* add_node may delete.                                                    *)
LaunchOtherwise ==
    \E silent \in SUBSET Hosts, explicit \in BOOLEAN :
        (silent # {} \/ explicit) /\ Launch(silent, explicit)

Cassandra(h) == Bootstrapped(h) \/ Leaves(h) \/ Forgotten(h) \/ JobRuns(h)

Next ==
    \/ Controller
    \/ LaunchOtherwise
    \/ Interrupt
    \/ \E h \in Hosts : \/ Cassandra(h) \/ Fails(h) \/ Crash(h) \/ Repair(h)
                        \/ EditNodes(h) \/ StartByHand(h) \/ RemoveDead(h)
                        \/ LeaveByHand(h)
    \/ \E list \in SeedLists : EditSeeds(list)

Spec == Init /\ [][Next]_vars

(* The operator runs topology again, every host answering, and repairs     *)
(* what broke; Cassandra gets on with what it does.                        *)
FairSpec ==
    /\ Spec
    /\ WF_vars(Controller)
    /\ WF_vars(\E h \in Hosts : Cassandra(h) \/ Repair(h))

(***************************************************************************)
(* Properties                                                              *)
(***************************************************************************)
(* No node begins to leave unless what is left can do without it: the      *)
(* hosts that stay are all members by then, none of them has the node      *)
(* among the seeds of its file or of its running Cassandra, and its        *)
(* datacenter keeps as many members as the keyspaces have replicas there.  *)
(* action_decommission.yml runs it last, after the adds and the seeds, and *)
(* a job launched by a run that stopped begins when it begins.             *)
LeavesSafely ==
    [][\A h \in Hosts : node[h] = "normal" /\ node'[h] = "leaving" =>
        /\ \A g \in Present(Now) :
              Member(g) /\ h \notin file[g] /\ (Running(g) => h \notin live[g])
        /\ Dc[h] \in DOMAIN Rf =>
              Cardinality({g \in Hosts \ {h} : Member(g) /\ Dc[g] = Dc[h]}) >= Rf[Dc[h]]
      ]_vars

(* The run takes no data away that count.  It deletes a former member's    *)
(* only on a stopped node, on the operator's word or where the mark of one *)
(* of our bootstraps is left; it stops a node to remove once its data have *)
(* been streamed, also when the decommission was begun by an earlier run   *)
(* and the job of this one had nothing to do.                              *)
DataKept ==
    [][\A h \in Hosts : data[h] = "member" =>
        /\ data'[h] = "none" => node[h] = "out" /\ (plan.explicit \/ mark[h])
        /\ (pc = "stop" /\ pc' = "gone" /\ h = plan.remove[at]) =>
              node[h] \in {"left", "lagging", "decommissioned", "out", "dead_left"}
      ]_vars

(* A node add_node starts has a seed that is a member, and is not its own  *)
(* seed: it would join without its bootstrap, and own ranges it has none   *)
(* of the data of.                                                         *)
JoinsThroughMember ==
    [][\A h \in Hosts : pc = "start" /\ node[h] = "out" /\ node'[h] = "joining" =>
        h \notin live'[h] /\ \E g \in live'[h] : Member(g)]_vars

(* The cluster is what the inventory asks: every present host in the ring  *)
(* and through with its bootstrap, every host marked absent out of the     *)
(* ring, and the same seeds in every file, the ones asked for at least.    *)
AsInventory ==
    /\ \A h \in Present(Now) : /\ Now[h].code \notin {"absent", "UJ", "DJ"}
                               /\ seeds \subseteq file[h]
    /\ \A g, h \in Present(Now) : file[g] = file[h]
    /\ \A h \in Hosts : absent[h] => ~InRing(Now, h)

(* Run again after every stop and repaired after every fault, the cluster  *)
(* comes to what the inventory asks, unless the plan says why it cannot:   *)
(* a run stopped anywhere leaves nothing the next ones do not finish.      *)
Refused == ~SeedsUp(Now, seeds) \/ Plan(Now, seeds, FALSE).problem

Converges == <>[](AsInventory \/ Refused)
=============================================================================
