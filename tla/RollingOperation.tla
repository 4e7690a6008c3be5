-------------------------- MODULE RollingOperation --------------------------
(***************************************************************************)
(* The rolling operations of roles/cassandra_service: rolling_restart and  *)
(* rolling_reboot (rolling_restart.yml in its node mode, rolling_reboot.yml*)
(* -> progress.yml, then node_operation.yml for one host at a time).       *)
(*                                                                         *)
(* For each host in the inventory's order: skip it when the run's copy of  *)
(* the progress file lists it; check the cluster from the node and from    *)
(* another one; drain; restart the service or reboot the host; wait until  *)
(* the node has joined; check again; add it to the progress file.  The run *)
(* stops at the first problem, the controller may stop at any step, and a  *)
(* later run starts afresh or resumes the latest progress file.            *)
(*                                                                         *)
(* Cassandra and systemd are external: a node is reduced to its mode and   *)
(* to the nodes it shows up.  A drain or a stop is announced by gossip at  *)
(* once, a crash is noticed later, by each node in its own time.           *)
(***************************************************************************)
EXTENDS Naturals, Sequences, FiniteSets, ClusterHealth

CONSTANTS
    Nodes,                 \* the hosts of the cluster
    Order,                 \* the same in the inventory's order (ansible_play_hosts_all)
    Operations,            \* \subseteq {"restart", "reboot"}
    DrainedShowsItselfUp,  \* a drained node's own nodetool status shows it UN
                           \* (Cassandra), or in a state of its own, S (DSE)
    FollowsHint,           \* a stopped run is resumed, as its last message asks
    MaxCrashes,            \* bound: crashes of a node
    MaxFaults              \* bound: interruptions of the controller, drains refused, timeouts

ASSUME OrderAssumption ==
    /\ IsFiniteSet(Nodes)
    /\ Order \in Seq(Nodes)
    /\ \A n \in Nodes : \E i \in 1 .. Len(Order) : Order[i] = n
    /\ \A i, j \in 1 .. Len(Order) : Order[i] = Order[j] => i = j

ASSUME OperationsAssumption == Operations \subseteq {"restart", "reboot"}

ASSUME BoundsAssumption ==
    /\ MaxCrashes \in Nat
    /\ MaxFaults \in Nat
    /\ DrainedShowsItselfUp \in BOOLEAN
    /\ FollowsHint \in BOOLEAN

VARIABLES
    mode,        \* node -> what its netstats, its unit or its host would say
    up,          \* node -> the nodes its gossip shows up
    pc,          \* the task the run is at, "idle" when no run is going
    op,          \* the operation of the current or last run
    resuming,    \* cassandra_rolling_resume
    cur,         \* index in Order of the host the play is at
    done,        \* cassandra_progress_done: the file as read at the run's start
    resumed,     \* _cassandra_resumed_node: found drained or stopped, may be down
    finished,    \* the last run went through every host
    files,       \* the operations that have a progress file
    file,        \* operation -> the hosts its latest progress file lists
    taken,       \* history: nodes an operation took down, not back yet
    restarted,   \* history: operation -> nodes restarted since its file was made
    knownDown,   \* history: down, and shown so by all, since before the node's checks
    unseen,      \* history: down nodes the check of a resumed host could not show
    crashes, faults

cluster == <<mode, up>>
run     == <<pc, op, resuming, cur, done, resumed, finished>>
disk    == <<files, file>>
budget  == <<crashes, faults>>
vars    == <<mode, up, pc, op, resuming, cur, done, resumed, finished, files,
             file, taken, restarted, knownDown, unseen, crashes, faults>>

Modes == {"NORMAL", "DRAINING", "DRAINED", "STOPPED", "STARTING", "REBOOTING"}

Phases == {"idle", "play", "before_self", "before_peer", "drain", "draining",
           "act", "boot", "wait", "after_self", "after_peer", "record"}

N == Len(Order)
Host == Order[cur]

TypeOK ==
    /\ mode \in [Nodes -> Modes]
    /\ up \in [Nodes -> SUBSET Nodes]
    /\ pc \in Phases
    /\ op \in Operations
    /\ resuming \in BOOLEAN
    /\ cur \in 1 .. N + 1
    /\ pc \notin {"idle", "play"} => cur \in 1 .. N
    /\ done \subseteq Nodes
    /\ resumed \in BOOLEAN
    /\ finished \in BOOLEAN
    /\ files \subseteq Operations
    /\ file \in [Operations -> SUBSET Nodes]
    /\ taken \subseteq Nodes
    /\ restarted \in [Operations -> SUBSET Nodes]
    /\ knownDown \subseteq Nodes
    /\ unseen \subseteq Nodes
    /\ crashes \in 0 .. MaxCrashes
    /\ faults \in 0 .. MaxFaults

Init ==
    /\ mode = [n \in Nodes |-> "NORMAL"]
    /\ up = [n \in Nodes |-> Nodes]
    /\ pc = "idle"
    /\ op \in Operations
    /\ resuming = FALSE
    /\ cur = 1
    /\ done = {}
    /\ resumed = FALSE
    /\ finished = TRUE
    /\ files = {}
    /\ file = [o \in Operations |-> {}]
    /\ taken = {}
    /\ restarted = [o \in Operations |-> {}]
    /\ knownDown = {}
    /\ unseen = {}
    /\ crashes = 0
    /\ faults = 0

-----------------------------------------------------------------------------
(* The nodes, external: Cassandra, systemd, the hosts.                     *)

(* A drain or a stop says so to the nodes that gossip.                     *)
Announced(n) ==
    [m \in Nodes |-> IF m # n /\ mode[m] = "NORMAL" THEN up[m] \ {n} ELSE up[m]]

(* The JVM dies (or could not start): nobody is told.                      *)
Crash(n) ==
    /\ mode[n] \in {"NORMAL", "DRAINING", "DRAINED", "STARTING"}
    /\ crashes < MaxCrashes
    /\ crashes' = crashes + 1
    /\ mode' = [mode EXCEPT ![n] = "STOPPED"]
    /\ UNCHANGED <<up, run, disk, taken, restarted, knownDown, unseen, faults>>

(* Started by hand, or by its unit (cassandra_service_restart).            *)
Repair(n) ==
    /\ mode[n] = "STOPPED"
    /\ mode' = [mode EXCEPT ![n] = "STARTING"]
    /\ UNCHANGED <<up, run, disk, taken, restarted, knownDown, unseen, budget>>

HostBoots(n) ==
    /\ mode[n] = "REBOOTING"
    /\ mode' = [mode EXCEPT ![n] = "STARTING"]
    /\ UNCHANGED <<up, run, disk, taken, restarted, knownDown, unseen, budget>>

DrainCompletes(n) ==
    /\ mode[n] = "DRAINING"
    /\ mode' = [mode EXCEPT ![n] = "DRAINED"]
    /\ UNCHANGED <<up, run, disk, taken, restarted, knownDown, unseen, budget>>

(* Mode NORMAL again; it hears of the live nodes as it joins.              *)
Joined(n) ==
    /\ mode[n] = "STARTING"
    /\ mode' = [mode EXCEPT ![n] = "NORMAL"]
    /\ up' = [up EXCEPT ![n] = {n} \cup {m \in Nodes : mode[m] = "NORMAL"}]
    /\ taken' = taken \ {n}
    /\ knownDown' = knownDown \ {n}
    /\ unseen' = unseen \ {n}
    /\ UNCHANGED <<run, disk, restarted, budget>>

(* A node that gossips notices what became of another.                     *)
Notices(m, n) ==
    /\ m # n
    /\ mode[m] = "NORMAL"
    /\ (n \in up[m]) # (mode[n] = "NORMAL")
    /\ up' = [up EXCEPT ![m] = IF n \in @ THEN @ \ {n} ELSE @ \cup {n}]
    /\ UNCHANGED <<mode, run, disk, taken, restarted, knownDown, unseen, budget>>

-----------------------------------------------------------------------------
(* What the checks read.                                                   *)

(* nodetool answers from a JVM past its start.                             *)
Answers(m) == mode[m] \in {"NORMAL", "DRAINING", "DRAINED"}

Shown(m, n) ==
    IF m = n
    THEN IF mode[m] = "NORMAL" \/ DrainedShowsItselfUp THEN "UN" ELSE "US"
    ELSE IF n \in up[m] THEN "UN" ELSE "DN"

View(m) == [from |-> m, answered |-> Answers(m),
            ring |-> [n \in Nodes |-> Shown(m, n)]]

(* Gossip and the native transport run in Mode NORMAL only.                *)
Checks(n) ==
    [c \in {"gossip", "cql"} |->
        IF ~Answers(n) THEN "unasked" ELSE IF mode[n] = "NORMAL" THEN "ok" ELSE "bad"]

(* _cassandra_health_peer: the first other host; the node expected down is *)
(* the node itself, never a candidate.                                     *)
Peer(n) ==
    IF \E i \in 1 .. N : Order[i] # n
    THEN Order[CHOOSE i \in 1 .. N :
                  Order[i] # n /\ \A j \in 1 .. (i - 1) : Order[j] = n]
    ELSE n

SelfFindings(n) ==
    ViewFindings(View(n), Cardinality(Nodes), NoneExpected)
        \cup NodeFindings(n, Checks(n), Answers(n))

PeerFindings(n, ok) == ViewFindings(View(Peer(n)), Cardinality(Nodes), ok)

(* Mutant: a resumed node's check forgives every node down.                *)
DownOkForgivesAll == [NoneExpected EXCEPT !.down = IF resumed THEN Nodes ELSE {}]

(* cassandra_service_health_resumed_down of the check before the action.   *)
DownOk == [NoneExpected EXCEPT !.down = IF resumed THEN {Host} ELSE {}]

-----------------------------------------------------------------------------
(* A run: the progress file, then the play.                                *)

(* preflight: every host answers over SSH.                                 *)
HostsReachable == \A n \in Nodes : mode[n] # "REBOOTING"

StartRun(o, resume) ==
    /\ pc = "idle"
    /\ HostsReachable
    /\ pc' = "play"
    /\ op' = o
    /\ resuming' = resume
    /\ cur' = 1
    /\ resumed' = FALSE
    /\ finished' = FALSE
    /\ UNCHANGED <<cluster, taken, knownDown, unseen, budget>>

(* Mutant: a new run appends to the latest file.                           *)
FreshKeepsFile(o) ==
    /\ FollowsHint => finished
    /\ StartRun(o, FALSE)
    /\ files' = files \cup {o}
    /\ file' = file
    /\ done' = {}
    /\ restarted' = [restarted EXCEPT ![o] = {}]

(* A run without cassandra_rolling_resume: a new, empty progress file.     *)
Fresh(o) ==
    /\ FollowsHint => finished
    /\ StartRun(o, FALSE)
    /\ files' = files \cup {o}
    /\ file' = [file EXCEPT ![o] = {}]
    /\ done' = {}
    /\ restarted' = [restarted EXCEPT ![o] = {}]

(* Mutant: the file found is not read back.                                *)
ResumeForgetsDone(o) ==
    /\ FollowsHint => ~finished /\ o = op
    /\ o \in files
    /\ StartRun(o, TRUE)
    /\ done' = {}
    /\ UNCHANGED <<disk, restarted>>

(* -e cassandra_rolling_resume=true: the latest file of this operation.    *)
Resume(o) ==
    /\ FollowsHint => ~finished /\ o = op
    /\ o \in files
    /\ StartRun(o, TRUE)
    /\ done' = file[o]
    /\ UNCHANGED <<disk, restarted>>

(* The run stops: a failed task (rescue, any_errors_fatal).                *)
StopRun ==
    /\ pc' = "idle"
    /\ UNCHANGED <<cluster, op, resuming, cur, done, resumed, finished, disk,
                   taken, restarted, knownDown, unseen>>

(* The controller is killed, its SSH session drops.                        *)
Interrupt ==
    /\ pc # "idle"
    /\ faults < MaxFaults
    /\ faults' = faults + 1
    /\ StopRun
    /\ UNCHANGED crashes

EndRun ==
    /\ pc = "play"
    /\ cur = N + 1
    /\ pc' = "idle"
    /\ finished' = TRUE
    /\ UNCHANGED <<cluster, op, resuming, cur, done, resumed, disk, taken,
                   restarted, knownDown, unseen, budget>>

Skip ==
    /\ pc = "play"
    /\ cur <= N
    /\ Host \in done
    /\ cur' = cur + 1
    /\ UNCHANGED <<cluster, pc, op, resuming, done, resumed, finished, disk,
                   taken, restarted, knownDown, unseen, budget>>

-----------------------------------------------------------------------------
(* node_operation.yml on the host the play is at.                          *)

(* _cassandra_resume_candidate: the first host of the play not done.       *)
Candidate == resuming /\ \A i \in 1 .. (cur - 1) : Order[i] \in done

(* Mutant: only a node found drained is resumed, not one found stopped.    *)
FoundDownDrainedOnly(n) == {mode[n] = "DRAINED"}

(* Mutant: only a node found stopped is resumed, not one found drained.    *)
FoundDownStoppedOnly(n) == {mode[n] = "STOPPED"}

(* netstats says DRAINED, or JMX refuses the connection; a JVM just started*)
(* may refuse it or answer.                                                *)
FoundDown(n) ==
    CASE mode[n] \in {"DRAINED", "STOPPED"} -> {TRUE}
      [] mode[n] = "STARTING"               -> BOOLEAN
      [] OTHER                              -> {FALSE}

ShownDownByAll ==
    {n \in Nodes : mode[n] # "NORMAL" /\ \A m \in Nodes \ {n} :
                       mode[m] = "NORMAL" => n \notin up[m]}

Begin ==
    /\ pc = "play"
    /\ cur <= N
    /\ Host \notin done
    /\ \E down \in FoundDown(Host) : resumed' = (Candidate /\ down)
    /\ pc' = IF resumed' THEN "before_peer" ELSE "before_self"
    /\ knownDown' = ShownDownByAll
    /\ UNCHANGED <<cluster, op, resuming, cur, done, finished, disk, taken,
                   restarted, unseen, budget>>

(* The ring and the other checks as the node itself sees them: a node down *)
(* is waited for (polls), then the run stops.                              *)
CheckSelf(at, next) ==
    /\ pc = at
    /\ SelfFindings(Host) = {}
    /\ pc' = next
    /\ UNCHANGED <<cluster, op, resuming, cur, done, resumed, finished, disk,
                   taken, restarted, knownDown, budget>>

CheckPeer(at, next, ok) ==
    /\ pc = at
    /\ PeerFindings(Host, ok) = {}
    /\ pc' = next
    /\ UNCHANGED <<cluster, op, resuming, cur, done, resumed, finished, disk,
                   taken, restarted, knownDown, budget>>

(* The only ring read of a resumed host's cluster is that of a second node *)
(* drained itself, which shows itself up (when DrainedShowsItselfUp) and   *)
(* the others as they were when it left gossip.                            *)
Blind == resumed /\ mode[Peer(Host)] # "NORMAL"

(* Past the checks before the action.                                      *)
PassesBefore ==
    /\ CheckPeer("before_peer", "drain", DownOk)
    /\ unseen' = IF Blind THEN (taken \cup knownDown) \ {Host} ELSE {}

CheckBefore ==
    \/ CheckSelf("before_self", "before_peer") /\ UNCHANGED unseen
    \/ PassesBefore

CheckAfter ==
    /\ \/ CheckSelf("after_self", "after_peer")
       \/ CheckPeer("after_peer", "record", NoneExpected)
    /\ UNCHANGED unseen

(* The polls for down nodes (cassandra_service_health_timeout, 600 s) last *)
(* longer than gossip takes to notice: they end on a settled ring.         *)
Settled(m) ==
    mode[m] = "NORMAL" => \A n \in Nodes \ {m} : (n \in up[m]) = (mode[n] = "NORMAL")

(* Stop on an unhealthy cluster.  A resumed node's check reads once.       *)
Unhealthy ==
    /\ \/ /\ pc \in {"before_self", "after_self"}
          /\ SelfFindings(Host) # {}
          /\ Settled(Host)
       \/ /\ pc = "before_peer"
          /\ PeerFindings(Host, DownOk) # {}
          /\ resumed \/ Settled(Peer(Host))
       \/ /\ pc = "after_peer"
          /\ PeerFindings(Host, NoneExpected) # {}
          /\ Settled(Peer(Host))
    /\ StopRun
    /\ UNCHANGED budget

(* nodetool drain: a node in Mode NORMAL leaves gossip first.              *)
Drain ==
    /\ pc = "drain"
    /\ mode[Host] = "NORMAL"
    /\ mode' = [mode EXCEPT ![Host] = "DRAINING"]
    /\ up' = Announced(Host)
    /\ taken' = taken \cup {Host}
    /\ pc' = "draining"
    /\ UNCHANGED <<op, resuming, cur, done, resumed, finished, disk, restarted,
                   knownDown, unseen, budget>>

(* It returned, or failed, or timed out (cassandra_service_drain_timeout): *)
(* restarted all the same.  A node that is not NORMAL has nothing to drain;*)
(* a refused connection passes on the resumed node only.                   *)
DrainOver ==
    /\ \/ pc = "draining"
       \/ pc = "drain" /\ (mode[Host] # "STOPPED" \/ resumed)
    /\ pc' = "act"
    /\ UNCHANGED <<cluster, op, resuming, cur, done, resumed, finished, disk,
                   taken, restarted, knownDown, unseen, budget>>

(* No answer at all: Stop when the node did not answer.                    *)
DrainNoAnswer ==
    /\ pc = "drain"
    /\ StopRun
    /\ \/ mode[Host] \in {"STARTING", "STOPPED"} /\ ~resumed /\ UNCHANGED budget
       \/ /\ mode[Host] \notin {"STOPPED"}
          /\ faults < MaxFaults
          /\ faults' = faults + 1
          /\ UNCHANGED crashes

TakeDown(newMode, next) ==
    /\ pc = "act"
    /\ mode' = [mode EXCEPT ![Host] = newMode]
    /\ up' = Announced(Host)
    /\ taken' = IF mode[Host] = "NORMAL" THEN taken \cup {Host} ELSE taken
    /\ restarted' = [restarted EXCEPT ![op] = @ \cup {Host}]
    /\ pc' = next
    /\ UNCHANGED <<op, resuming, cur, done, resumed, finished, disk, knownDown,
                   unseen, budget>>

(* Mutant: neither the wait nor the check follows the restart.             *)
RestartUnwatched == op = "restart" /\ TakeDown("STARTING", "record")

(* action_restart.yml: systemctl restart.                                  *)
Restart == op = "restart" /\ TakeDown("STARTING", "wait")

(* action_reboot.yml: the host goes down and comes back by itself.         *)
Reboot == op = "reboot" /\ TakeDown("REBOOTING", "boot")

(* The reboot is over: main.yml starts a service that is not running.      *)
Booted ==
    /\ pc = "boot"
    /\ mode[Host] # "REBOOTING"
    /\ mode' = [mode EXCEPT ![Host] = IF @ = "STOPPED" THEN "STARTING" ELSE @]
    /\ pc' = "wait"
    /\ UNCHANGED <<up, op, resuming, cur, done, resumed, finished, disk, taken,
                   restarted, knownDown, unseen, budget>>

(* wait_normal.yml *)
WaitNormal ==
    /\ pc = "wait"
    /\ mode[Host] = "NORMAL"
    /\ pc' = "after_self"
    /\ UNCHANGED <<cluster, op, resuming, cur, done, resumed, finished, disk,
                   taken, restarted, knownDown, unseen, budget>>

(* "It stopped instead of joining"; or not NORMAL in time                  *)
(* (cassandra_service_wait_timeout), the host not back in time             *)
(* (cassandra_reboot_timeout): faults.                                     *)
GiveUp ==
    /\ StopRun
    /\ \/ pc = "wait" /\ mode[Host] = "STOPPED" /\ UNCHANGED budget
       \/ /\ \/ pc = "wait" /\ mode[Host] = "STARTING"
             \/ pc = "boot" /\ mode[Host] = "REBOOTING"
          /\ faults < MaxFaults
          /\ faults' = faults + 1
          /\ UNCHANGED crashes

(* Add the node to the progress file.                                      *)
Record ==
    /\ pc = "record"
    /\ file' = [file EXCEPT ![op] = @ \cup {Host}]
    /\ cur' = cur + 1
    /\ pc' = "play"
    /\ UNCHANGED <<cluster, op, resuming, done, resumed, finished, files, taken,
                   restarted, knownDown, unseen, budget>>

-----------------------------------------------------------------------------
Operator == \E o \in Operations : Fresh(o) \/ Resume(o)

Step ==
    \/ EndRun \/ Skip \/ Begin \/ CheckBefore \/ CheckAfter \/ Unhealthy
    \/ Drain \/ DrainOver \/ Restart \/ Reboot \/ Booted \/ WaitNormal
    \/ GiveUp \/ Record

Environment ==
    \/ \E n \in Nodes : \/ Crash(n) \/ Repair(n) \/ HostBoots(n)
                        \/ DrainCompletes(n) \/ Joined(n)
    \/ \E m, n \in Nodes : Notices(m, n)

Next == Operator \/ Step \/ DrainNoAnswer \/ Interrupt \/ Environment

Spec == Init /\ [][Next]_vars

(* Once started a run goes on (interruptions are bounded); a stopped one is *)
(* resumed; gossip, a start, a boot and a drain end; a node that stopped by *)
(* itself is started by hand, one the operation took down is not.           *)
Fairness ==
    /\ WF_vars(Step)
    /\ WF_vars(\E o \in Operations : Resume(o))
    /\ \A n \in Nodes : /\ WF_vars(Joined(n))
                        /\ WF_vars(HostBoots(n))
                        /\ WF_vars(DrainCompletes(n))
                        /\ WF_vars(n \notin taken /\ Repair(n))
    /\ \A m, n \in Nodes : WF_vars(Notices(m, n))

FairSpec == Spec /\ Fairness

-----------------------------------------------------------------------------
(* Properties.                                                             *)

Touching == pc \in {"drain", "draining", "act"}

(* "Any other node down [...] still stops the run" (node_operation.yml),   *)
(* for a node an operation took down: when a run drains, restarts or       *)
(* reboots a host, no other node is drained, stopped or still starting     *)
(* because of this run, an earlier one or another operation.  It is not so *)
(* of Cassandra: a resumed host is checked from another node only, and that*)
(* one may be a node another operation drained and left, which shows itself*)
(* up.                                                                     *)
OtherDownStops == Touching => taken \subseteq {Host}

(* The same but for that case: the nodes down when the check of a resumed  *)
(* host was answered by a node drained itself (unseen) are exempted, for as*)
(* long as no other check passed.                                          *)
ActsAlone == Touching => taken \ unseen \subseteq {Host}

(* "One at a time" (rolling_restart.yml), over any number of runs, stopped *)
(* anywhere, resumed or not, of several operations: of the nodes they took *)
(* down and that have not joined again, those exempted above left out,     *)
(* there are never two.                                                    *)
AtMostOneOut == \A m, n \in taken \ unseen : m = n

(* The same for a node down for a reason of its own: one that was down, and*)
(* shown so by every running node, when the checks of a host began and has *)
(* not come back since, keeps the run from touching that host, with the    *)
(* same exemption.                                                         *)
KnownDownStops == Touching => knownDown \ unseen \subseteq {Host}

(* A run that reached its end leaves no node behind: with its interrupted  *)
(* predecessors it restarted every host since its progress file was made,  *)
(* and no file lists a host that was not restarted.                        *)
CompleteMeansAll ==
    /\ finished /\ op \in files => restarted[op] = Nodes
    /\ \A o \in Operations : file[o] \subseteq restarted[o]

(* A host in the progress file is not restarted again by a resumed run.    *)
NoRepeat == [][Restart \/ Reboot => Host \notin file[op]]_vars

(* A run that was started is carried to its end by resuming it, whatever   *)
(* step it was stopped at and whatever the crashes.                        *)
RunCompletes == ~finished ~> finished

(* A node an operation took down comes back, though nobody but the         *)
(* resumed run starts it.                                                  *)
TakenComesBack == \A n \in Nodes : n \in taken ~> n \notin taken

(* The promise of a rolling operation, whatever the checks and the steps   *)
(* it is kept by (OneNodeAtATime): here the restarts, other operations     *)
(* taking nodes down meanwhile or not.  A node out is overlooked only where*)
(* a drained node shows itself up and a stopped run is not resumed first.  *)
Promise == INSTANCE OneNodeAtATime
             WITH out <- taken, unseen <- taken \cap unseen,
                  served <- restarted["restart"], done <- file["restart"],
                  Overlooks <- DrainedShowsItselfUp /\ ~FollowsHint

RestartKeepsPromise == Promise!Spec

=============================================================================
