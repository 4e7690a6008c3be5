---------------------------- MODULE ApplyConfig ----------------------------
(***************************************************************************)
(* playbooks/apply_config.yml: the inventory's config put on the nodes of  *)
(* a cluster, some of them not running.  Each node is compared and told    *)
(* what it gets (restart, start, none, write), the run is refused when its *)
(* restarts would meet a node down, the nodes nothing takes down are       *)
(* written at once, the others go one at a time through node_operation.yml *)
(* and action_apply_config.yml.                                            *)
(*                                                                         *)
(* A node's files are reduced to: of another content than the inventory's  *)
(* (former), of the wrong owner or mode only (perms), as the inventory says*)
(* (inventory).  What its JVM read and what the record of its last start   *)
(* says (ConfigPending) are reduced to whether it is the inventory's       *)
(* content.  Here a node down is seen down at once by those that gossip:   *)
(* the time gossip takes is RollingOperation's subject.  A drained node has*)
(* left gossip: its ring stays as it was, itself up.                       *)
(***************************************************************************)
EXTENDS Naturals, Sequences, FiniteSets, ClusterHealth

CONSTANTS
    Nodes,        \* the hosts of the cluster
    Order,        \* the same in the inventory's order (cassandra_nodes)
    Limits,       \* the sets of hosts a run may be limited to (--limit)
    Conditions,   \* bound: what a node may be before the first run
    DrainedShowsItselfUp,  \* a drained node's own nodetool status shows it UN
                           \* (Cassandra), or in a state of its own, S (DSE)
    MaxFaults     \* bound: crashes, starts and stops by hand, interruptions

ASSUME OrderAssumption ==
    /\ IsFiniteSet(Nodes)
    /\ Order \in Seq(Nodes)
    /\ \A n \in Nodes : \E i \in 1 .. Len(Order) : Order[i] = n
    /\ \A i, j \in 1 .. Len(Order) : Order[i] = Order[j] => i = j

ASSUME BoundsAssumption ==
    /\ Limits \subseteq SUBSET Nodes
    /\ MaxFaults \in Nat
    /\ DrainedShowsItselfUp \in BOOLEAN

VARIABLES
    state,      \* node -> what its unit and its netstats say
    disk,       \* node -> its config files
    loaded,     \* node -> the last JVM started read the inventory's content
    rec,        \* node -> the record of its last start says so
    seen,       \* drained node -> those up when it left gossip ({} of the others)
    pc,         \* the step the run is at, "idle" when no run is going
    hosts,      \* ansible_play_hosts
    resuming,   \* cassandra_rolling_resume
    atStart,    \* node -> its state when the preflight read it
    plan,       \* node -> cassandra_apply_config_then, _todo, and its unit in a loop
    cur,        \* index in Order of the host the serial play is at
    left,       \* hosts of the batch the current step has still to do
    found,      \* hosts of the play that may be down (_cassandra_down_node)
    done,       \* cassandra_progress_done
    hasFile,    \* a progress file of apply_config exists
    file,       \* the hosts it lists
    surprised,  \* history: what the run found changed otherwise than by it
    byHand,     \* history: nodes started by hand, not planned as running since
    knownDown,  \* history: down since before the check of a host began
    unseen,     \* history: those the check of a host that may be down could not show
    faults

nodes   == <<state, disk, loaded, rec, seen>>
run     == <<hosts, resuming, atStart, plan, done>>
disks   == <<hasFile, file>>
history == <<surprised, byHand, knownDown, unseen>>
vars    == <<state, disk, loaded, rec, seen, pc, hosts, resuming, atStart, plan,
             cur, left, found, done, hasFile, file, surprised, byHand, knownDown,
             unseen, faults>>

(* starting: its JVM is up, not joined; looping: its unit waits to try     *)
(* again (auto-restart); stopped: inactive; failed: its unit failed.       *)
States  == {"up", "drained", "starting", "looping", "stopped", "failed"}
HasJvm  == {"up", "drained", "starting"}
Content == {"former", "perms", "inventory"}

ASSUME ConditionsAssumption ==
    /\ Conditions \subseteq [state : {"up", "stopped", "failed", "looping"},
                             disk : Content, loaded : BOOLEAN]
    /\ \A k \in Conditions : k.disk = "former" => ~k.loaded

Outcomes == {"restart", "start", "none", "write"}

(* Not in the run: hostvars say nothing of it.                             *)
NotPlanned == [then |-> "out", todo |-> FALSE, looping |-> FALSE]

N == Len(Order)
Host == Order[cur]
Index(n) == CHOOSE i \in 1 .. N : Order[i] = n

Phases == {"idle", "plan", "progress",
           "batch", "batch_before", "batch_write", "batch_after", "batch_record",
           "play", "before", "clear", "write", "drain", "restart", "start",
           "wait", "wait_running", "after", "record"}

TypeOK ==
    /\ state \in [Nodes -> States]
    /\ disk \in [Nodes -> Content]
    /\ loaded \in [Nodes -> BOOLEAN]
    /\ rec \in [Nodes -> BOOLEAN]
    /\ seen \in [Nodes -> SUBSET Nodes]
    /\ pc \in Phases
    /\ hosts \subseteq Nodes
    /\ resuming \in BOOLEAN
    /\ atStart \in [Nodes -> States]
    /\ plan \in [Nodes -> [then : Outcomes \cup {"out"}, todo : BOOLEAN, looping : BOOLEAN]]
    /\ cur \in 1 .. N + 1
    /\ left \subseteq hosts
    /\ found \subseteq hosts
    /\ done \subseteq Nodes
    /\ hasFile \in BOOLEAN
    /\ file \subseteq Nodes
    /\ surprised \in BOOLEAN
    /\ byHand \subseteq Nodes
    /\ knownDown \subseteq Nodes
    /\ unseen \subseteq Nodes
    /\ faults \in 0 .. MaxFaults

(* Any cluster: nodes written by cassandra_config and not restarted since, *)
(* with a hand edit, a wrong owner, stopped, failed, in a restart loop.    *)
Init ==
    /\ \E k \in [Nodes -> Conditions] :
          /\ state = [n \in Nodes |-> k[n].state]
          /\ disk = [n \in Nodes |-> k[n].disk]
          /\ loaded = [n \in Nodes |-> k[n].loaded]
    /\ rec = loaded
    /\ seen = [n \in Nodes |-> {}]
    /\ pc = "idle"
    /\ hosts = {}
    /\ resuming = FALSE
    /\ atStart = state
    /\ plan = [n \in Nodes |-> NotPlanned]
    /\ cur = 1
    /\ left = {}
    /\ found = {}
    /\ done = {}
    /\ hasFile = FALSE
    /\ file = {}
    /\ surprised = FALSE
    /\ byHand = {}
    /\ knownDown = {}
    /\ unseen = {}
    /\ faults = 0

-----------------------------------------------------------------------------
(* The nodes, external: Cassandra and its unit.                            *)

Fault == faults < MaxFaults /\ faults' = faults + 1

Becomes(n, s) ==
    /\ state' = [state EXCEPT ![n] = s]
    /\ seen' = [seen EXCEPT ![n] = {}]

(* It dies or cannot start: its unit fails, or tries again (Restart=).     *)
Crash(n) ==
    /\ state[n] \in HasJvm
    /\ Fault
    /\ \E s \in {"failed", "looping"} : Becomes(n, s)
    /\ surprised' = TRUE
    /\ UNCHANGED <<disk, loaded, rec, pc, run, cur, left, found, disks, byHand,
                   knownDown, unseen>>

StoppedByHand(n) ==
    /\ state[n] \in HasJvm
    /\ Fault
    /\ Becomes(n, "stopped")
    /\ surprised' = TRUE
    /\ UNCHANGED <<disk, loaded, rec, pc, run, cur, left, found, disks, byHand,
                   knownDown, unseen>>

(* A JVM reads the files on disk when it starts.                           *)
JvmStarts(n) ==
    /\ Becomes(n, "starting")
    /\ loaded' = [loaded EXCEPT ![n] = disk[n] # "former"]

(* By hand, or the unit's own next try: the roles record nothing.          *)
StartedOtherwise(n) ==
    /\ state[n] \in {"stopped", "failed", "looping"}
    /\ Fault
    /\ JvmStarts(n)
    /\ byHand' = byHand \cup {n}
    /\ surprised' = TRUE
    /\ UNCHANGED <<disk, rec, pc, run, cur, left, found, disks, knownDown, unseen>>

Joined(n) ==
    /\ state[n] = "starting"
    /\ Becomes(n, "up")
    /\ knownDown' = knownDown \ {n}
    /\ unseen' = unseen \ {n}
    /\ UNCHANGED <<disk, loaded, rec, pc, run, cur, left, found, disks, surprised, byHand, faults>>

-----------------------------------------------------------------------------
(* The plan (Find what each node needs).                                   *)

Before(n) == {Order[i] : i \in 1 .. Index(n) - 1}

(* What the run may count on: every node out of it up, its own up, down or *)
(* starting, and one up to read the ring from.                             *)
Settled ==
    /\ \A n \in Nodes : state[n] # "up" =>
           n \in hosts' /\ state[n] \notin {"drained", "starting"}
    /\ \E n \in Nodes : state[n] = "up"

StartRun(limit, resume) ==
    /\ pc = "idle"
    /\ resume => hasFile
    /\ pc' = "plan"
    /\ hosts' = limit
    /\ resuming' = resume
    /\ atStart' = state
    /\ surprised' = ~Settled
    /\ cur' = 1
    /\ left' = {}
    /\ found' = {}
    /\ done' = {}
    /\ plan' = [n \in Nodes |-> NotPlanned]
    /\ knownDown' = {}
    /\ unseen' = {}
    /\ UNCHANGED <<nodes, disks, byHand, faults>>

(* _running: the preflight's word, or a JVM its unit did not start.        *)
Running(n) == atStart[n] \in HasJvm \/ state[n] \in HasJvm

(* cassandra_config_restart_pending: the files are not the recorded ones.  *)
RestartPending(n) == (disk[n] # "former") # rec[n]

(* Mutant: a stopped node is pending under any run.                        *)
PendingStopped(n) == RestartPending(n)

(* _pending: a node not running reads its files when it starts, but for    *)
(* the one a resumed run stopped.                                          *)
Pending(n) == RestartPending(n) /\ (Running(n) \/ resuming)

UnitFailed(n) == state[n] \in {"failed", "looping"}

(* Mutant: a node with only a restart pending is not restarted.            *)
ThenFilesOnly(n) ==
    IF Running(n)
    THEN IF disk[n] = "former" THEN "restart" ELSE "none"
    ELSE IF UnitFailed(n) \/ Pending(n) THEN "start" ELSE "write"

(* cassandra_apply_config_then                                             *)
Then(n) ==
    IF Running(n)
    THEN IF disk[n] = "former" \/ Pending(n) THEN "restart" ELSE "none"
    ELSE IF UnitFailed(n) \/ Pending(n) THEN "start" ELSE "write"

Needs(n) ==
    [then |-> Then(n),
     todo |-> disk[n] # "inventory" \/ Pending(n),
     looping |-> state[n] = "looping" /\ atStart[n] \notin HasJvm]

Todo(p) == {n \in Nodes : p[n].todo}
Restarts(p) == {n \in Todo(p) : p[n].then = "restart"}

(* Mutant: the nodes started after the first restart are not looked at.    *)
DownAtRestartStopsOnly(p) ==
    {n \in Nodes : Restarts(p) # {} /\ (p[n].then = "write" \/ (p[n].then = "start" /\ ~p[n].todo))}

(* _down of "Refuse restarts while a node is not running".                 *)
DownAtRestart(p) ==
    {n \in Nodes : Restarts(p) # {} /\
        \/ p[n].then = "write"
        \/ /\ p[n].then = "start"
           /\ ~p[n].todo \/ Restarts(p) \cap Before(n) # {}}

(* The nodes are compared and planned; nothing is changed on them.  A run  *)
(* refused, or with nothing to do, goes no further.                        *)
Plan ==
    /\ pc = "plan"
    /\ plan' = [n \in Nodes |-> IF n \in hosts THEN Needs(n) ELSE NotPlanned]
    /\ pc' = IF DownAtRestart(plan') # {} THEN "idle" ELSE "progress"
    /\ UNCHANGED <<nodes, hosts, resuming, atStart, cur, left, found, done,
                   disks, history, faults>>

(* progress.yml, on the nodes to do.                                       *)
Progress ==
    /\ pc = "progress"
    /\ Todo(plan) # {}
    /\ hasFile' = TRUE
    /\ file' = IF resuming THEN file ELSE {}
    /\ done' = file'
    /\ pc' = "batch"
    /\ byHand' = IF resuming THEN byHand
                 ELSE {n \in byHand : plan[n].then \notin {"restart", "none"}}
    /\ UNCHANGED <<nodes, hosts, resuming, atStart, plan, cur, left, found,
                   surprised, knownDown, unseen, faults>>

-----------------------------------------------------------------------------
(* The checks (node_operation.yml, cluster_health.yml).                    *)

Batch == {n \in Todo(plan) : plan[n].then \in {"none", "write"}}
Serial == Todo(plan) \ Batch

(* _cassandra_apply_config_down_ok of the batch: no restart is in it.      *)
BatchDownOk(h) == {n \in Nodes \ {h} : plan[n].then \in {"start", "write"}}

(* ... of the serial play: the starts later in the run or not to do, the   *)
(* nodes left stopped; none before a restart.                              *)
SerialDownOk(h) ==
    {n \in Nodes \ {h} : plan[h].then # "restart" /\
        \/ plan[n].then = "write"
        \/ plan[n].then = "start" /\ (h \in Before(n) \/ ~plan[n].todo)}

(* Gossip has told m of every node down, but for a drained m: its ring is  *)
(* the one it had when it left gossip.                                     *)
Shown(m, n) ==
    LET up == IF state[m] = "drained" THEN seen[m] ELSE {x \in Nodes : state[x] = "up"}
    IN  IF m = n /\ state[m] = "drained"
        THEN IF DrainedShowsItselfUp THEN "UN" ELSE "US"
        ELSE IF n \in up THEN "UN" ELSE "DN"

View(m) == [from |-> m, answered |-> state[m] \in {"up", "drained"},
            ring |-> [n \in Nodes |-> Shown(m, n)]]

Checks(n) ==
    [c \in {"gossip", "cql"} |->
        IF state[n] \notin {"up", "drained"} THEN "unasked"
        ELSE IF state[n] = "up" THEN "ok" ELSE "bad"]

FirstOf(S, default) ==
    IF S = {} THEN default ELSE CHOOSE n \in S : S \cap Before(n) = {}

(* _cassandra_health_peer: never a node expected down.                     *)
Peer(h, ok) == FirstOf(Nodes \ (ok \cup {h}), h)
BatchPeer(h, ok) ==
    LET candidates == Nodes \ ok
    IN  FirstOf(candidates \ Batch, FirstOf(candidates, h))

Findings(h, peer, ok, itself) ==
    LET down == [NoneExpected EXCEPT !.down = ok]
    IN  ViewFindings(View(peer), Cardinality(Nodes), down)
          \cup IF itself
               THEN ViewFindings(View(h), Cardinality(Nodes), down)
                      \cup NodeFindings(h, Checks(h), View(h).answered)
               ELSE {}

(* The check of h, itself expected down or not; the others' down_ok is the *)
(* same before its action and after.                                       *)
AllDownOk(h, down) == SerialDownOk(h) \cup (IF down THEN {h} ELSE {})

SerialFindings(h, down) ==
    LET ok == AllDownOk(h, down)
    IN  Findings(h, Peer(h, ok), ok, ~down)

BatchFindings(h, down) ==
    LET ok == BatchDownOk(h) \cup (IF down THEN {h} ELSE {})
    IN  Findings(h, BatchPeer(h, ok), ok, ~down)

(* _cassandra_resume_candidate: the first host of its play not done.       *)
Candidate(h, play) == resuming /\ h = FirstOf(play \ done, h)

(* _cassandra_down_node: a node not to run, or found drained or stopped at *)
(* the place the interrupted run stopped.                                  *)
MayBeDown(h, play) ==
    \/ plan[h].then \in {"start", "write"}
    \/ Candidate(h, play) /\ state[h] \in {"drained", "stopped", "failed", "looping"}

StopRun ==
    /\ pc' = "idle"
    /\ UNCHANGED <<nodes, run, cur, left, found, disks, history>>

-----------------------------------------------------------------------------
(* The nodes written at once.                                              *)

BeginBatch ==
    /\ pc = "batch"
    /\ left' = Batch \ done
    /\ found' = {h \in Batch \ done : MayBeDown(h, Batch)}
    /\ pc' = IF left' = {} THEN "play" ELSE "batch_before"
    /\ UNCHANGED <<nodes, run, cur, disks, history, faults>>

CheckBatchBefore ==
    /\ pc = "batch_before"
    /\ \A h \in left : BatchFindings(h, h \in found) = {}
    /\ pc' = "batch_write"
    /\ UNCHANGED <<nodes, run, cur, left, found, disks, history, faults>>

(* cassandra_config: its files, their owner and mode; nothing is restarted.*)
WriteFiles(h) == disk' = [disk EXCEPT ![h] = "inventory"]

BatchWrite(h) ==
    /\ pc = "batch_write"
    /\ h \in left
    /\ WriteFiles(h)
    /\ left' = IF left = {h} THEN Batch \ done ELSE left \ {h}
    /\ pc' = IF left = {h} THEN "batch_after" ELSE "batch_write"
    /\ UNCHANGED <<state, loaded, rec, seen, run, cur, found, disks, history, faults>>

LeftDown(h) == plan[h].then = "write"

CheckBatchAfter ==
    /\ pc = "batch_after"
    /\ \A h \in left : BatchFindings(h, LeftDown(h)) = {}
    /\ pc' = "batch_record"
    /\ UNCHANGED <<nodes, run, cur, left, found, disks, history, faults>>

(* One line at a time (throttle: 1).                                       *)
BatchRecord(h) ==
    /\ pc = "batch_record"
    /\ h \in left
    /\ file' = file \cup {h}
    /\ left' = left \ {h}
    /\ pc' = IF left = {h} THEN "play" ELSE "batch_record"
    /\ UNCHANGED <<nodes, run, cur, found, hasFile, history, faults>>

-----------------------------------------------------------------------------
(* The nodes restarted or started, one at a time.                          *)

Skip ==
    /\ pc = "play"
    /\ cur <= N
    /\ Host \notin Serial \ done
    /\ cur' = cur + 1
    /\ UNCHANGED <<nodes, pc, run, left, found, disks, history, faults>>

Begin ==
    /\ pc = "play"
    /\ cur <= N
    /\ Host \in Serial \ done
    /\ found' = {h \in {Host} : MayBeDown(h, Serial)}
    /\ knownDown' = {n \in Nodes : state[n] # "up"}
    /\ unseen' = {}
    /\ pc' = "before"
    /\ UNCHANGED <<nodes, run, cur, left, disks, surprised, byHand, faults>>

Move(from, to) ==
    /\ pc = from
    /\ pc' = to
    /\ UNCHANGED <<run, cur, left, found, disks, history, faults>>

(* The only ring read of the cluster of a host that may be down is that of *)
(* a second node drained itself.                                           *)
Blind == Host \in found /\ state[Peer(Host, AllDownOk(Host, TRUE))] = "drained"

CheckBefore ==
    /\ pc = "before"
    /\ SerialFindings(Host, Host \in found) = {}
    /\ pc' = IF plan[Host].then = "start" THEN "clear" ELSE "write"
    /\ unseen' = IF Blind THEN knownDown \ {Host} ELSE {}
    /\ UNCHANGED <<nodes, run, cur, left, found, disks, surprised, byHand,
                   knownDown, faults>>

(* Clear the unit's failed starts: the loop is stopped, a failed unit stays*)
(* failed until its start limit is reset.                                  *)
ClearUnit ==
    /\ Move("clear", "write")
    /\ plan[Host].looping \/ state[Host] \notin HasJvm
    /\ Becomes(Host, "stopped")
    /\ UNCHANGED <<disk, loaded, rec>>

(* Stop if it came up since the plan.                                      *)
CameUp ==
    /\ pc = "clear"
    /\ ~plan[Host].looping /\ state[Host] \in HasJvm
    /\ StopRun
    /\ UNCHANGED faults

Write ==
    /\ Move("write", IF plan[Host].then = "start" THEN "start" ELSE "drain")
    /\ WriteFiles(Host)
    /\ UNCHANGED <<state, loaded, rec, seen>>

(* action_restart.yml: best effort, the node is restarted all the same.    *)
Drain ==
    /\ Move("drain", "restart")
    /\ state[Host] \in HasJvm \/ Host \in found
    /\ \/ /\ state[Host] = "up"
          /\ state' = [state EXCEPT ![Host] = "drained"]
          /\ seen' = [seen EXCEPT ![Host] = {n \in Nodes : state[n] = "up"}]
       \/ UNCHANGED <<state, seen>>
    /\ UNCHANGED <<disk, loaded, rec>>

(* Stop when the node did not answer.                                      *)
DrainNoAnswer ==
    /\ pc = "drain"
    /\ state[Host] \notin {"up", "drained"} /\ Host \notin found
    /\ StopRun
    /\ UNCHANGED faults

Restart ==
    /\ Move("restart", "wait")
    /\ JvmStarts(Host)
    /\ UNCHANGED <<disk, rec>>

(* main.yml, cassandra_service_state started: a unit that runs is left so. *)
Start ==
    /\ pc = "start"
    /\ IF state[Host] \in HasJvm
       THEN Move("start", "wait_running") /\ UNCHANGED <<state, loaded, seen>>
       ELSE Move("start", "wait") /\ JvmStarts(Host)
    /\ UNCHANGED <<disk, rec>>

(* wait_normal.yml, then config_snapshot.yml after a start.                *)
WaitNormal ==
    /\ pc \in {"wait", "wait_running"}
    /\ Move(pc, "after")
    /\ state[Host] = "up"
    /\ rec' = IF pc = "wait" THEN [rec EXCEPT ![Host] = disk[Host] # "former"] ELSE rec
    /\ UNCHANGED <<state, disk, loaded, seen>>

(* Its service stopped, or it is not joined in time.                       *)
GaveUp ==
    /\ pc \in {"wait", "wait_running"}
    /\ state[Host] # "up"
    /\ StopRun
    /\ UNCHANGED faults

CheckAfter ==
    /\ Move("after", "record")
    /\ SerialFindings(Host, FALSE) = {}
    /\ UNCHANGED nodes

Record ==
    /\ pc = "record"
    /\ file' = file \cup {Host}
    /\ cur' = cur + 1
    /\ pc' = "play"
    /\ UNCHANGED <<nodes, run, left, found, hasFile, history, faults>>

(* A check fails: the run stops, of whatever play.                         *)
Unhealthy ==
    /\ \/ pc = "batch_before" /\ \E h \in left : BatchFindings(h, h \in found) # {}
       \/ pc = "batch_after" /\ \E h \in left : BatchFindings(h, LeftDown(h)) # {}
       \/ pc = "before" /\ SerialFindings(Host, Host \in found) # {}
       \/ pc = "after" /\ SerialFindings(Host, FALSE) # {}
    /\ StopRun
    /\ UNCHANGED faults

Interrupt == pc # "idle" /\ Fault /\ StopRun

(* The end of the plays, or nothing to do.                                 *)
EndRun ==
    /\ \/ pc = "progress" /\ Todo(plan) = {}
       \/ pc = "play" /\ cur = N + 1
    /\ StopRun
    /\ UNCHANGED faults

-----------------------------------------------------------------------------
Step ==
    \/ Plan \/ Progress
    \/ BeginBatch \/ CheckBatchBefore \/ CheckBatchAfter
    \/ \E h \in left : BatchWrite(h) \/ BatchRecord(h)
    \/ Skip \/ Begin \/ CheckBefore \/ ClearUnit \/ CameUp \/ Write \/ Drain
    \/ DrainNoAnswer \/ Restart \/ Start \/ WaitNormal \/ GaveUp \/ CheckAfter
    \/ Record \/ Unhealthy \/ EndRun

Environment ==
    \E n \in Nodes : \/ Crash(n) \/ StoppedByHand(n) \/ StartedOtherwise(n)
                     \/ Joined(n)

Next ==
    \/ \E limit \in Limits, resume \in BOOLEAN : StartRun(limit, resume)
    \/ Step \/ Interrupt \/ Environment

Spec == Init /\ [][Next]_vars

-----------------------------------------------------------------------------
(* A run that goes to its end, whatever the earlier ones left, applied the *)
(* config: each of its nodes has the inventory's files and, running, runs  *)
(* them (but for a node started by hand under it).                         *)
AppliedAtEnd ==
    [][EndRun => \A h \in hosts \ byHand :
           disk[h] = "inventory" /\ (state[h] \in HasJvm => loaded[h])]_vars

(* "A restart waits for every other node up" (apply_config.yml): no node is*)
(* drained or restarted while another one, down before its check, still is.*)
(* Exempted are those down when a resumed run found the node stopped or    *)
(* drained, so asked another one only, and that one is drained itself: it  *)
(* shows itself up (on Cassandra) and the others as they were (unseen).    *)
RestartWaits == pc \in {"drain", "restart"} => knownDown \ unseen \subseteq {Host}

(* "A node not running that this run leaves down, or starts after the      *)
(* restart, would stop it halfway" (apply_config.yml): a run that is not   *)
(* refused is never stopped by a node its plan knew down.                  *)
OwnPlanHolds == [][Unhealthy /\ ~resuming => surprised]_vars

(* "One stopped on purpose gets its config and stays stopped"              *)
(* (apply_config.yml): only a resumed run may start it.                    *)
StaysStopped ==
    [][Start => atStart[Host] # "stopped" \/ resuming \/ surprised]_vars

(* "The health checks of the nodes not restarted let these nodes be down": *)
(* the same of every run, resumed or not.                                  *)
DownNodesLet ==
    [][Unhealthy /\ (pc \in {"before", "after"} => plan[Host].then # "restart")
           => surprised]_vars

=============================================================================
