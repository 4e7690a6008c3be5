------------------------- MODULE StreamedOperations -------------------------
(***************************************************************************)
(* The operations that stream for hours, run again until they are over:    *)
(*   leave    action_decommission.yml, leaving_node_state.yml              *)
(*   join     the wait of action_add.yml                                   *)
(*   removal  playbooks/remove_dead_node.yml, its three methods            *)
(* each followed by StreamWait.  Runs are stopped anywhere and begun again *)
(* (the operation goes on by itself), readings get lost, JVMs stop, and    *)
(* operators start operations of their own.                                *)
(*                                                                         *)
(* Self is the node that joins or leaves; for a removal, the first host of *)
(* the run, which starts it.  The whole path of a node around the wait of  *)
(* its join or leave is in NodeChanges.                                    *)
(***************************************************************************)
EXTENDS StreamWait

CONSTANTS Self, Peers,   \* the hosts of the run
          Outside,       \* a node of the cluster no run knows
          At,            \* session -> the other host it streams with
          Ops,           \* "join", "leave", "removal"
          MaxTimes,      \* cassandra_stream_max_time, in checks (0: none)
          MaxRuns,       \* bounds, for each operation: its runs,
          MaxFaults      \* and its faults: JVM stops, jobs lost, operators, lost readings

Hosts == {Self} \cup Peers
Coordinators == Hosts \cup {Outside}
Plans == DOMAIN At

ASSUME OperationsAssumption ==
    /\ Self \notin Peers /\ Outside \notin Hosts
    /\ \A p \in Plans : At[p] \in Hosts
    /\ Ops \subseteq {"join", "leave", "removal"}
    /\ \A o \in Ops : MaxRuns[o] \in Nat /\ MaxFaults[o] \in Nat

VARIABLES
    op,        \* the operation
    node,      \* Self: its mode, whether its JVM runs, how the others see it
    sessions,  \* plan -> "later", "going", "sent" (all of it) or "over", and its round:
               \* an operation begun again has other plan ids
    ring,      \* the dead node and who removes it, another node that may leave
    run,       \* the playbook
    w,         \* _cassandra_stream_state
    shown,     \* the sessions of each host when it last answered this wait
    quiet,     \* checks in a row where no host that answers shows anything new
    faults

world == <<op, node, sessions, ring>>
waiting == <<w, shown, quiet>>
vars == <<op, node, sessions, ring, run, w, shown, quiet, faults>>

NoRun == [pc |-> "idle", count |-> 0, method |-> "removenode", again |-> FALSE, on |-> Outside,
          follows |-> FALSE, job |-> "none", said |-> "none", lost |-> "nothing", other |-> "UN", wrong |-> FALSE, max |-> 0]

-----------------------------------------------------------------------------
(* External: Cassandra                                                     *)

Idle == run.pc \in {"idle", "ended", "stopped"}

\* Bound: what follows the last run is left out.
Watched == ~(Idle /\ run.count = MaxRuns[op])

Removers == {h \in Coordinators : ring.removes[h] = "dead"}

Streaming ==
    \/ op = "join" /\ node.up /\ node.mode = "JOINING"
    \/ op = "leave" /\ node.up /\ node.mode = "LEAVING"
    \/ op = "removal" /\ Removers # {}

\* The streams of an operation that begins again.
Anew == [p \in Plans |-> [at |-> "later", round |-> sessions[p].round + 1]]

JobEnds(how) == [run EXCEPT !.job = IF run.job = "running" THEN how ELSE @]

\* A session starts, sends all it has, ends.
SessionMoves(p) ==
    /\ Watched
    /\ Streaming
    /\ sessions[p].at # "over"
    /\ sessions' = [sessions EXCEPT ![p].at =
                       CASE @ = "later" -> "going" [] @ = "going" -> "sent" [] @ = "sent" -> "over"]
    /\ UNCHANGED <<op, node, ring, run, waiting, faults>>

OverMode == [join |-> "NORMAL", leave |-> "DECOMMISSIONED", removal |-> "NORMAL"]

\* A session of a node that takes over a range stays when the removal is forced.
OperationOver ==
    /\ Watched
    /\ Streaming
    /\ \A p \in Plans : sessions[p].at = "over"
    /\ node' = [node EXCEPT !.mode = OverMode[op]]
    /\ ring' = IF op = "removal"
               THEN [ring EXCEPT !.dead = "out", !.marked = FALSE,
                                 !.removes = [h \in Coordinators |-> IF @[h] = "dead" THEN "none" ELSE @[h]]]
               ELSE ring
    /\ run' = JobEnds("changed")
    /\ UNCHANGED <<op, sessions, waiting, faults>>

\* A failed bootstrap or decommission shows it since 5.0, stays as it was before.
OperationFails ==
    /\ Watched
    /\ faults < MaxFaults[op] /\ faults' = faults + 1
    /\ op \in {"join", "leave"} /\ Streaming
    /\ \/ UNCHANGED node
       \/ node' = [node EXCEPT !.mode = IF op = "join" THEN "JOINING_FAILED" ELSE "DECOMMISSION_FAILED"]
    /\ sessions' = [p \in Plans |-> [sessions[p] EXCEPT !.at = "over"]]
    /\ run' = JobEnds("failed")
    /\ UNCHANGED <<op, ring, waiting>>

\* Restarted, a leaving node is a member again, a joining one starts over.
JvmStops ==
    /\ Watched
    /\ faults < MaxFaults[op] /\ faults' = faults + 1
    /\ op \in {"join", "leave"} /\ node.up
    /\ node' = [node EXCEPT !.up = FALSE]
    /\ run' = JobEnds("failed")
    /\ UNCHANGED <<op, sessions, ring, waiting>>

JvmStarts ==
    /\ Watched
    /\ ~node.up /\ node.mode # "DECOMMISSIONED"
    /\ node' = [node EXCEPT !.up = TRUE,
                            !.mode = IF op = "leave" \/ @ = "NORMAL" THEN "NORMAL" ELSE "JOINING"]
    /\ sessions' = IF node'.mode = "JOINING" THEN Anew ELSE sessions
    /\ UNCHANGED <<op, ring, run, waiting, faults>>

\* It forgets the removal; the gossip of the others does not.
CoordinatorRestarts(h) ==
    /\ Watched
    /\ faults < MaxFaults[op] /\ faults' = faults + 1
    /\ ring.removes[h] = "dead"
    /\ ring' = [ring EXCEPT !.removes[h] = "none"]
    /\ run' = IF h = Self THEN JobEnds("failed") ELSE run
    /\ UNCHANGED <<op, node, sessions, waiting>>

GossipSees ==
    /\ Watched
    /\ op = "join" /\ node.up
    /\ node' = [node EXCEPT !.seen = IF node.mode = "NORMAL" THEN "UN" ELSE "UJ"]
    /\ UNCHANGED <<op, sessions, ring, run, waiting, faults>>

\* The async job is killed, or its file is gone: the operation goes on.
JobDies ==
    /\ Watched
    /\ faults < MaxFaults[op] /\ faults' = faults + 1
    /\ run.job = "running"
    /\ \E how \in {"failed", "lost"} : run' = JobEnds(how)
    /\ UNCHANGED <<world, waiting>>

(* External: operators                                                     *)

DecommissionByHand ==
    /\ Watched
    /\ faults < MaxFaults[op] /\ faults' = faults + 1
    /\ op = "leave" /\ node.up /\ node.mode = "NORMAL"
    /\ node' = [node EXCEPT !.mode = "LEAVING"]
    /\ sessions' = Anew
    /\ UNCHANGED <<op, ring, run, waiting>>

\* Between two runs (remove_dead_node.yml: "once none runs anywhere").
RemovalByHand(h) ==
    /\ Watched
    /\ faults < MaxFaults[op] /\ faults' = faults + 1
    /\ op = "removal" /\ Idle
    /\ ring.dead = "in" /\ Removers = {} /\ ring.removes[h] = "none"
    /\ ring' = [ring EXCEPT !.removes[h] = "dead", !.marked = TRUE]
    /\ sessions' = Anew
    /\ UNCHANGED <<op, node, run, waiting>>

OtherLeaves ==
    /\ Watched
    /\ op = "removal"
    /\ \/ /\ ring.other = "UN" /\ faults < MaxFaults[op] /\ faults' = faults + 1
          /\ ring' = [ring EXCEPT !.other = "UL"]
       \/ /\ ring.other = "UL"
          /\ ring' = [ring EXCEPT !.other = "gone"]
          /\ UNCHANGED faults
    /\ UNCHANGED <<op, node, sessions, run, waiting>>

OtherRemoved(h) ==
    /\ Watched
    /\ ring.removes[h] = "other"
    /\ ring' = [ring EXCEPT !.removes[h] = "none"]
    /\ UNCHANGED <<op, node, sessions, run, waiting, faults>>

-----------------------------------------------------------------------------
(* Where the operation stands when a run begins                            *)

\* What is left of a run that is over: its variables are forgotten.
Over(pc) == [NoRun EXCEPT !.pc = pc, !.count = run.count]

Goto(pc) == run' = IF pc \in {"ended", "stopped"} THEN Over(pc) ELSE [run EXCEPT !.pc = pc]

\* The methods of remove_dead_node.yml, and whether the operator says that no
\* removal runs anywhere (cassandra_dead_node_new_removal).
WaysToRemove == IF op = "removal"
           THEN {<<"removenode", FALSE>>, <<"removenode", TRUE>>,
                 <<"removenode_force", FALSE>>, <<"assassinate", FALSE>>}
           ELSE {<<"removenode", FALSE>>}

\* Forgotten with the run: its variables.  Its JMX login may be wrong for good.
StartRun ==
    /\ Idle /\ run.count < MaxRuns[op]
    /\ \E choice \in WaysToRemove, wrong \in BOOLEAN, max \in MaxTimes :
          run' = [NoRun EXCEPT !.pc = IF op = "join" THEN "wait" ELSE "look", !.count = run.count + 1,
                               !.method = choice[1], !.again = choice[2], !.wrong = wrong, !.max = max]
    /\ w' = NoState /\ shown' = {} /\ quiet' = 0
    /\ UNCHANGED <<world, faults>>

\* cassandra_leaving_state; "none" when netstats gave no mode.
LeavingState(mode) ==
    CASE mode = "LEAVING" -> "leaving"
      [] mode = "DECOMMISSIONED" -> "decommissioned"
      [] mode = "DECOMMISSION_FAILED" -> "failed"
      [] mode = "none" /\ node.mode = "DECOMMISSIONED" /\ ~node.up -> "decommissioned"
      [] OTHER -> "normal"

\* The reading of its netstats may get lost; the health check stops then.
LookLeave ==
    /\ op = "leave" /\ run.pc = "look"
    /\ \E lost \in BOOLEAN :
          /\ lost => node.up /\ faults < MaxFaults[op]
          /\ faults' = IF lost THEN faults + 1 ELSE faults
          /\ LET state == LeavingState(IF node.up /\ ~lost THEN node.mode ELSE "none")
             IN Goto(CASE state = "leaving" -> "wait"
                       [] state = "decommissioned" -> "ended"
                       [] state = "normal" /\ node.up /\ ~lost /\ node.mode = "NORMAL" -> "asked"
                       [] OTHER -> "stopped")
    /\ UNCHANGED <<world, waiting>>

\* cassandra_decommission, an async job: by the mode it finds.
LaunchLeave ==
    /\ op = "leave" /\ run.pc = "asked"
    /\ LET begins == node.up /\ node.mode = "NORMAL"
       IN /\ run' = [run EXCEPT !.pc = "wait", !.follows = TRUE,
                                !.job = CASE begins -> "running"
                                          [] node.up /\ node.mode \in {"LEAVING", "DECOMMISSIONED"} -> "unchanged"
                                          [] OTHER -> "failed"]
          /\ node' = IF begins THEN [node EXCEPT !.mode = "LEAVING"] ELSE node
          /\ sessions' = IF begins THEN Anew ELSE sessions
    /\ UNCHANGED <<op, ring, waiting, faults>>

\* What may get lost in the readings of remove_dead_node: one answer.
Losses == {<<"nothing">>, <<"gossip">>}
          \cup {<<what, h>> : what \in {"removals", "tokens", "ring"}, h \in Hosts}

\* "Removing token": the nodes of the run that remove a node, as they answered.
Removing(loss) == {h \in Hosts : ring.removes[h] # "none" /\ loss # <<"removals", h>>}

\* nodetool ring lists the dead node's tokens: read on Self and where one removes.
TokensKnown(loss) == \E h \in {Self} \cup Removing(loss) : loss # <<"tokens", h>>

\* The nodes leaving in the ring a host shows, but the dead one.
OthersLeaving(h) == ring.other = "UL" \/ ring.removes[h] = "other"

(* Mutant: gossip is not asked.                                            *)
RemovalStateNoGossip(loss) ==
    LET ours == {h \in Removing(loss) : TokensKnown(loss) /\ ring.removes[h] = "dead"}
    IN IF ring.dead = "out" THEN [state |-> "absent", on |-> Outside]
       ELSE IF Cardinality(ours) = 1 /\ ours = Removing(loss) /\ ~OthersLeaving(Self)
       THEN [state |-> "resume", on |-> CHOOSE h \in ours : TRUE]
       ELSE [state |-> IF Removing(loss) # {} THEN "busy" ELSE "start", on |-> Outside]

\* cassandra_removal_state
RemovalState(loss) ==
    LET ours == {h \in Removing(loss) : TokensKnown(loss) /\ ring.removes[h] = "dead"}
    IN IF ring.dead = "out" THEN [state |-> "absent", on |-> Outside]
       ELSE IF Cardinality(ours) = 1 /\ ours = Removing(loss) /\ ~OthersLeaving(Self)
       THEN [state |-> "resume", on |-> CHOOSE h \in ours : TRUE]
       ELSE [state |-> IF Removing(loss) # {} THEN "busy"
                       ELSE IF ring.marked /\ loss # <<"gossip">> THEN "orphan"
                       ELSE "start",
             on |-> Outside]

\* cassandra_removal_force_target: the hosts it may be forced on.
Candidates(removal, loss) ==
    IF removal.state = "resume" THEN {removal.on} \ {h \in Hosts : loss = <<"ring", h>>}
    ELSE {h \in Hosts : ring.removes[h] = "dead" /\ loss # <<"ring", h>>}

ForceTargets(removal, loss) ==
    IF removal.state = "busy" THEN {} ELSE {h \in Candidates(removal, loss) : ~OthersLeaving(h)}

LookRemoval ==
    /\ op = "removal" /\ run.pc = "look"
    /\ \E loss \in Losses :
          /\ loss # <<"nothing">> => faults < MaxFaults[op]
          /\ faults' = IF loss = <<"nothing">> THEN faults ELSE faults + 1
          /\ LET removal == RemovalState(loss)
                 on == IF run.method = "removenode_force"
                       THEN IF ForceTargets(removal, loss) = {} THEN Outside
                            ELSE CHOOSE h \in ForceTargets(removal, loss) : TRUE
                       ELSE removal.on
                 refused == \/ run.method = "removenode" /\ removal.state = "busy"
                            \/ run.method = "removenode" /\ removal.state = "orphan" /\ ~run.again
                            \/ run.method = "removenode_force" /\ on = Outside
                            \/ run.method = "assassinate" /\ removal.state = "absent"
             IN run' = IF refused THEN Over("stopped")
                       ELSE [run EXCEPT !.pc = IF removal.state = "absent" /\ run.method # "assassinate"
                                               THEN "health" ELSE "asked",
                                        !.on = on, !.other = ring.other, !.lost = loss[1]]
    /\ UNCHANGED <<world, waiting>>

-----------------------------------------------------------------------------
(* remove_dead_node.yml, once the plan is confirmed                        *)

\* The answer is no, or too few nodes would be left.
Decline == run.pc = "asked" /\ Goto("stopped") /\ UNCHANGED <<world, waiting, faults>>

ResumeRemoval ==
    /\ op = "removal" /\ run.pc = "asked" /\ run.method = "removenode" /\ run.on # Outside
    /\ Goto("wait")
    /\ UNCHANGED <<world, waiting, faults>>

\* cassandra_removenode, an async job on Self: Cassandra refuses a second removal there.
LaunchRemoval ==
    /\ op = "removal" /\ run.pc = "asked" /\ run.method = "removenode" /\ run.on = Outside
    /\ LET begins == ring.dead = "in" /\ ring.removes[Self] = "none"
       IN /\ run' = [run EXCEPT !.pc = "wait", !.follows = TRUE,
                                !.job = IF begins THEN "running"
                                        ELSE IF ring.dead = "out" THEN "unchanged" ELSE "failed"]
          /\ ring' = IF begins THEN [ring EXCEPT !.removes[Self] = "dead", !.marked = TRUE] ELSE ring
          /\ sessions' = IF begins THEN Anew ELSE sessions
    /\ UNCHANGED <<op, node, waiting, faults>>

\* It finishes every removal or leave the node it runs on knows of, and nothing
\* when it knows of none; the ring read after it must be without the dead node.
ForceRemoval ==
    /\ op = "removal" /\ run.pc = "asked" /\ run.method = "removenode_force"
    /\ ring' = [ring EXCEPT !.dead = IF ring.removes[run.on] = "dead" THEN "out" ELSE @,
                            !.marked = @ /\ ring.removes[run.on] # "dead",
                            !.removes[run.on] = "none",
                            !.other = IF @ = "UL" THEN "gone" ELSE @]
    /\ Goto(IF ring'.dead = "out" THEN "health" ELSE "stopped")
    /\ UNCHANGED <<op, node, sessions, waiting, faults>>

\* cassandra_assassinate: out of gossip.
Assassinate ==
    /\ op = "removal" /\ run.pc = "asked" /\ run.method = "assassinate"
    /\ ring' = [ring EXCEPT !.dead = "out", !.marked = FALSE]
    /\ Goto("health")
    /\ UNCHANGED <<op, node, sessions, waiting, faults>>

\* cluster_health.yml: the dead node, another one leaving or removed, or (but
\* after removenode force) a stream on the first host stop the run.
HealthAfter ==
    /\ run.pc = "health"
    /\ Goto(IF /\ ring.dead = "out" /\ ring.other # "UL"
               /\ \A h \in Coordinators : ring.removes[h] # "other"
               /\ run.method # "removenode_force" =>
                     \A p \in Plans : At[p] = Self => sessions[p].at \notin {"going", "sent"}
            THEN "ended" ELSE "stopped")
    /\ UNCHANGED <<world, waiting, faults>>

-----------------------------------------------------------------------------
(* stream_check.yml                                                        *)

\* _cassandra_stream_from, _cassandra_stream_peers
From == IF op = "removal" THEN Hosts ELSE {Self}
OtherSide == IF op = "join" THEN Peers ELSE {}

\* Where netstats shows a session: the nodes that take over ranges of a dead
\* node; else both ends.
Listed(hosts) ==
    {[host |-> x[1], plan |-> <<x[2], sessions[x[2]].round>>,
      done |-> IF sessions[x[2]].at = "sent" THEN 1 ELSE 0, total |-> 1] :
        x \in {y \in hosts \X Plans : /\ sessions[y[2]].at \in {"going", "sent"}
                                      /\ At[y[2]] = y[1] \/ (y[1] = Self /\ op # "removal")}}

\* What nodetool says on Self.  Cassandra's own login, while a joining node's auth
\* is not set up, or when it times out later, refuses everybody.
OwnAnswers ==
    {"silent"}
    \cup (IF ~node.up THEN {"connection refused"} ELSE IF run.wrong THEN {"login refused"} ELSE {"answers"})
    \cup (IF node.up /\ (op = "join" \/ Self \in w.answered) THEN {"login not ready"} ELSE {})

\* And on the others, those of `silent` not answering.
AnswersOf(own, silent) ==
    [h \in Hosts |-> IF h = Self THEN own ELSE IF h \in silent THEN "silent"
                     ELSE IF run.wrong THEN "login refused" ELSE "answers"]

Own(answers) == [mode |-> IF answers[Self] = "answers" THEN node.mode ELSE "none",
                 why |-> IF answers[Self] = "answers" THEN "none" ELSE answers[Self]]

Read(answers) == IF Blind(Own(answers)) THEN OtherSide ELSE From

Heard(answers) == {h \in Read(answers) : answers[h] = "answers"}

Refused(answers) ==
    JmxRefused(From, answers, IF op = "join" THEN Self ELSE Outside, w.answered \cup Heard(answers))
    \cup (IF Blind(Own(answers)) /\ Heard(answers) = {}
          THEN JmxRefused(OtherSide, answers, Outside, w.answered) ELSE {})

Reading(answers) ==
    [own     |-> Own(answers),
     seen    |-> IF op = "join" /\ Blind(Own(answers)) /\ \E h \in Peers : answers[h] = "answers"
                 THEN node.seen ELSE "none",
     job     |-> IF run.follows THEN run.job ELSE "none",
     removal |-> IF op # "removal" \/ run.on = Outside \/ answers[run.on] # "answers" THEN "none"
                 ELSE IF ring.removes[run.on] # "none" THEN "removing" ELSE "no removal",
     refused |-> Refused(answers)]

\* The hosts asked that answer; what they show.
Seeing(answers) == {h \in IF op = "removal" THEN From ELSE Read(answers) : answers[h] = "answers"}

NowShown(answers) == {s \in shown : s.host \notin Seeing(answers)} \cup Listed(Seeing(answers))

\* Where a wait goes when it says so, and what is left of it then.
AfterWait(said) ==
    IF said # "done" THEN "stopped" ELSE IF op = "removal" THEN "health" ELSE "ended"

CheckSays(after, said, answers) ==
    /\ run' = IF said = "going" THEN run
              ELSE [Over(AfterWait(said)) EXCEPT !.method = run.method, !.said = said]
    /\ w' = IF said = "going" THEN after ELSE NoState
    /\ shown' = IF said = "going" THEN NowShown(answers) ELSE {}
    /\ quiet' = IF w.checks = 0 \/ NowShown(answers) # shown THEN 0
                ELSE Min({quiet + 1, StallTime * QuietFactor})
    \* Stop and disable Cassandra
    /\ node' = IF op = "leave" /\ said = "done" THEN [node EXCEPT !.up = FALSE] ELSE node

Check(answers) ==
    \E after \in {Progress(w, Heard(answers), Listed(Heard(answers)))} :
        \E said \in {Status(op, after, Reading(answers), run.max)} :
            CheckSays(after, said, answers)

Wait ==
    /\ run.pc = "wait"
    /\ \E own \in OwnAnswers :
          \E silent \in SUBSET (IF op = "removal" \/ (op = "join" /\ own # "answers")
                                THEN Peers ELSE {}) :
              Check(AnswersOf(own, silent))
    /\ UNCHANGED <<op, sessions, ring, faults>>

Interrupt ==
    /\ faults < MaxFaults[op] /\ faults' = faults + 1
    /\ ~Idle
    /\ run' = Over("stopped")
    /\ w' = NoState /\ shown' = {} /\ quiet' = 0
    /\ UNCHANGED world

-----------------------------------------------------------------------------
Init ==
    /\ op \in Ops
    /\ node = [mode |-> IF op = "join" THEN "JOINING" ELSE "NORMAL", up |-> TRUE, seen |-> "none"]
    /\ sessions = [p \in Plans |-> [at |-> "later", round |-> 0]]
    /\ \E h \in Coordinators, what \in (IF op = "removal" THEN {"none", "dead", "other"} ELSE {"none"}),
          other \in {"UN", "UL"} :
          /\ other = "UL" => what = "dead"
          /\ ring = [dead |-> IF op = "removal" THEN "in" ELSE "out", marked |-> what = "dead", other |-> other,
                     removes |-> [c \in Coordinators |-> IF c = h THEN what ELSE "none"]]
    /\ run = NoRun
    /\ w = NoState /\ shown = {} /\ quiet = 0
    /\ faults = 0

Cassandra ==
    \/ \E p \in Plans : SessionMoves(p)
    \/ OperationOver \/ JvmStarts \/ GossipSees
    \/ \E h \in Coordinators : OtherRemoved(h)

Faults ==
    \/ OperationFails \/ JvmStops \/ JobDies \/ OtherLeaves \/ DecommissionByHand
    \/ \E h \in Coordinators : CoordinatorRestarts(h) \/ RemovalByHand(h)

Run ==
    \/ LookLeave \/ LaunchLeave \/ LookRemoval \/ Decline \/ ResumeRemoval \/ LaunchRemoval
    \/ ForceRemoval \/ Assassinate \/ HealthAfter \/ Wait

Next == StartRun \/ Run \/ Interrupt \/ Cassandra \/ Faults

Spec == Init /\ [][Next]_vars

\* A wait goes on to its next check, which always changes what it remembers;
\* nothing is asked of the operation.
FairSpec == Spec /\ (<>[](run.pc = "wait") => []<><<Wait>>_w)

-----------------------------------------------------------------------------
Ends(said) == run.pc = "wait" /\ run'.pc # "wait" /\ run'.said = said

\* The wait says done only when the operation is over: the node has joined, has
\* left, or the dead node is out of the ring.  A removal taken over from another
\* host is also done when that host removes nothing any more (its coordinator
\* restarted, which the check of the cluster then finds); one the run started is not.
DoneIsOver ==
    [][Ends("done") =>
        IF op = "removal"
        THEN \/ ring.dead = "out"
             \/ run.on # Outside /\ ring.removes[run.on] = "none"
        ELSE node.mode = OverMode[op]]_vars

\* stream_wait.yml stops early for a cause only: nothing new shown for the stall
\* time by any host that answers (on a removal only as long as the first host's
\* own netstats answers), a login that is really wrong, a JVM that stopped.
StopsForCause ==
    [][/\ Ends("stalled") =>
            \/ quiet' >= IF \E p \in Plans : sessions[p].at = "going" THEN StallTime ELSE StallTime * QuietFactor
            \/ op = "removal"
       /\ Ends("jmx_refused") => run.wrong
       /\ Ends("stopped") => ~node.up]_vars

\* Whatever the hosts answer or not, and if the operation never ends: the wait does.
WaitEnds == run.pc = "wait" ~> run.pc # "wait"

\* One answer lost, a run begun again, a removal begun by hand: no second removal
\* of the node is started next to one going on, unless the operator says none is
\* (cassandra_dead_node_new_removal), or none of the run coordinates it and the
\* gossip, whose reading may fail unseen, was not read.
OneRemoval ==
    [][run.pc = "asked" /\ ring'.removes[Self] = "dead" /\ ring.removes[Self] # "dead" /\ ~run.again =>
        \/ Removers = {}
        \/ run.lost = "gossip" /\ Removers = {Outside}]_vars
=============================================================================
