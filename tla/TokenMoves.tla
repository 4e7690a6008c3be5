----------------------------- MODULE TokenMoves -----------------------------
(***************************************************************************)
(* A single-token cluster over its life: create_cluster and add_node give  *)
(* tokens (TokenPlans) and start the nodes one at a time, move_node moves  *)
(* them one at a time and lists, on the controller, the nodes to clean up. *)
(* A run may stop at any task; a move it started goes on by itself, ends   *)
(* later, or fails and leaves its node MOVING until it is restarted.       *)
(* Nothing is kept between two runs but the ring and the list: each run    *)
(* plans again from the ring.                                              *)
(***************************************************************************)
EXTENDS TokenPlans

CONSTANTS
    Founders,   \* the nodes create_cluster starts
    Rings,      \* rings the model may begin with
    Additions,  \* sets of nodes an add_node run may add, one datacenter each
    Givens,     \* tokens the inventory may set
    Targets,    \* cassandra_move_tokens: <<>> to even the ring out
    Modes,      \* cassandra_move_cleanup: "none", "sequential" or "all"
    Limits,     \* the hosts of a move_node run (--limit)
    MaxRuns,    \* bound: runs
    MaxFaults   \* bound: interruptions, moves and cleanups that fail

ASSUME TokenMovesAssumption == Founders \subseteq ToSet(Order) /\ MaxRuns \in Nat /\ MaxFaults \in Nat
ASSUME RingsAssumption ==
    \A r \in Rings : DOMAIN r \subseteq Hosts /\ r \in [DOMAIN r -> 0 .. Size - 1] /\ IsInjective(r)
ASSUME TokensAssumption ==
    /\ \A given \in Givens, n \in Hosts : n \in DOMAIN given => given[n] \in 0 .. Size - 1
    /\ \A targets \in Targets : \A n \in DOMAIN targets : targets[n] \in 0 .. Size - 1
    /\ Additions \subseteq SUBSET Hosts

VARIABLES
    ring,     \* the position of each node that joined
    moving,   \* MOVING nodes: where to, dead: its streams failed; history: for an even
              \* ring or not, read: its run had read the keyspaces
    pc,       \* where the run is, "idle" between two runs
    run,      \* what the run was asked; calm (history): it planned with no move under way
    steps,    \* the moves left, or the nodes left to start with their tokens
    cleanup,  \* the cleanups of the run's plan, then the ones left to do
    record,   \* the nodes listed in <cassandra_hosts>-move.cleanup
    pending,  \* nodes of the inventory a run was to start, not in the ring yet
    simple,   \* a keyspace has the SimpleStrategy
    runs,     \* runs started
    faults,
    lost,     \* history: nodes that hold a range a move took from them
    unread,   \* history: those of another datacenter than the move's, which was planned
              \* without the keyspaces: no plan listed them
    placed    \* history: nodes at their place for good, by an even plan

vars == <<ring, moving, pc, run, steps, cleanup, record, pending, simple, runs, faults, lost, unread, placed>>

NoRun == [kind |-> "none"]
Nothing == [n \in {} |-> 0]

TypeOK ==
    /\ DOMAIN ring \subseteq Hosts /\ \A n \in DOMAIN ring : ring[n] \in 0 .. Size - 1
    /\ DOMAIN moving \subseteq DOMAIN ring
    /\ pc \in {"idle", "start", "record", "moves", "follow", "cleanup"}
    /\ (pc = "idle") = (run = NoRun)
    /\ record \subseteq Hosts /\ unread \subseteq lost /\ lost \subseteq Hosts /\ cleanup \subseteq Hosts
    /\ pending \subseteq Hosts \ DOMAIN ring
    /\ runs \in 0 .. MaxRuns /\ faults \in 0 .. MaxFaults

Init ==
    /\ ring \in Rings
    /\ simple \in BOOLEAN
    /\ moving = Nothing /\ pc = "idle" /\ run = NoRun /\ steps = <<>> /\ runs = 0 /\ faults = 0
    /\ cleanup = {} /\ record = {} /\ pending = {} /\ lost = {} /\ unread = {} /\ placed = {}

\* cluster_health.yml: every node of the inventory in the ring, each one Normal.
Healthy(missing) == moving = Nothing /\ pending = missing

\* The run ends, or stops at a failure: what it left going goes on.
Over == pc' = "idle" /\ run' = NoRun /\ steps' = <<>> /\ cleanup' = {}

----------------------------------------------------------------------------
(***************************************************************************)
(* create_cluster and add_node: the plan, then each node in turn.          *)
(***************************************************************************)
\* A run that goes on with the nodes an earlier one planned keeps what it placed.
StartNodes(kind, plan) ==
    /\ runs < MaxRuns /\ runs' = runs + 1
    /\ plan.ok
    /\ plan.new # <<>>
    /\ pc' = "start"
    /\ run' = [kind |-> kind, calm |-> moving = Nothing]
    /\ pending' = DOMAIN plan.new
    /\ steps' = LET order == Of(DOMAIN plan.new)
                IN  [i \in 1 .. Len(order) |-> [name |-> order[i], to |-> plan.new[order[i]]]]
    /\ placed' = IF kind # "bisect" /\ pending = DOMAIN plan.new THEN placed ELSE {}
    /\ UNCHANGED <<ring, moving, cleanup, record, simple, faults, lost, unread>>

Create(given, partial) ==
    LET own == Restrict(given, Founders \cap DOMAIN given) IN
    /\ pc = "idle"
    /\ StartNodes(IF own = <<>> THEN "balanced" ELSE "bisect",
                  AssignPlan(Founders, own, ring, partial))

Add(kind, new, given, known) ==
    LET dc   == CHOOSE d \in Dcs(new) : TRUE
        left == new \ DOMAIN ring
        own  == Restrict(given, left \cap DOMAIN given)
    IN
    /\ pc = "idle"
    /\ left # {} /\ pending \subseteq left
    /\ Founders \subseteq DOMAIN ring
    /\ StartNodes(kind, AddPlan(kind, ring, dc, own, Of(left \ DOMAIN own), known))

\* A node starts and joins at its token; Cassandra refuses a token already held.
Join ==
    /\ pc = "start"
    /\ steps # <<>>
    /\ IF moving # Nothing \/ Head(steps).to \in Positions(ring)
       THEN Over /\ UNCHANGED <<ring, pending, placed>>
       ELSE /\ ring' = Put(ring, Head(steps).name, Head(steps).to)
            /\ pending' = pending \ {Head(steps).name}
            /\ placed' = IF run.kind = "bisect" \/ ~run.calm THEN {} ELSE placed \cup {Head(steps).name}
            /\ steps' = Tail(steps)
            /\ UNCHANGED <<pc, run, cleanup>>
    /\ UNCHANGED <<moving, record, simple, runs, faults, lost, unread>>

AllStarted ==
    /\ pc = "start" /\ steps = <<>>
    /\ Over
    /\ UNCHANGED <<ring, moving, record, pending, simple, runs, faults, lost, unread, placed>>

\* The operator takes out of the inventory the nodes that are not to join.
TakeOut ==
    /\ pc = "idle" /\ pending # {}
    /\ pending' = {} /\ placed' = {}
    /\ UNCHANGED <<ring, moving, pc, run, steps, cleanup, record, simple, runs, faults, lost, unread>>

----------------------------------------------------------------------------
(***************************************************************************)
(* move_node                                                               *)
(***************************************************************************)
\* The nodes of this run to clean up: this plan's and the ones earlier runs listed.
ToClean(limit, planned) == (planned \cup record) \cap limit

\* A run starts: it waits for the moves an earlier one left going on its hosts
\* (one that stalls stops it, nothing done), plans, and is refused a plan with
\* a node outside its hosts.
Move(targets, known) ==
    /\ pc = "idle" /\ ring # <<>>
    /\ runs < MaxRuns /\ runs' = runs + 1
    /\ \E plan \in {MovePlan(ring, DOMAIN moving, targets, known, simple)}, limit \in Limits, mode \in Modes :
        /\ DOMAIN moving \cap limit = {}
        /\ plan.ok
        /\ \A i \in DOMAIN plan.steps : plan.steps[i].name \in limit
        /\ run' = [kind |-> "move", targets |-> targets, limit |-> limit, mode |-> mode, known |-> known,
                   calm |-> moving = Nothing]
        /\ steps' = plan.steps
        /\ cleanup' = IF plan.steps = <<>> THEN ToClean(limit, {}) ELSE plan.cleanup
        /\ pc' = IF plan.steps = <<>> THEN "cleanup" ELSE "record"
    /\ placed' = IF targets = <<>> /\ pending = {} THEN placed ELSE {}
    /\ UNCHANGED <<ring, moving, record, pending, simple, faults, lost, unread>>

\* Before the first move: every cleanup of the plan.
RecordCleanups ==
    /\ pc = "record"
    /\ record' = record \cup cleanup
    /\ pc' = "moves"
    /\ UNCHANGED <<ring, moving, run, steps, cleanup, pending, simple, runs, faults, lost, unread, placed>>

\* One step: the cluster checked, the nodes that lose ranges listed, then
\* cassandra_move: nothing when the node is there, refused for a held token.
BeginMove ==
    LET step == Head(steps) IN
    /\ pc = "moves"
    /\ steps # <<>>
    /\ IF ~Healthy({}) THEN Over /\ UNCHANGED <<moving, record>>
       ELSE /\ record' = record \cup step.loss
            /\ IF ring[step.name] = step.to
               THEN steps' = Tail(steps) /\ UNCHANGED <<moving, pc, run, cleanup>>
               ELSE IF step.to \in Positions(ring) THEN Over /\ UNCHANGED moving
               ELSE /\ moving' = [n \in {step.name} |-> [to   |-> step.to, dead |-> FALSE,
                                                           even |-> run.targets = <<>>,
                                                           read |-> run.known]]
                    /\ pc' = "follow"
                    /\ UNCHANGED <<run, steps, cleanup>>
    /\ UNCHANGED <<ring, pending, simple, runs, faults, lost, unread, placed>>

\* The nodes that receive data have no room left.
NoRoom ==
    /\ pc = "moves" /\ steps # <<>> /\ faults < MaxFaults
    /\ faults' = faults + 1
    /\ Over
    /\ UNCHANGED <<ring, moving, record, pending, simple, runs, lost, unread, placed>>

\* The job ended: the next move, or the run stops at its failure.
Followed ==
    LET step == Head(steps) IN
    /\ pc = "follow"
    /\ step.name \in DOMAIN moving => moving[step.name].dead
    /\ IF ring[step.name] = step.to
       THEN pc' = "moves" /\ steps' = Tail(steps) /\ UNCHANGED <<run, cleanup>>
       ELSE Over
    /\ UNCHANGED <<ring, moving, record, pending, simple, runs, faults, lost, unread, placed>>

AllMoved ==
    /\ pc = "moves" /\ steps = <<>>
    /\ pc' = "cleanup"
    /\ cleanup' = ToClean(run.limit, cleanup)
    /\ UNCHANGED <<ring, moving, run, steps, record, pending, simple, runs, faults, lost, unread, placed>>

\* By batches, the cluster checked before each.
CleanBatch ==
    /\ pc = "cleanup" /\ run.mode # "none" /\ cleanup # {}
    /\ IF ~Healthy({}) THEN Over /\ UNCHANGED <<lost, unread>>
       ELSE LET batch == IF run.mode = "all" THEN cleanup ELSE {Head(Of(cleanup))} IN
            /\ lost' = lost \ batch
            /\ unread' = unread \ batch
            /\ cleanup' = cleanup \ batch
            /\ UNCHANGED <<pc, run, steps>>
    /\ UNCHANGED <<ring, moving, record, pending, simple, runs, faults, placed>>

CleanupFails ==
    /\ pc = "cleanup" /\ run.mode # "none" /\ cleanup # {} /\ faults < MaxFaults
    /\ faults' = faults + 1
    /\ Over
    /\ UNCHANGED <<ring, moving, record, pending, simple, runs, lost, unread, placed>>

(* Mutant: the nodes out of the run's hosts are forgotten too. *)
ForgetAll ==
    /\ pc = "cleanup" /\ run.mode # "none" /\ cleanup = {}
    /\ record' = {}
    /\ Over
    /\ UNCHANGED <<ring, moving, pending, simple, runs, faults, lost, unread, placed>>

\* The list keeps the nodes this run could not reach.
Forget ==
    /\ pc = "cleanup" /\ run.mode # "none" /\ cleanup = {}
    /\ record' = record \ run.limit
    /\ Over
    /\ UNCHANGED <<ring, moving, pending, simple, runs, faults, lost, unread, placed>>

CleanupLeft ==
    /\ pc = "cleanup" /\ run.mode = "none"
    /\ Over
    /\ UNCHANGED <<ring, moving, record, pending, simple, runs, faults, lost, unread, placed>>

----------------------------------------------------------------------------
(***************************************************************************)
(* Faults, and the nodes.                                                  *)
(***************************************************************************)
Interrupt ==
    /\ pc # "idle" /\ faults < MaxFaults
    /\ faults' = faults + 1
    /\ Over
    /\ UNCHANGED <<ring, moving, record, pending, simple, runs, lost, unread, placed>>

\* nodetool move ends: the node is at its new token, those that lost a range
\* to it (of a SimpleStrategy keyspace: any of them) keep its data.
MoveEnds(n) ==
    LET to == moving[n].to
        before == OfDc(ring, Dc[n])
        after  == [before EXCEPT ![n] = to]
    IN
    /\ ~moving[n].dead
    /\ ring' = [ring EXCEPT ![n] = to]
    /\ moving' = Restrict(moving, DOMAIN moving \ {n})
    /\ lost' = lost \cup IF simple THEN DOMAIN ring
                         ELSE UNION {Losers(before, after, rf) : rf \in Rfs[Dc[n]]}
    /\ unread' = unread \cup IF simple /\ ~moving[n].read
                             THEN {m \in DOMAIN ring \ record : Dc[m] # Dc[n]} ELSE {}
    /\ placed' = IF moving[n].even /\ pending = {} THEN placed \cup {n} ELSE {}
    /\ UNCHANGED <<pc, run, steps, cleanup, record, pending, simple, runs, faults>>

MoveFails(n) ==
    /\ ~moving[n].dead /\ faults < MaxFaults
    /\ faults' = faults + 1
    /\ moving' = [moving EXCEPT ![n].dead = TRUE]
    /\ UNCHANGED <<ring, pc, run, steps, cleanup, record, pending, simple, runs, lost, unread, placed>>

\* Restarting Cassandra cancels a failed move: the node keeps its old token.
Restarted(n) ==
    /\ moving[n].dead
    /\ moving' = Restrict(moving, DOMAIN moving \ {n})
    /\ UNCHANGED <<ring, pc, run, steps, cleanup, record, pending, simple, runs, faults, lost, unread, placed>>

Next ==
    \/ \E given \in Givens, partial \in BOOLEAN : Create(given, partial)
    \/ \E kind \in {"bisect", "balanced"}, new \in Additions, given \in Givens, known \in BOOLEAN :
           Add(kind, new, given, known)
    \/ Join \/ AllStarted \/ TakeOut
    \/ \E targets \in Targets, known \in BOOLEAN : Move(targets, known)
    \/ RecordCleanups
    \/ BeginMove \/ NoRoom \/ Followed \/ AllMoved
    \/ CleanBatch \/ CleanupFails \/ Forget \/ CleanupLeft
    \/ Interrupt
    \/ \E n \in DOMAIN moving : MoveEnds(n) \/ MoveFails(n) \/ Restarted(n)

Spec == Init /\ [][Next]_vars

----------------------------------------------------------------------------
(***************************************************************************)
(* Properties.                                                             *)
(***************************************************************************)
\* No node is started at, or moved to, a token another node holds when its
\* turn comes, in any datacenter: Cassandra would refuse it halfway through.
\* (Planned while a move an earlier run left going was under way, it may be.)
TokensFree ==
    pc \in {"start", "moves"} /\ steps # <<>> /\ run.calm =>
        \A n \in DOMAIN ring \ {Head(steps).name} : ring[n] # Head(steps).to

\* A run stopped halfway, then another one, plan only the moves left: no node
\* an even plan put at its place (moved, or started by add_node's balanced or by
\* create_cluster) is moved again.
MovedOnce ==
    pc = "record" /\ run.targets = <<>> =>
        \A i \in DOMAIN steps : steps[i].name \notin placed

\* "The tokens are as even as they get with the nodes in this order": a run that
\* evens the rings out and gets to its cleanups leaves no datacenter whose nodes,
\* evenly spaced in the order they have, would hold shares closer than the
\* tolerance does.
InOrderEven(cur) ==
    LET order == InRing(cur)
    IN  Paired(order, BalancedPositions(Len(order), 0))

EvenTolerances == 4

EvenlySpaced(cur) ==
    LET m == Cardinality(DOMAIN cur)
        p == ToSet(BalancedPositions(m, 0))
    IN  \E o \in 0 .. Size - 1 : \A t \in p : \E n \in DOMAIN cur :
            Distance(cur[n], (o + t) % Size) <= Tolerance(m)

LeftEven ==
    pc = "cleanup" /\ run.targets = <<>> =>
        \A dc \in Dcs(DOMAIN ring) :
            LET cur == OfDc(ring, dc) IN
            \/ EvenlySpaced(cur)
            \/ \A rf \in RfSet(run.known, dc) :
                   Spread(cur, rf) <= Spread(InOrderEven(cur), rf)
                                        + EvenTolerances * rf * Tolerance(Cardinality(DOMAIN cur))

\* Evening a cluster out ends, each node moved once, at a ring as even as it gets.
EndsEven == LeftEven /\ MovedOnce

\* A node that holds data a move took from it stays listed until it is cleaned
\* up, whatever run stops and whatever its --limit.  Exempted, when the keyspaces
\* could not be read and one has the SimpleStrategy: the nodes of the datacenters
\* that do not move, which lose ranges of it and are not listed (unread).
CleanupsKept == lost \ unread \subseteq record
=============================================================================
