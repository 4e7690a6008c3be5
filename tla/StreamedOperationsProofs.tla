---------------------- MODULE StreamedOperationsProofs ----------------------
(***************************************************************************)
(* Proofs about the operations that stream, for every cluster, number of   *)
(* runs and of faults, and every pace of the streams: the wait says done   *)
(* only when the operation is over, stops early for a cause only, and no   *)
(* second removal of the dead node begins next to one going on.            *)
(***************************************************************************)
EXTENDS StreamedOperations, FiniteSetTheorems, WellFoundedInduction, TLAPS

-----------------------------------------------------------------------------
(* The words of a wait.                                                    *)

\* A set of natural numbers has a least member.
LEMMA LeastIndex ==
  ASSUME NEW S \in SUBSET Nat, S # {}
  PROVE  Min(S) \in S
<1> DEFINE R == OpToRel(<, Nat)
<1>1. IsWellFoundedOn(R, Nat)
  BY NatLessThanWellFounded, Zenon
<1>2. \A x, y \in Nat : x < y => <<x, y>> \in R
  BY DEF OpToRel
<1> HIDE DEF R
<1>3. PICK least \in S : \A i \in S : <<i, least>> \notin R
  BY <1>1, WFMin, Zenon
<1>4. ASSUME NEW i \in S
      PROVE  least =< i
  <2>1. least \in Nat /\ i \in Nat /\ <<i, least>> \notin R
    BY <1>3
  <2>2. ~(i < least)
    BY <1>2, <2>1, Zenon
  <2> QED
    BY <2>1, <2>2
<1> QED
  BY <1>4 DEF Min

\* The status of a wait is the word of a verdict that holds.
LEMMA SomeVerdict ==
  ASSUME NEW kind, NEW state, NEW r, NEW max
  PROVE  \E i \in 1..10 : /\ Verdicts(kind, state, r, max)[i][1]
                          /\ Status(kind, state, r, max) = Verdicts(kind, state, r, max)[i][2]
<1> DEFINE verdicts == Verdicts(kind, state, r, max)
           holds == {i \in 1..Len(verdicts) : verdicts[i][1]}
<1>1. Len(verdicts) = 10 /\ verdicts[10][1]
  BY DEF Verdicts
<1>2. 10 \in holds /\ holds \in SUBSET Nat /\ holds \subseteq 1..10
  BY <1>1
<1> HIDE DEF verdicts
<1>3. Status(kind, state, r, max) = verdicts[IF holds # {} THEN Min(holds) ELSE 0][2]
  BY DEF Status, SelectInSeq, verdicts
<1>4. Min(holds) \in holds
  <2> HIDE DEF holds
  <2> QED
    BY <1>2, LeastIndex
<1>5. Status(kind, state, r, max) = verdicts[Min(holds)][2]
  BY <1>2, <1>3
<1> QED
  BY <1>2, <1>4, <1>5 DEF verdicts

\* What must hold for the wait to end with each of its words.
LEMMA WordsMean ==
  ASSUME NEW kind, NEW state, NEW r, NEW max
  PROVE  /\ Status(kind, state, r, max) = "done" => Done(kind, r)
         /\ Status(kind, state, r, max) = "stalled" => Stalled(state)
         /\ Status(kind, state, r, max) = "jmx_refused" => r.refused # {}
         /\ Status(kind, state, r, max) = "stopped" => OwnStopped(r.own)
<1> DEFINE verdicts == Verdicts(kind, state, r, max)
<1>1. PICK i \in 1..10 : verdicts[i][1] /\ Status(kind, state, r, max) = verdicts[i][2]
  BY SomeVerdict
<1>2. /\ verdicts[1][2] = "done" /\ verdicts[2][2] = "job_failed" /\ verdicts[3][2] = "job_lost"
      /\ verdicts[4][2] = "join_failed" /\ verdicts[5][2] = "leave_failed"
      /\ verdicts[6][2] = "stopped" /\ verdicts[7][2] = "jmx_refused"
      /\ verdicts[8][2] = "stalled" /\ verdicts[9][2] = "too_long" /\ verdicts[10][2] = "going"
  BY DEF Verdicts
<1>3. /\ verdicts[1][1] => Done(kind, r)
      /\ verdicts[6][1] => OwnStopped(r.own)
      /\ verdicts[7][1] => r.refused # {}
      /\ verdicts[8][1] => Stalled(state)
  BY DEF Verdicts
<1> HIDE DEF verdicts
<1>4. i \in {1, 2, 3, 4, 5, 6, 7, 8, 9, 10}
  OBVIOUS
<1> QED
  BY <1>1, <1>2, <1>3, <1>4

-----------------------------------------------------------------------------
(* The operation and the run.                                              *)

NodeType == [mode : {"JOINING", "NORMAL", "LEAVING", "DECOMMISSIONED", "JOINING_FAILED",
                     "DECOMMISSION_FAILED"},
             up : BOOLEAN, seen : {"none", "UN", "UJ"}]
RingType == [dead : {"in", "out"}, marked : BOOLEAN, other : {"UN", "UL", "gone"},
             removes : [Coordinators -> {"none", "dead", "other"}]]
RunType == [pc : {"idle", "ended", "stopped", "look", "asked", "wait", "health"}, count : Nat,
            method : {"removenode", "removenode_force", "assassinate"}, again : BOOLEAN,
            on : Coordinators, follows : BOOLEAN,
            job : {"none", "running", "changed", "unchanged", "failed", "lost"},
            said : {run.said}, lost : {run.lost}, other : {run.other}, wrong : BOOLEAN,
            max : {run.max}]
SessionType == [at : {"later", "going", "sent", "over"}, round : Nat]

TypeInv ==
  /\ op \in {"join", "leave", "removal"}
  /\ node \in NodeType /\ ring \in RingType /\ run \in RunType
  /\ sessions \in [Plans -> SessionType]

\* What tells that an operation is over is true: how the others see the node, the end
\* of its job.
OverInv ==
  /\ op = "join" => run.job = "none" /\ (node.seen = "UN" => node.mode = "NORMAL")
  /\ op = "leave" /\ run.job = "changed" => node.mode = "DECOMMISSIONED"
  /\ op = "removal" /\ run.job \in {"changed", "unchanged"} => ring.dead = "out"

\* A removal of the dead node is marked in gossip; and between the look at the
\* removals and the launch of one none begins.
RemovalInv ==
  op = "removal" /\ ring.dead = "in" =>
    /\ Removers # {} => ring.marked
    /\ run.pc = "asked" /\ run.method = "removenode" /\ run.on = Outside /\ ~run.again =>
         \/ Removers = {}
         \/ run.lost = "gossip" /\ Removers \subseteq {Outside}

OperationInv == TypeInv /\ OverInv /\ RemovalInv

\* A job that ends changes nothing else of the run.
LEMMA JobEndsType ==
  ASSUME TypeInv, NEW how \in {"changed", "failed", "lost"}, run' = JobEnds(how)
  PROVE  /\ run' \in RunType' /\ run'.pc = run.pc /\ run'.method = run.method
         /\ run'.on = run.on /\ run'.again = run.again /\ run'.lost = run.lost
         /\ run'.said = run.said /\ run'.wrong = run.wrong
         /\ run'.job = run.job \/ (run.job = "running" /\ run'.job = how)
  BY DEF JobEnds, TypeInv, RunType

\* What is left of a run that is over.
LEMMA OverType ==
  ASSUME TypeInv, NEW pc \in {"ended", "stopped", "health"}
  PROVE  /\ Over(pc).pc = pc /\ Over(pc).job = "none" /\ Over(pc).on = Outside
         /\ Over(pc).said = "none" /\ Over(pc).method = "removenode"
         /\ Over(pc) \in [pc : {pc}, count : Nat, method : {"removenode"}, again : {FALSE},
                          on : {Outside}, follows : {FALSE}, job : {"none"}, said : {"none"},
                          lost : {"nothing"}, other : {"UN"}, wrong : {FALSE}, max : {0}]
         /\ run' = Over(pc) => run' \in RunType'
<1>1. run.count \in Nat /\ Outside \in Coordinators
  BY DEF TypeInv, RunType, Coordinators
<1>2. Over(pc) \in [pc : {pc}, count : Nat, method : {"removenode"}, again : {FALSE},
                    on : {Outside}, follows : {FALSE}, job : {"none"}, said : {"none"},
                    lost : {"nothing"}, other : {"UN"}, wrong : {FALSE}, max : {0}]
  BY <1>1 DEF Over, NoRun
<1>3. ASSUME run' = Over(pc)
      PROVE  run' \in RunType'
  <2>1. run' \in [pc : {pc}, count : Nat, method : {"removenode"}, again : {FALSE},
                  on : {Outside}, follows : {FALSE}, job : {"none"}, said : {"none"},
                  lost : {"nothing"}, other : {"UN"}, wrong : {FALSE}, max : {0}]
    BY <1>2, <1>3
  <2>2. Coordinators' = Coordinators
    BY DEF Coordinators, Hosts
  <2> QED
    BY <1>1, <2>1, <2>2 DEF RunType
<1> QED
  BY <1>2, <1>3

\* A run goes to another task.
LEMMA GotoType ==
  ASSUME TypeInv, NEW pc \in {"ended", "stopped", "look", "asked", "wait", "health"}, Goto(pc)
  PROVE  /\ run' \in RunType' /\ run'.pc = pc
         /\ \/ run'.job = "none" /\ run'.on = Outside /\ pc \in {"ended", "stopped"}
            \/ /\ run'.job = run.job /\ run'.on = run.on /\ run'.method = run.method
               /\ run'.again = run.again /\ run'.lost = run.lost
<1>1. CASE pc \in {"ended", "stopped"}
  BY <1>1, OverType DEF Goto
<1>2. CASE pc \notin {"ended", "stopped"}
  BY <1>2 DEF Goto, TypeInv, RunType
<1> QED
  BY <1>1, <1>2

\* The sessions of an operation that begins again.
LEMMA AnewType ==
  ASSUME TypeInv
  PROVE  /\ Anew \in [Plans -> SessionType]
         /\ \A p \in Plans : Anew[p].round = sessions[p].round + 1
  BY DEF Anew, TypeInv, SessionType

\* RemovalInv outlives a step that neither begins a removal nor gives up the mark.
LEMMA RemovalKept ==
  ASSUME RemovalInv, op' = op, Removers' \subseteq Removers,
         ring'.dead = ring.dead \/ ring'.dead = "out", ring'.marked = ring.marked,
         \/ UNCHANGED run
         \/ /\ run'.pc = run.pc /\ run'.method = run.method /\ run'.on = run.on
            /\ run'.again = run.again /\ run'.lost = run.lost
  PROVE  RemovalInv'
  BY DEF RemovalInv

\* Cassandra's own steps.
LEMMA CassandraStep ==
  ASSUME OperationInv, Cassandra
  PROVE  OperationInv'
<1> USE DEF OperationInv
<1>1. ASSUME NEW p \in Plans, SessionMoves(p)
      PROVE  OperationInv'
  <2>1. UNCHANGED <<op, node, ring, run>>
    BY <1>1 DEF SessionMoves
  <2>2. sessions' \in [Plans -> SessionType]
    BY <1>1 DEF SessionMoves, TypeInv, SessionType
  <2>3. TypeInv'
    BY <2>1, <2>2 DEF TypeInv, RunType, RingType, Coordinators, Hosts
  <2> QED
    BY <2>1, <2>3 DEF OverInv, RemovalInv, Removers
<1>2. ASSUME OperationOver
      PROVE  OperationInv'
  <2>1. /\ Streaming /\ UNCHANGED <<op, sessions>> /\ run' = JobEnds("changed")
        /\ node' = [node EXCEPT !.mode = OverMode[op]]
        /\ ring' = IF op = "removal"
               THEN [ring EXCEPT !.dead = "out", !.marked = FALSE,
                                 !.removes = [h \in Coordinators |-> IF @[h] = "dead" THEN "none" ELSE @[h]]]
               ELSE ring
    BY <1>2 DEF OperationOver
  <2>2. node' \in NodeType /\ node'.mode = OverMode[op] /\ node'.seen = node.seen
    BY <2>1 DEF TypeInv, NodeType, OverMode
  <2>3. ring' \in RingType /\ (op = "removal" => ring'.dead = "out")
    BY <2>1 DEF TypeInv, RingType
  <2>4. /\ run' \in RunType' /\ (run'.job = run.job \/ run.job = "running")
    BY <2>1, JobEndsType
  <2>5. TypeInv'
    BY <2>1, <2>2, <2>3, <2>4 DEF TypeInv, RingType, Coordinators, Hosts
  <2>6. OverInv'
    BY <2>1, <2>2, <2>3, <2>4 DEF OverInv, OverMode, TypeInv
  <2>7. RemovalInv'
    BY <2>1, <2>3 DEF RemovalInv
  <2> QED
    BY <2>5, <2>6, <2>7
<1>3. ASSUME JvmStarts
      PROVE  OperationInv'
  <2>1. /\ UNCHANGED <<op, ring, run>> /\ node.mode # "DECOMMISSIONED"
        /\ node' = [node EXCEPT !.up = TRUE,
                            !.mode = IF op = "leave" \/ @ = "NORMAL" THEN "NORMAL" ELSE "JOINING"]
        /\ sessions' = Anew \/ sessions' = sessions
    BY <1>3 DEF JvmStarts
  <2>2. /\ node' \in NodeType /\ node'.seen = node.seen
        /\ node.mode = "NORMAL" => node'.mode = "NORMAL"
    BY <2>1 DEF TypeInv, NodeType
  <2>3. TypeInv'
    BY <2>1, <2>2, AnewType DEF TypeInv, RunType, RingType, Coordinators, Hosts
  <2> QED
    BY <2>1, <2>2, <2>3 DEF OverInv, RemovalInv, Removers
<1>4. ASSUME GossipSees
      PROVE  OperationInv'
  <2>1. /\ UNCHANGED <<op, ring, run, sessions>>
        /\ node' = [node EXCEPT !.seen = IF node.mode = "NORMAL" THEN "UN" ELSE "UJ"]
    BY <1>4 DEF GossipSees
  <2>2. /\ node' \in NodeType /\ node'.mode = node.mode
        /\ node'.seen = "UN" => node.mode = "NORMAL"
    BY <2>1 DEF TypeInv, NodeType
  <2>3. TypeInv'
    BY <2>1, <2>2 DEF TypeInv, RunType, RingType, Coordinators, Hosts
  <2> QED
    BY <2>1, <2>2, <2>3 DEF OverInv, RemovalInv, Removers
<1>5. ASSUME NEW h \in Coordinators, OtherRemoved(h)
      PROVE  OperationInv'
  <2>1. /\ UNCHANGED <<op, node, run, sessions>> /\ ring.removes[h] = "other"
        /\ ring' = [ring EXCEPT !.removes[h] = "none"]
    BY <1>5 DEF OtherRemoved
  <2>2. /\ ring' \in RingType /\ ring'.dead = ring.dead /\ ring'.marked = ring.marked
        /\ Removers' = Removers
    BY <2>1 DEF TypeInv, RingType, Removers, Coordinators, Hosts
  <2>3. TypeInv'
    BY <2>1, <2>2 DEF TypeInv, RunType, RingType, Coordinators, Hosts
  <2>4. RemovalInv'
    BY <2>1, <2>2, RemovalKept
  <2> QED
    BY <2>1, <2>2, <2>3, <2>4 DEF OverInv
<1> QED
  BY <1>1, <1>2, <1>3, <1>4, <1>5 DEF Cassandra

\* Faults, and what operators do by hand.
LEMMA FaultStep ==
  ASSUME OperationInv, Faults
  PROVE  OperationInv'
<1> USE DEF OperationInv
<1>1. ASSUME OperationFails
      PROVE  OperationInv'
  <2>1. /\ UNCHANGED <<op, ring>> /\ Streaming /\ op \in {"join", "leave"}
        /\ \/ UNCHANGED node
           \/ node' = [node EXCEPT !.mode = IF op = "join" THEN "JOINING_FAILED" ELSE "DECOMMISSION_FAILED"]
        /\ sessions' = [p \in Plans |-> [sessions[p] EXCEPT !.at = "over"]]
        /\ run' = JobEnds("failed")
    BY <1>1 DEF OperationFails
  <2>2. /\ node' \in NodeType /\ node'.seen = node.seen
        /\ node.mode \in {"JOINING", "LEAVING"}
        /\ op = "join" => node.mode = "JOINING"
    BY <2>1 DEF TypeInv, NodeType, Streaming
  <2>3. sessions' \in [Plans -> SessionType]
    BY <2>1 DEF TypeInv, SessionType
  <2>4. /\ run' \in RunType' /\ (run'.job = run.job \/ run'.job = "failed")
        /\ (run'.job = run.job \/ run.job = "running")
    BY <2>1, JobEndsType
  <2>5. TypeInv'
    BY <2>1, <2>2, <2>3, <2>4 DEF TypeInv, RingType, Coordinators, Hosts
  <2>6. OverInv'
    BY <2>1, <2>2, <2>4 DEF OverInv
  <2> QED
    BY <2>1, <2>5, <2>6 DEF RemovalInv
<1>2. ASSUME JvmStops
      PROVE  OperationInv'
  <2>1. /\ UNCHANGED <<op, ring, sessions>> /\ op \in {"join", "leave"}
        /\ node' = [node EXCEPT !.up = FALSE]
        /\ run' = JobEnds("failed")
    BY <1>2 DEF JvmStops
  <2>2. node' \in NodeType /\ node'.seen = node.seen /\ node'.mode = node.mode
    BY <2>1 DEF TypeInv, NodeType
  <2>4. /\ run' \in RunType' /\ (run'.job = run.job \/ run'.job = "failed")
        /\ (run'.job = run.job \/ run.job = "running")
    BY <2>1, JobEndsType
  <2>5. TypeInv'
    BY <2>1, <2>2, <2>4 DEF TypeInv, RingType, Coordinators, Hosts
  <2>6. OverInv'
    BY <2>1, <2>2, <2>4 DEF OverInv
  <2> QED
    BY <2>1, <2>5, <2>6 DEF RemovalInv
<1>3. ASSUME NEW how \in {"failed", "lost"}, run' = JobEnds(how), UNCHANGED world, run.job = "running"
      PROVE  OperationInv'
  <2>1. UNCHANGED <<op, node, sessions, ring>>
    BY <1>3 DEF world
  <2>2. /\ run' \in RunType' /\ run'.job \in {"failed", "lost"}
        /\ run'.pc = run.pc /\ run'.method = run.method /\ run'.on = run.on
        /\ run'.again = run.again /\ run'.lost = run.lost
    BY <1>3, JobEndsType DEF JobEnds, TypeInv, RunType
  <2>3. TypeInv'
    BY <2>1, <2>2 DEF TypeInv, RingType, Coordinators, Hosts
  <2>4. RemovalInv'
    <3>1. Removers' = Removers
      BY <2>1 DEF Removers, Coordinators, Hosts
    <3> QED
      BY <2>1, <2>2, <3>1, RemovalKept
  <2>5. OverInv'
    BY <1>3, <2>1, <2>2 DEF OverInv
  <2> QED
    BY <2>3, <2>4, <2>5
<1>4. ASSUME DecommissionByHand
      PROVE  OperationInv'
  <2>1. /\ UNCHANGED <<op, ring, run>> /\ op = "leave" /\ sessions' = Anew
        /\ node.mode = "NORMAL" /\ node' = [node EXCEPT !.mode = "LEAVING"]
    BY <1>4 DEF DecommissionByHand
  <2>2. node' \in NodeType
    BY <2>1 DEF TypeInv, NodeType
  <2>3. TypeInv'
    BY <2>1, <2>2, AnewType DEF TypeInv, RunType, RingType, Coordinators, Hosts
  <2> QED
    BY <2>1, <2>3 DEF OverInv, RemovalInv
<1>5. ASSUME OtherLeaves
      PROVE  OperationInv'
  <2>1. /\ UNCHANGED <<op, node, run, sessions>>
        /\ \/ ring' = [ring EXCEPT !.other = "UL"]
           \/ ring' = [ring EXCEPT !.other = "gone"]
    BY <1>5 DEF OtherLeaves
  <2>2. /\ ring' \in RingType /\ ring'.dead = ring.dead /\ ring'.marked = ring.marked
        /\ Removers' = Removers
    BY <2>1 DEF TypeInv, RingType, Removers, Coordinators, Hosts
  <2>3. TypeInv'
    BY <2>1, <2>2 DEF TypeInv, RunType, RingType, Coordinators, Hosts
  <2>4. RemovalInv'
    BY <2>1, <2>2, RemovalKept
  <2> QED
    BY <2>1, <2>2, <2>3, <2>4 DEF OverInv
<1>6. ASSUME NEW h \in Coordinators, CoordinatorRestarts(h)
      PROVE  OperationInv'
  <2>1. /\ UNCHANGED <<op, node, sessions>> /\ ring.removes[h] = "dead"
        /\ ring' = [ring EXCEPT !.removes[h] = "none"]
        /\ run' = run \/ run' = JobEnds("failed")
    BY <1>6 DEF CoordinatorRestarts
  <2>2. /\ ring' \in RingType /\ ring'.dead = ring.dead /\ ring'.marked = ring.marked
        /\ Removers' \subseteq Removers
    BY <2>1 DEF TypeInv, RingType, Removers, Coordinators, Hosts
  <2>3. /\ run' \in RunType' /\ run'.pc = run.pc /\ run'.method = run.method
        /\ run'.on = run.on /\ run'.again = run.again /\ run'.lost = run.lost
        /\ \/ run'.job = run.job
           \/ run'.job = "failed" /\ run.job = "running"
    BY <2>1, JobEndsType DEF TypeInv, RunType, Coordinators, Hosts
  <2>4. TypeInv'
    BY <2>1, <2>2, <2>3 DEF TypeInv, RingType, Coordinators, Hosts
  <2>5. RemovalInv'
    BY <2>1, <2>2, <2>3, RemovalKept
  <2>6. OverInv'
    BY <2>1, <2>2, <2>3 DEF OverInv
  <2> QED
    BY <2>4, <2>5, <2>6
<1>7. ASSUME NEW h \in Coordinators, RemovalByHand(h)
      PROVE  OperationInv'
  <2>1. /\ UNCHANGED <<op, node, run>> /\ sessions' = Anew /\ Idle /\ ring.dead = "in"
        /\ ring' = [ring EXCEPT !.removes[h] = "dead", !.marked = TRUE]
    BY <1>7 DEF RemovalByHand
  <2>2. ring' \in RingType /\ ring'.dead = ring.dead /\ ring'.marked = TRUE
    BY <2>1 DEF TypeInv, RingType
  <2>3. TypeInv'
    BY <2>1, <2>2, AnewType DEF TypeInv, RunType, RingType, Coordinators, Hosts
  <2>4. RemovalInv'
    BY <2>1, <2>2 DEF RemovalInv, Idle
  <2> QED
    BY <2>1, <2>2, <2>3, <2>4 DEF OverInv
<1> QED
  BY <1>1, <1>2, <1>3, <1>4, <1>5, <1>6, <1>7 DEF Faults, JobDies

\* What a look at the removals finds: with nothing lost but gossip, no removal that
\* is not known begins.
LEMMA LookFinds ==
  ASSUME OperationInv, NEW loss \in Losses
  PROVE  /\ RemovalState(loss).on \in Coordinators
         /\ RemovalState(loss).state = "resume" => RemovalState(loss).on # Outside
         /\ RemovalState(loss).state \in {"absent", "resume", "busy", "orphan", "start"}
         /\ RemovalState(loss).state = "start" /\ op = "removal" =>
              \/ Removers = {}
              \/ loss[1] = "gossip" /\ Removers \subseteq {Outside}
<1> DEFINE ours == {h \in Removing(loss) : TokensKnown(loss) /\ ring.removes[h] = "dead"}
<1>1. ours \subseteq Hosts /\ Outside \notin Hosts /\ Outside \in Coordinators /\ Hosts \subseteq Coordinators
  BY OperationsAssumption DEF Removing, Coordinators
<1>2. ASSUME Cardinality(ours) = 1 /\ ours = Removing(loss) /\ ~OthersLeaving(Self)
      PROVE  ours # {}
  BY <1>2, FS_EmptySet
<1> DEFINE one == Cardinality(ours) = 1 /\ ours = Removing(loss) /\ ~OthersLeaving(Self)
           chosen == CHOOSE h \in ours : TRUE
<1>3. one => chosen \in ours
  BY <1>2
<1>4. RemovalState(loss) =
         IF ring.dead = "out" THEN [state |-> "absent", on |-> Outside]
         ELSE IF one THEN [state |-> "resume", on |-> chosen]
         ELSE [state |-> IF Removing(loss) # {} THEN "busy"
                         ELSE IF ring.marked /\ loss # <<"gossip">> THEN "orphan"
                         ELSE "start", on |-> Outside]
  BY Zenon DEF RemovalState
<1>5. ASSUME Removing(loss) = {}, ring.dead = "in", op = "removal",
             ~(ring.marked /\ loss # <<"gossip">>)
      PROVE  \/ Removers = {}
             \/ loss[1] = "gossip" /\ Removers \subseteq {Outside}
  <2>1. CASE ~ring.marked
    BY <1>5, <2>1 DEF OperationInv, RemovalInv
  <2>2. CASE loss = <<"gossip">>
    <3>1. loss # <<"removals", Self>> /\ \A h : loss # <<"removals", h>>
      BY <2>2
    <3>2. \A h \in Hosts : ring.removes[h] = "none"
      BY <1>5, <3>1 DEF Removing
    <3>3. Removers \subseteq {Outside}
      BY <3>2 DEF Removers, Coordinators
    <3> QED
      BY <2>2, <3>3
  <2> QED
    BY <1>5, <2>1, <2>2
<1>6. ring.dead \in {"in", "out"}
  BY DEF OperationInv, TypeInv, RingType
<1> HIDE DEF ours, one, chosen
<1>7. chosen \in ours => chosen \in Coordinators /\ chosen # Outside
  BY <1>1
<1> QED
  BY <1>1, <1>3, <1>4, <1>5, <1>6, <1>7

\* The looks of a run, and its steps before and after a wait.
LEMMA LookStep ==
  ASSUME OperationInv, StartRun \/ LookLeave \/ LookRemoval
  PROVE  OperationInv'
<1> USE DEF OperationInv
<1>1. ASSUME StartRun
      PROVE  OperationInv'
  <2>1. PICK choice \in WaysToRemove, wrong \in BOOLEAN, max \in MaxTimes :
          run' = [NoRun EXCEPT !.pc = IF op = "join" THEN "wait" ELSE "look", !.count = run.count + 1,
                               !.method = choice[1], !.again = choice[2], !.wrong = wrong, !.max = max]
    BY <1>1 DEF StartRun
  <2>2. UNCHANGED <<op, node, sessions, ring>>
    BY <1>1 DEF StartRun, world
  <2>3. /\ choice[1] \in {"removenode", "removenode_force", "assassinate"} /\ choice[2] \in BOOLEAN
        /\ run.count + 1 \in Nat /\ Outside \in Coordinators
    <3>1. choice \in {<<"removenode", FALSE>>, <<"removenode", TRUE>>,
                      <<"removenode_force", FALSE>>, <<"assassinate", FALSE>>}
      BY DEF WaysToRemove
    <3>2. run.count \in Nat
      BY DEF TypeInv, RunType
    <3>3. ASSUME NEW method \in {"removenode", "removenode_force", "assassinate"},
                 NEW again \in BOOLEAN, choice = <<method, again>>
          PROVE  choice[1] = method /\ choice[2] = again
      BY <3>3
    <3>4. /\ choice[1] \in {"removenode", "removenode_force", "assassinate"}
          /\ choice[2] \in BOOLEAN
      BY <3>1, <3>3, Zenon
    <3> QED
      BY <3>2, <3>4 DEF Coordinators
  <2>4. run' \in RunType' /\ run'.job = "none" /\ run'.pc \in {"wait", "look"}
    <3>1. run' \in [pc : {"wait", "look"}, count : Nat,
                    method : {"removenode", "removenode_force", "assassinate"}, again : BOOLEAN,
                    on : Coordinators, follows : {FALSE}, job : {"none"}, said : {"none"},
                    lost : {"nothing"}, other : {"UN"}, wrong : BOOLEAN, max : {max}]
      BY <2>1, <2>3 DEF NoRun
    <3>2. Coordinators' = Coordinators
      BY DEF Coordinators, Hosts
    <3> QED
      BY <3>1, <3>2 DEF RunType
  <2>5. TypeInv'
    BY <2>2, <2>4 DEF TypeInv, RingType, Coordinators, Hosts
  <2> QED
    BY <2>2, <2>4, <2>5 DEF OverInv, RemovalInv, Removers, Coordinators, Hosts
<1>2. ASSUME LookLeave
      PROVE  OperationInv'
  <2>1. /\ UNCHANGED <<op, node, sessions, ring>> /\ op = "leave"
        /\ \E pc \in {"ended", "stopped", "look", "asked", "wait", "health"} : Goto(pc)
    BY <1>2 DEF LookLeave, world
  <2>2. run' \in RunType' /\ (run'.job = "none" \/ run'.job = run.job)
    BY <2>1, GotoType
  <2>3. TypeInv'
    BY <2>1, <2>2 DEF TypeInv, RingType, Coordinators, Hosts
  <2> QED
    BY <2>1, <2>2, <2>3 DEF OverInv, RemovalInv
<1>3. ASSUME LookRemoval
      PROVE  OperationInv'
  <2>1. UNCHANGED <<op, node, sessions, ring>> /\ op = "removal"
    BY <1>3 DEF LookRemoval, world
  <2> DEFINE removal(loss) == RemovalState(loss)
             on(loss) == IF run.method = "removenode_force"
                         THEN IF ForceTargets(removal(loss), loss) = {} THEN Outside
                              ELSE CHOOSE h \in ForceTargets(removal(loss), loss) : TRUE
                         ELSE removal(loss).on
             refused(loss) ==
               \/ run.method = "removenode" /\ removal(loss).state = "busy"
               \/ run.method = "removenode" /\ removal(loss).state = "orphan" /\ ~run.again
               \/ run.method = "removenode_force" /\ on(loss) = Outside
               \/ run.method = "assassinate" /\ removal(loss).state = "absent"
             to(loss) == IF removal(loss).state = "absent" /\ run.method # "assassinate"
                         THEN "health" ELSE "asked"
  <2>2. PICK loss \in Losses :
          run' = IF refused(loss) THEN Over("stopped")
                 ELSE [run EXCEPT !.pc = to(loss), !.on = on(loss), !.other = ring.other, !.lost = loss[1]]
    BY <1>3, Zenon DEF LookRemoval
  <2>3. CASE refused(loss)
    <3>1. run' \in RunType' /\ run'.job = "none" /\ run'.pc = "stopped"
      BY <2>2, <2>3, OverType
    <3>2. TypeInv'
      BY <2>1, <3>1 DEF TypeInv, RingType, Coordinators, Hosts
    <3> QED
      BY <2>1, <3>1, <3>2 DEF OverInv, RemovalInv, Removers, Coordinators, Hosts
  <2>4. CASE ~refused(loss)
    <3>1. /\ removal(loss).on \in Coordinators
          /\ removal(loss).state = "resume" => removal(loss).on # Outside
          /\ removal(loss).state \in {"absent", "resume", "busy", "orphan", "start"}
          /\ removal(loss).state = "start" =>
               \/ Removers = {}
               \/ loss[1] = "gossip" /\ Removers \subseteq {Outside}
      BY <2>1, LookFinds
    <3>2. on(loss) \in Coordinators
      <4>1. ForceTargets(removal(loss), loss) \subseteq Coordinators
        BY <3>1 DEF ForceTargets, Candidates, Coordinators
      <4>2. Outside \in Coordinators
        BY DEF Coordinators
      <4>3. ForceTargets(removal(loss), loss) # {} =>
              (CHOOSE h \in ForceTargets(removal(loss), loss) : TRUE) \in ForceTargets(removal(loss), loss)
        OBVIOUS
      <4> QED
        BY <3>1, <4>1, <4>2, <4>3, Zenon
    <3>3. to(loss) \in {"health", "asked"}
      BY Zenon
    <3>4. removal(loss).state = "absent" /\ run.method = "removenode" => to(loss) = "health"
      OBVIOUS
    <3>5. run.method = "removenode" => on(loss) = removal(loss).on
      OBVIOUS
    <3>6. run.method = "removenode" /\ ~run.again => removal(loss).state \notin {"busy", "orphan"}
      BY <2>4
    <3> HIDE DEF removal, on, to, refused
    <3>7. run' = [run EXCEPT !.pc = to(loss), !.on = on(loss), !.other = ring.other, !.lost = loss[1]]
      BY <2>2, <2>4
    <3>8. /\ run' \in RunType' /\ run'.job = run.job /\ run'.pc = to(loss) /\ run'.on = on(loss)
          /\ run'.lost = loss[1] /\ run'.method = run.method /\ run'.again = run.again
      BY <3>2, <3>3, <3>7 DEF TypeInv, RunType, Coordinators, Hosts
    <3>9. TypeInv'
      BY <2>1, <3>8 DEF TypeInv, RingType, Coordinators, Hosts
    <3>10. OverInv'
      BY <2>1, <3>8 DEF OverInv
    <3>11. Removers' = Removers
      BY <2>1 DEF Removers, Coordinators, Hosts
    <3>12. RemovalInv'
      BY <2>1, <3>1, <3>4, <3>5, <3>6, <3>8, <3>11 DEF RemovalInv
    <3> QED
      BY <3>9, <3>10, <3>12
  <2> QED
    BY <2>3, <2>4
<1> QED
  BY <1>1, <1>2, <1>3

\* What a run does to the operation.
LEMMA AskStep ==
  ASSUME OperationInv,
         \/ LaunchLeave \/ Decline \/ ResumeRemoval \/ LaunchRemoval
         \/ ForceRemoval \/ Assassinate \/ HealthAfter
  PROVE  OperationInv'
<1> USE DEF OperationInv
<1>1. ASSUME LaunchLeave
      PROVE  OperationInv'
  <2> DEFINE begins == node.up /\ node.mode = "NORMAL"
             job == CASE begins -> "running"
                      [] node.up /\ node.mode \in {"LEAVING", "DECOMMISSIONED"} -> "unchanged"
                      [] OTHER -> "failed"
  <2>1. /\ UNCHANGED <<op, ring>> /\ op = "leave"
        /\ run' = [run EXCEPT !.pc = "wait", !.follows = TRUE, !.job = job]
        /\ node' = IF begins THEN [node EXCEPT !.mode = "LEAVING"] ELSE node
        /\ sessions' = IF begins THEN Anew ELSE sessions
    BY <1>1 DEF LaunchLeave
  <2>2. job \in {"running", "unchanged", "failed"}
    BY Zenon
  <2> HIDE DEF job
  <2>3. run' \in RunType' /\ run'.job # "changed"
    BY <2>1, <2>2 DEF TypeInv, RunType, Coordinators, Hosts
  <2>4. node' \in NodeType
    BY <2>1 DEF TypeInv, NodeType
  <2>5. TypeInv'
    BY <2>1, <2>3, <2>4, AnewType DEF TypeInv, RingType, Coordinators, Hosts
  <2> QED
    BY <2>1, <2>3, <2>5 DEF OverInv, RemovalInv
<1>2. ASSUME Decline \/ ResumeRemoval \/ HealthAfter
      PROVE  OperationInv'
  <2>1. /\ UNCHANGED <<op, node, sessions, ring>>
        /\ \E pc \in {"ended", "stopped", "wait"} : Goto(pc)
    BY <1>2, Zenon DEF Decline, ResumeRemoval, HealthAfter, world
  <2>2. PICK pc \in {"ended", "stopped", "wait"} : Goto(pc)
    BY <2>1
  <2>3. run' \in RunType' /\ run'.pc = pc /\ (run'.job = "none" \/ run'.job = run.job)
    BY <2>2, GotoType
  <2>4. TypeInv'
    BY <2>1, <2>3 DEF TypeInv, RingType, Coordinators, Hosts
  <2>5. Removers' = Removers
    BY <2>1 DEF Removers, Coordinators, Hosts
  <2> QED
    BY <2>1, <2>3, <2>4, <2>5 DEF OverInv, RemovalInv
<1>3. ASSUME LaunchRemoval
      PROVE  OperationInv'
  <2> DEFINE begins == ring.dead = "in" /\ ring.removes[Self] = "none"
             job == IF begins THEN "running" ELSE IF ring.dead = "out" THEN "unchanged" ELSE "failed"
  <2>1. /\ UNCHANGED <<op, node>> /\ op = "removal"
        /\ run' = [run EXCEPT !.pc = "wait", !.follows = TRUE, !.job = job]
        /\ ring' = IF begins THEN [ring EXCEPT !.removes[Self] = "dead", !.marked = TRUE] ELSE ring
        /\ sessions' = IF begins THEN Anew ELSE sessions
    BY <1>3 DEF LaunchRemoval
  <2>2. job \in {"running", "unchanged", "failed"} /\ (job = "unchanged" => ring.dead = "out")
    OBVIOUS
  <2> HIDE DEF job
  <2>3. run' \in RunType' /\ run'.job = job /\ run'.pc = "wait"
    BY <2>1, <2>2 DEF TypeInv, RunType, Coordinators, Hosts
  <2>4. /\ ring' \in RingType /\ ring'.dead = ring.dead
        /\ begins \/ ring' = ring
        /\ begins => ring'.marked = TRUE
    BY <2>1 DEF TypeInv, RingType
  <2>5. TypeInv'
    BY <2>1, <2>3, <2>4, AnewType DEF TypeInv, RingType, Coordinators, Hosts
  <2>6. ~begins => Removers' = Removers
    BY <2>4 DEF Removers, Coordinators, Hosts
  <2>7. RemovalInv'
    BY <2>1, <2>3, <2>4, <2>6 DEF RemovalInv
  <2>8. OverInv'
    BY <2>1, <2>2, <2>3, <2>4 DEF OverInv
  <2> QED
    BY <2>5, <2>7, <2>8
<1>4. ASSUME ForceRemoval
      PROVE  OperationInv'
  <2>1. /\ UNCHANGED <<op, node, sessions>> /\ op = "removal" /\ run.on \in Coordinators
        /\ ring' = [ring EXCEPT !.dead = IF ring.removes[run.on] = "dead" THEN "out" ELSE @,
                            !.marked = @ /\ ring.removes[run.on] # "dead",
                            !.removes[run.on] = "none",
                            !.other = IF @ = "UL" THEN "gone" ELSE @]
        /\ \E pc \in {"health", "stopped"} : Goto(pc)
    BY <1>4 DEF ForceRemoval, TypeInv, RunType
  <2>2. PICK pc \in {"health", "stopped"} : Goto(pc)
    BY <2>1
  <2>3. run' \in RunType' /\ run'.pc = pc /\ (run'.job = "none" \/ run'.job = run.job)
    BY <2>2, GotoType
  <2>4. /\ ring' \in RingType
        /\ ring'.dead = ring.dead \/ ring'.dead = "out"
        /\ ring'.dead = "in" => ring'.marked = ring.marked
        /\ Removers' \subseteq Removers
    <3>1. ring.marked \in BOOLEAN
      BY DEF TypeInv, RingType
    <3>2. (ring.marked /\ ring.removes[run.on] # "dead") \in BOOLEAN
      OBVIOUS
    <3>3. ring'.removes = [ring.removes EXCEPT ![run.on] = "none"]
      BY <2>1 DEF TypeInv, RingType
    <3>4. Removers' \subseteq Removers
      BY <2>1, <3>3 DEF TypeInv, RingType, Removers, Coordinators, Hosts
    <3>5. /\ ring' \in RingType
          /\ ring'.dead = IF ring.removes[run.on] = "dead" THEN "out" ELSE ring.dead
      BY <2>1, <3>2 DEF TypeInv, RingType
    <3>6. ring.removes[run.on] # "dead" => ring'.marked = ring.marked
      <4>1. ring'.marked = (ring.marked /\ ring.removes[run.on] # "dead")
        BY <2>1 DEF TypeInv, RingType
      <4> QED
        BY <3>1, <4>1
    <3> QED
      BY <3>4, <3>5, <3>6
  <2>5. TypeInv'
    BY <2>1, <2>3, <2>4 DEF TypeInv, RingType, Coordinators, Hosts
  <2>6. RemovalInv'
    BY <2>1, <2>3, <2>4 DEF RemovalInv, TypeInv
  <2> QED
    BY <2>1, <2>3, <2>4, <2>5, <2>6 DEF OverInv
<1>5. ASSUME Assassinate
      PROVE  OperationInv'
  <2>1. /\ UNCHANGED <<op, node, sessions>> /\ op = "removal" /\ Goto("health")
        /\ ring' = [ring EXCEPT !.dead = "out", !.marked = FALSE]
    BY <1>5 DEF Assassinate
  <2>2. run' \in RunType'
    BY <2>1, GotoType
  <2>3. ring' \in RingType /\ ring'.dead = "out"
    BY <2>1 DEF TypeInv, RingType
  <2>4. TypeInv'
    BY <2>1, <2>2, <2>3 DEF TypeInv, RingType, Coordinators, Hosts
  <2> QED
    BY <2>1, <2>3, <2>4 DEF OverInv, RemovalInv
<1> QED
  BY <1>1, <1>2, <1>3, <1>4, <1>5

\* The wait goes on, or the run is over but for the check of the cluster.
LEMMA WaitStep ==
  ASSUME OperationInv, Wait \/ Interrupt
  PROVE  OperationInv'
<1> USE DEF OperationInv
<1>1. ASSUME Interrupt
      PROVE  OperationInv'
  <2>1. UNCHANGED <<op, node, sessions, ring>> /\ run' = Over("stopped")
    BY <1>1 DEF Interrupt, world
  <2>2. run' \in RunType' /\ run'.job = "none" /\ run'.pc = "stopped"
    BY <2>1, OverType
  <2>3. TypeInv'
    BY <2>1, <2>2 DEF TypeInv, RingType, Coordinators, Hosts
  <2> QED
    BY <2>1, <2>2, <2>3 DEF OverInv, RemovalInv, Removers, Coordinators, Hosts
<1>2. ASSUME Wait
      PROVE  OperationInv'
  <2>1. PICK answers, after, said : CheckSays(after, said, answers)
    BY <1>2, Zenon DEF Wait, Check
  <2>2. UNCHANGED <<op, sessions, ring>> /\ run.pc = "wait"
    BY <1>2 DEF Wait
  <2>3. /\ node' \in NodeType /\ node'.mode = node.mode /\ node'.seen = node.seen
    BY <2>1 DEF CheckSays, TypeInv, NodeType
  <2>4. /\ run' \in RunType'
        /\ run' = run \/ (run'.job = "none" /\ run'.pc # "asked")
    <3>1. CASE said = "going"
      BY <2>1, <3>1 DEF CheckSays, TypeInv, RunType, Coordinators, Hosts
    <3>2. CASE said # "going"
      <4>1. run' = [Over(AfterWait(said)) EXCEPT !.method = run.method, !.said = said]
        BY <2>1, <3>2 DEF CheckSays
      <4>2. AfterWait(said) \in {"ended", "stopped", "health"}
        BY DEF AfterWait
      <4>3. Over(AfterWait(said)) \in
               [pc : {AfterWait(said)}, count : Nat, method : {"removenode"}, again : {FALSE},
                on : {Outside}, follows : {FALSE}, job : {"none"}, said : {"none"},
                lost : {"nothing"}, other : {"UN"}, wrong : {FALSE}, max : {0}]
        BY <4>2, OverType
      <4>4. run' \in
               [pc : {AfterWait(said)}, count : Nat, method : {run.method}, again : {FALSE},
                on : {Outside}, follows : {FALSE}, job : {"none"}, said : {said},
                lost : {"nothing"}, other : {"UN"}, wrong : {FALSE}, max : {0}]
        BY <4>1, <4>3
      <4>5. run.method \in {"removenode", "removenode_force", "assassinate"}
        BY DEF TypeInv, RunType
      <4> QED
        BY <4>2, <4>4, <4>5 DEF RunType, Coordinators, Hosts
    <3> QED
      BY <3>1, <3>2
  <2>5. TypeInv'
    BY <2>2, <2>3, <2>4 DEF TypeInv, RingType, Coordinators, Hosts
  <2>6. Removers' = Removers
    BY <2>2 DEF Removers, Coordinators, Hosts
  <2> QED
    BY <2>2, <2>3, <2>4, <2>5, <2>6 DEF OverInv, RemovalInv
<1> QED
  BY <1>1, <1>2

\* It holds first, and every step keeps it.
LEMMA OperationFirst ==
  ASSUME Init
  PROVE  OperationInv
<1>1. PICK h \in Coordinators, what \in {"none", "dead", "other"}, other \in {"UN", "UL"} :
          ring = [dead |-> IF op = "removal" THEN "in" ELSE "out", marked |-> what = "dead", other |-> other,
                  removes |-> [c \in Coordinators |-> IF c = h THEN what ELSE "none"]]
  BY DEF Init
<1>2. ring \in RingType /\ (ring.marked <=> what = "dead") /\ (Removers # {} => what = "dead")
  BY <1>1 DEF RingType, Removers
<1>3. /\ op \in {"join", "leave", "removal"} /\ node \in NodeType /\ node.seen = "none"
      /\ sessions \in [Plans -> SessionType]
  BY OperationsAssumption DEF Init, NodeType, SessionType
<1>4. run \in RunType /\ run.job = "none" /\ run.pc = "idle"
  BY DEF Init, RunType, NoRun, Coordinators
<1> QED
  BY <1>2, <1>3, <1>4 DEF OperationInv, TypeInv, OverInv, RemovalInv

LEMMA OperationStep ==
  ASSUME OperationInv, [Next]_vars
  PROVE  OperationInv'
<1>1. ASSUME UNCHANGED vars
      PROVE  OperationInv'
  <2>1. UNCHANGED <<op, node, sessions, ring, run>>
    BY <1>1 DEF vars
  <2> QED
    BY <2>1 DEF OperationInv, TypeInv, RunType, RingType, OverInv, RemovalInv, Removers,
                Coordinators, Hosts
<1> QED
  BY <1>1, CassandraStep, FaultStep, LookStep, AskStep, WaitStep DEF Next, Run

LEMMA OperationSafe == Spec => []OperationInv
  BY OperationFirst, OperationStep, PTL DEF Spec

-----------------------------------------------------------------------------
(* What the wait says, and what is true when it says it.                   *)

\* Only a check ends a wait with a word.
LEMMA EndsByWait ==
  ASSUME OperationInv, [Next]_vars, NEW said, said # "none", Ends(said)
  PROVE  /\ Wait /\ said # "going"
         /\ \E own \in OwnAnswers, silent \in SUBSET Peers : \E answers, after :
              /\ answers = AnswersOf(own, silent)
              /\ after = Progress(w, Heard(answers), Listed(Heard(answers)))
              /\ said = Status(op, after, Reading(answers), run.max)
              /\ CheckSays(after, said, answers)
<1> USE DEF OperationInv
<1>1. run.pc = "wait" /\ run'.pc # "wait" /\ run'.said = said
  BY DEF Ends
<1>2. ASSUME NEW how \in {"changed", "failed", "lost"}, run' = JobEnds(how)
      PROVE  FALSE
  BY <1>1, <1>2, JobEndsType
<1>3. ~Cassandra
  BY <1>1, <1>2 DEF Cassandra, SessionMoves, OperationOver, JvmStarts, GossipSees, OtherRemoved
<1>4. ~Faults
  BY <1>1, <1>2 DEF Faults, OperationFails, JvmStops, JobDies, OtherLeaves, DecommissionByHand,
                    CoordinatorRestarts, RemovalByHand
<1>5. ~Interrupt
  BY <1>1, OverType DEF Interrupt
<1>6. ~StartRun
  BY <1>1 DEF StartRun, Idle
<1>7. ~(UNCHANGED vars)
  BY <1>1 DEF vars
<1>8. Wait
  BY <1>1, <1>3, <1>4, <1>5, <1>6, <1>7
     DEF Next, Run, LookLeave, LaunchLeave, LookRemoval, Decline, ResumeRemoval, LaunchRemoval,
         ForceRemoval, Assassinate, HealthAfter
<1>9. PICK own \in OwnAnswers, silent \in SUBSET Peers : Check(AnswersOf(own, silent))
  BY <1>8 DEF Wait
<1> DEFINE answers == AnswersOf(own, silent)
           after == Progress(w, Heard(answers), Listed(Heard(answers)))
           word == Status(op, after, Reading(answers), run.max)
<1>10. CheckSays(after, word, answers)
  BY <1>9, Zenon DEF Check
<1> HIDE DEF answers, after, word
<1>11. word # "going"
  BY <1>1, <1>10 DEF CheckSays
<1>12. word = said
  <2>1. run' = [Over(AfterWait(word)) EXCEPT !.method = run.method, !.said = word]
    BY <1>10, <1>11 DEF CheckSays
  <2>2. AfterWait(word) \in {"ended", "stopped", "health"}
    BY DEF AfterWait
  <2>3. Over(AfterWait(word)) \in
           [pc : {AfterWait(word)}, count : Nat, method : {"removenode"}, again : {FALSE},
            on : {Outside}, follows : {FALSE}, job : {"none"}, said : {"none"},
            lost : {"nothing"}, other : {"UN"}, wrong : {FALSE}, max : {0}]
    BY <2>2, OverType
  <2> QED
    BY <1>1, <2>1, <2>3
<1> QED
  BY <1>8, <1>9, <1>10, <1>11, <1>12, Zenon DEF answers, after, word

\* The wait says done only when the operation is over: the node has joined, has
\* left, the dead node is out of the ring, or the host whose removal it took over
\* removes nothing any more.
THEOREM DoneMeansOver == Spec => DoneIsOver
<1> DEFINE Over1 == IF op = "removal"
                    THEN \/ ring.dead = "out"
                         \/ run.on # Outside /\ ring.removes[run.on] = "none"
                    ELSE node.mode = OverMode[op]
<1>1. ASSUME OperationInv, [Next]_vars, Ends("done")
      PROVE  Over1
  <2>1. PICK own, silent, answers, after :
              /\ answers = AnswersOf(own, silent)
              /\ "done" = Status(op, after, Reading(answers), run.max)
    BY <1>1, EndsByWait
  <2> DEFINE r == Reading(answers)
  <2>2. Done(op, r)
    BY <2>1, WordsMean
  <2>3. op \in {"join", "leave", "removal"}
    BY <1>1 DEF OperationInv, TypeInv
  <2>4. r.own.mode \in {node.mode, "none"}
    BY DEF Reading, Own
  <2>5. r.job \in {run.job, "none"}
    BY DEF Reading
  <2>6. r.seen = "UN" => op = "join" /\ node.seen = "UN"
    BY DEF Reading
  <2>7. r.removal = "no removal" =>
           op = "removal" /\ run.on # Outside /\ ring.removes[run.on] = "none"
    BY DEF Reading
  <2> HIDE DEF r
  <2>8. CASE op = "join"
    BY <1>1, <2>2, <2>4, <2>5, <2>6, <2>7, <2>8 DEF Done, JobOver, OperationInv, OverInv, OverMode
  <2>9. CASE op = "leave"
    BY <1>1, <2>2, <2>4, <2>5, <2>6, <2>7, <2>9 DEF Done, JobOver, OperationInv, OverInv, OverMode
  <2>10. CASE op = "removal"
    BY <1>1, <2>2, <2>4, <2>5, <2>6, <2>7, <2>10 DEF Done, JobOver, OperationInv, OverInv
  <2> QED
    BY <2>3, <2>8, <2>9, <2>10
<1>2. OperationInv /\ [Next]_vars => [Ends("done") => Over1]_vars
  BY <1>1
<1> QED
  BY <1>2, OperationSafe, PTL DEF Spec, DoneIsOver

\* However many answers are lost and removals are begun by hand, a run begins no
\* second removal of the dead node next to one that goes on, but the two that
\* the playbook knows it may.
THEOREM RemovalIsAlone == Spec => OneRemoval
<1> DEFINE Begins == run.pc = "asked" /\ ring'.removes[Self] = "dead" /\ ring.removes[Self] # "dead" /\ ~run.again
           Alone == \/ Removers = {}
                    \/ run.lost = "gossip" /\ Removers = {Outside}
<1>1. ASSUME OperationInv, [Next]_vars, Begins
      PROVE  Alone
  <2> USE DEF OperationInv
  <2>1. /\ Self \in Coordinators /\ ring' # ring /\ ~Idle /\ run.pc = "asked"
        /\ ring'.removes[Self] = "dead" /\ ring.removes[Self] # "dead"
        /\ ring.removes \in [Coordinators -> {"none", "dead", "other"}]
    BY <1>1 DEF Idle, Coordinators, Hosts, TypeInv, RingType
  <2>2. ~OperationOver
    <3>1. ASSUME OperationOver, op = "removal"
          PROVE  FALSE
      <4>1. ring'.removes =
              [h \in Coordinators |-> IF ring.removes[h] = "dead" THEN "none" ELSE ring.removes[h]]
        BY <3>1 DEF OperationOver, TypeInv, RingType
      <4> QED
        BY <2>1, <4>1
    <3> QED
      BY <2>1, <3>1 DEF OperationOver
  <2>3. ~Cassandra
    <3>1. ASSUME NEW h \in Coordinators, OtherRemoved(h)
          PROVE  FALSE
      BY <2>1, <3>1 DEF OtherRemoved, TypeInv, RingType
    <3> QED
      BY <2>1, <2>2, <3>1 DEF Cassandra, SessionMoves, JvmStarts, GossipSees
  <2>4. ~Faults
    <3>1. ASSUME NEW h \in Coordinators, CoordinatorRestarts(h)
          PROVE  FALSE
      BY <2>1, <3>1 DEF CoordinatorRestarts, TypeInv, RingType
    <3>2. ~OtherLeaves
      <4>1. ASSUME NEW other, ring' = [ring EXCEPT !.other = other]
            PROVE  ring'.removes = ring.removes
        BY <4>1 DEF TypeInv, RingType
      <4> QED
        BY <2>1, <4>1 DEF OtherLeaves
    <3> QED
      BY <2>1, <3>1, <3>2 DEF Faults, OperationFails, JvmStops, JobDies, DecommissionByHand,
                              RemovalByHand, world
  <2>5. ~StartRun /\ ~Interrupt /\ ~(UNCHANGED vars)
    BY <2>1 DEF StartRun, Interrupt, vars, world
  <2>6. ~ForceRemoval /\ ~Assassinate
    <3>1. ASSUME ForceRemoval
          PROVE  FALSE
      <4>1. ring'.removes = [ring.removes EXCEPT ![run.on] = "none"]
        BY <3>1 DEF ForceRemoval, TypeInv, RingType
      <4> QED
        BY <2>1, <4>1
    <3>2. ASSUME Assassinate
          PROVE  FALSE
      <4>1. ring'.removes = ring.removes
        BY <3>2 DEF Assassinate, TypeInv, RingType
      <4> QED
        BY <2>1, <4>1
    <3> QED
      BY <3>1, <3>2
  <2>7. LaunchRemoval
    BY <1>1, <2>1, <2>3, <2>4, <2>5, <2>6
       DEF Next, Run, LookLeave, LaunchLeave, LookRemoval, Decline, ResumeRemoval, HealthAfter, Wait, world
  <2>8. /\ op = "removal" /\ run.method = "removenode" /\ run.on = Outside /\ ring.dead = "in"
    BY <2>1, <2>7 DEF LaunchRemoval
  <2> QED
    BY <1>1, <2>8 DEF RemovalInv
<1>2. OperationInv /\ [Next]_vars => [Begins => Alone]_vars
  BY <1>1
<1> QED
  BY <1>2, OperationSafe, PTL DEF Spec, OneRemoval

-----------------------------------------------------------------------------
(* The stall time.                                                         *)

\* The lesser of two numbers.
LEMMA LesserOfTwo ==
  ASSUME NEW a \in Nat, NEW b \in Nat
  PROVE  Min({a, b}) = IF a =< b THEN a ELSE b
<1> DEFINE least == IF a =< b THEN a ELSE b
<1>1. least \in {a, b} /\ \A y \in {a, b} : least =< y
  OBVIOUS
<1>2. \A x \in {a, b} : (\A y \in {a, b} : x =< y) => x = least
  OBVIOUS
<1>3. Min({a, b}) = CHOOSE x \in {a, b} : \A y \in {a, b} : x =< y
  BY DEF Min
<1> QED
  BY <1>1, <1>2, <1>3

\* The longest a wait counts.
LongStall == StallTime * QuietFactor

LEMMA StallTimes == StallTime \in Nat \ {0} /\ LongStall \in Nat \ {0} /\ StallTime =< LongStall
<1>1. StallTime \in Nat \ {0} /\ QuietFactor \in Nat \ {0}
  BY StreamAssumption
<1>2. ASSUME NEW s \in Nat \ {0}, NEW f \in Nat \ {0}
      PROVE  s * f \in Nat \ {0} /\ s =< s * f
  BY <1>2
<1> QED
  BY <1>1, <1>2 DEF LongStall

\* The wait remembers a session as it stood when its host last showed it; one that
\* began again has another plan.
StreamType == [host : Hosts, plan : Plans \X Nat, done : {0, 1}, total : {1}, gone : BOOLEAN]

AsRemembered(t) == [host |-> t.host, plan |-> t.plan, done |-> t.done, total |-> t.total]

Stands(t) ==
  LET p == t.plan[1]
  IN /\ t.host = Self \/ t.host = At[p]
     /\ t.plan[2] =< sessions[p].round
     /\ t.plan[2] = sessions[p].round =>
          /\ sessions[p].at \in {"going", "sent", "over"}
          /\ t.done = 1 => sessions[p].at \in {"sent", "over"}
          /\ t.gone = TRUE => sessions[p].at = "over"

\* What the wait remembers is what the hosts showed; it counts no more quiet
\* checks than there were.
StallInv ==
  op # "removal" =>
    /\ w.streams \subseteq StreamType /\ w.idle \in Nat /\ w.checks \in Nat /\ quiet \in Nat
    /\ \A t \in w.streams : Stands(t)
    /\ \A t, s \in w.streams : Same(t, s) => t = s
    /\ shown = {AsRemembered(t) : t \in {s \in w.streams : ~s.gone}}
    /\ w.idle =< quiet

\* Every step of the world leaves the sessions remembered where they stood, or further.
LEMMA StallKept ==
  ASSUME TypeInv, StallInv, op' = op, UNCHANGED waiting,
         \/ UNCHANGED sessions
         \/ sessions' = Anew
         \/ sessions' = [p \in Plans |-> [sessions[p] EXCEPT !.at = "over"]]
         \/ \E p \in Plans :
              /\ sessions[p].at # "over"
              /\ sessions' = [sessions EXCEPT ![p].at =
                               CASE @ = "later" -> "going" [] @ = "going" -> "sent" [] @ = "sent" -> "over"]
  PROVE  StallInv'
<1> SUFFICES ASSUME op # "removal"
             PROVE  StallInv'
  BY DEF StallInv
<1>1. UNCHANGED <<w, shown, quiet>>
  BY DEF waiting
<1>2. StreamType' = StreamType
  BY DEF StreamType, Hosts, Plans
<1>3. ASSUME NEW t \in w.streams
      PROVE  Stands(t)'
  <2>1. Stands(t) /\ t \in StreamType
    BY <1>3 DEF StallInv
  <2> DEFINE p == t.plan[1]
  <2>2. p \in Plans /\ t.plan[2] \in Nat /\ t.done \in {0, 1}
    BY <2>1 DEF StreamType
  <2>3. sessions[p] \in SessionType
    BY <2>2 DEF TypeInv
  <2>4. /\ t.host = Self \/ t.host = At[p]
        /\ t.plan[2] =< sessions[p].round
        /\ t.plan[2] = sessions[p].round =>
             /\ sessions[p].at \in {"going", "sent", "over"}
             /\ t.done = 1 => sessions[p].at \in {"sent", "over"}
             /\ t.gone = TRUE => sessions[p].at = "over"
    BY <2>1, Zenon DEF Stands
  <2> DEFINE q == sessions'[p]
             later == /\ t.host = Self \/ t.host = At[p]
                      /\ t.plan[2] =< q.round
                      /\ t.plan[2] = q.round =>
                           /\ q.at \in {"going", "sent", "over"}
                           /\ t.done = 1 => q.at \in {"sent", "over"}
                           /\ t.gone = TRUE => q.at = "over"
  <2> HIDE DEF p, q
  <2>5. ASSUME UNCHANGED sessions
      PROVE  later
    BY <2>4, <2>5 DEF q
  <2>6. ASSUME sessions' = Anew
      PROVE  later
    <3>1. q.round = sessions[p].round + 1
      BY <2>2, <2>6, AnewType DEF q
    <3> QED
      BY <2>2, <2>3, <2>4, <3>1 DEF SessionType
  <2>7. ASSUME sessions' = [x \in Plans |-> [sessions[x] EXCEPT !.at = "over"]]
      PROVE  later
    <3>1. q.round = sessions[p].round /\ q.at = "over"
      BY <2>2, <2>3, <2>7 DEF SessionType, q
    <3> QED
      BY <2>4, <3>1
  <2>8. ASSUME \E x \in Plans :
              /\ sessions[x].at # "over"
              /\ sessions' = [sessions EXCEPT ![x].at =
                               CASE @ = "later" -> "going" [] @ = "going" -> "sent" [] @ = "sent" -> "over"]
        PROVE  later
    <3>1. PICK x \in Plans :
              /\ sessions[x].at # "over"
              /\ sessions' = [sessions EXCEPT ![x].at =
                               CASE @ = "later" -> "going" [] @ = "going" -> "sent" [] @ = "sent" -> "over"]
      BY <2>8
    <3>2. q.round = sessions[p].round
      BY <2>2, <2>3, <3>1 DEF TypeInv, SessionType, q
    <3>3. \/ q.at = sessions[p].at
          \/ sessions[p].at = "later" /\ q.at = "going"
          \/ sessions[p].at = "going" /\ q.at = "sent"
          \/ sessions[p].at = "sent" /\ q.at = "over"
      BY <2>2, <2>3, <3>1 DEF TypeInv, SessionType, q
    <3> QED
      BY <2>4, <3>2, <3>3
  <2>9. later
    BY <2>5, <2>6, <2>7, <2>8
  <2> QED
    BY <2>9, Zenon DEF Stands, p, q
<1> QED
  BY <1>1, <1>2, <1>3 DEF StallInv, Same, AsRemembered

\* What netstats lists on some hosts of a join or a leave.
LEMMA ListedIs ==
  ASSUME TypeInv, op # "removal", NEW hosts \in SUBSET Hosts
  PROVE  /\ \A s \in Listed(hosts) :
              /\ s \in [host : hosts, plan : Plans \X Nat, done : {0, 1}, total : {1}]
              /\ s.plan[2] = sessions[s.plan[1]].round
              /\ sessions[s.plan[1]].at \in {"going", "sent"}
              /\ s.done = IF sessions[s.plan[1]].at = "sent" THEN 1 ELSE 0
              /\ s.host = Self \/ s.host = At[s.plan[1]]
         /\ \A h \in hosts, p \in Plans :
              /\ sessions[p].at \in {"going", "sent"}
              /\ h = Self \/ h = At[p]
              => \E s \in Listed(hosts) : s.host = h /\ s.plan = <<p, sessions[p].round>>
<1> DEFINE where == {y \in hosts \X Plans : /\ sessions[y[2]].at \in {"going", "sent"}
                                            /\ At[y[2]] = y[1] \/ (y[1] = Self /\ op # "removal")}
           item(h, p) == [host |-> h, plan |-> <<p, sessions[p].round>>,
                          done |-> IF sessions[p].at = "sent" THEN 1 ELSE 0, total |-> 1]
<1>1. Listed(hosts) = {item(x[1], x[2]) : x \in where}
  BY Zenon DEF Listed
<1>2. ASSUME NEW h \in hosts, NEW p \in Plans
      PROVE  /\ item(h, p) \in [host : hosts, plan : Plans \X Nat, done : {0, 1}, total : {1}]
             /\ item(h, p).host = h /\ item(h, p).plan = <<p, sessions[p].round>>
             /\ item(h, p).plan[1] = p /\ item(h, p).plan[2] = sessions[p].round
             /\ item(h, p).done = IF sessions[p].at = "sent" THEN 1 ELSE 0
  BY <1>2 DEF TypeInv, SessionType
<1>3. ASSUME NEW s \in Listed(hosts)
      PROVE  /\ s \in [host : hosts, plan : Plans \X Nat, done : {0, 1}, total : {1}]
             /\ s.plan[2] = sessions[s.plan[1]].round
             /\ sessions[s.plan[1]].at \in {"going", "sent"}
             /\ s.done = IF sessions[s.plan[1]].at = "sent" THEN 1 ELSE 0
             /\ s.host = Self \/ s.host = At[s.plan[1]]
  <2>1. PICK x \in where : s = item(x[1], x[2])
    BY <1>1, <1>3
  <2>2. /\ x[1] \in hosts /\ x[2] \in Plans /\ sessions[x[2]].at \in {"going", "sent"}
        /\ At[x[2]] = x[1] \/ x[1] = Self
    BY <2>1
  <2> HIDE DEF item, where
  <2> QED
    BY <1>2, <2>1, <2>2
<1>4. ASSUME NEW h \in hosts, NEW p \in Plans, sessions[p].at \in {"going", "sent"},
             h = Self \/ h = At[p]
      PROVE  \E s \in Listed(hosts) : s.host = h /\ s.plan = <<p, sessions[p].round>>
  <2>1. <<h, p>> \in where /\ <<h, p>>[1] = h /\ <<h, p>>[2] = p
    BY <1>4
  <2> HIDE DEF item, where
  <2>2. item(h, p) \in Listed(hosts)
    BY <1>1, <2>1
  <2> QED
    BY <1>2, <2>2
<1> QED
  BY <1>3, <1>4

\* A check where nothing moves: the hosts show what they showed.
LEMMA QuietIsShown ==
  ASSUME TypeInv, StallInv, op # "removal", NEW heard \in SUBSET Hosts,
         ~Progressed(w, heard, Listed(heard))
  PROVE  {s \in shown : s.host \notin heard} \cup Listed(heard) = shown
<1> DEFINE listed == Listed(heard)
<1>1. \A s \in listed : \E t \in w.streams : Same(t, s) /\ ~(s.done > t.done \/ s.total # t.total)
  BY DEF Progressed, Moved
<1>2. \A t \in w.streams : ~t.gone /\ t.host \in heard => \E s \in listed : Same(t, s)
  BY DEF Progressed, Ended, NotListed
<1>3. ASSUME NEW s \in listed
      PROVE  \E t \in w.streams : /\ Same(t, s) /\ ~t.gone
                                  /\ t \in StreamType /\ t.done = s.done
  <2>1. /\ s \in [host : heard, plan : Plans \X Nat, done : {0, 1}, total : {1}]
        /\ s.plan[2] = sessions[s.plan[1]].round
        /\ sessions[s.plan[1]].at \in {"going", "sent"}
        /\ s.done = IF sessions[s.plan[1]].at = "sent" THEN 1 ELSE 0
    BY <1>3, ListedIs
  <2>2. PICK t \in w.streams : Same(t, s) /\ ~(s.done > t.done \/ s.total # t.total)
    BY <1>1, <1>3
  <2>3. t \in StreamType /\ Stands(t)
    BY <2>2 DEF StallInv
  <2>4. t.plan = s.plan /\ t.host = s.host
    BY <2>2 DEF Same
  <2>5. /\ t.done = 1 => sessions[s.plan[1]].at \in {"sent", "over"}
        /\ t.gone = TRUE => sessions[s.plan[1]].at = "over"
    BY <2>1, <2>3, <2>4, Zenon DEF Stands
  <2>6. t.gone \in BOOLEAN /\ t.done \in {0, 1} /\ s.done \in {0, 1}
    BY <2>1, <2>3 DEF StreamType
  <2>7. t.gone # TRUE
    BY <2>1, <2>5
  <2>8. t.done = s.done
    BY <2>1, <2>2, <2>5, <2>6
  <2>9. ~t.gone
    BY <2>6, <2>7, Zenon
  <2> QED
    BY <2>2, <2>3, <2>8, <2>9
<1>4. ASSUME NEW s \in listed
      PROVE  s \in shown
  <2>1. PICK t \in w.streams : /\ Same(t, s) /\ ~t.gone
                               /\ t \in StreamType /\ t.done = s.done
    BY <1>3, <1>4
  <2>2. s \in [host : heard, plan : Plans \X Nat, done : {0, 1}, total : {1}]
    BY <1>4, ListedIs
  <2>3. s = AsRemembered(t)
    <3>1. AsRemembered(t) \in [host : {s.host}, plan : {s.plan}, done : {s.done}, total : {1}]
      BY <2>1 DEF AsRemembered, Same, StreamType
    <3>2. s \in [host : {s.host}, plan : {s.plan}, done : {s.done}, total : {1}]
      BY <2>2
    <3> HIDE DEF listed
    <3> QED
      BY <3>1, <3>2
  <2> QED
    BY <2>1, <2>3 DEF StallInv
<1>5. ASSUME NEW s \in shown, s.host \in heard
      PROVE  s \in listed
  <2>1. PICK t \in w.streams : ~t.gone /\ s = AsRemembered(t)
    BY <1>5 DEF StallInv
  <2>2. t \in StreamType /\ t.host = s.host
    BY <2>1 DEF StallInv, AsRemembered
  <2>3. PICK l \in listed : Same(t, l)
    BY <1>2, <1>5, <2>1, <2>2
  <2>4. PICK u \in w.streams : Same(u, l) /\ u.done = l.done
    BY <1>3, <2>3
  <2>5. u = t
    BY <2>3, <2>4 DEF StallInv, Same
  <2>6. l \in [host : heard, plan : Plans \X Nat, done : {0, 1}, total : {1}]
    BY <2>3, ListedIs
  <2>7. s \in [host : {l.host}, plan : {l.plan}, done : {l.done}, total : {1}]
    BY <2>1, <2>2, <2>3, <2>4, <2>5 DEF AsRemembered, Same, StreamType
  <2>8. l \in [host : {l.host}, plan : {l.plan}, done : {l.done}, total : {1}]
    BY <2>6
  <2>9. s = l
    <3> HIDE DEF listed
    <3> QED
      BY <2>7, <2>8
  <2> QED
    BY <2>3, <2>9
<1> HIDE DEF listed
<1>6. {s \in shown : s.host \notin heard} \cup listed = shown
  BY <1>4, <1>5
<1> QED
  BY <1>6 DEF listed

\* A record is known by its fields.
LEMMA OneStream ==
  ASSUME NEW h, NEW p, NEW d, NEW n, NEW g, NEW t, NEW s,
         t \in [host : {h}, plan : {p}, done : {d}, total : {n}, gone : {g}],
         s \in [host : {h}, plan : {p}, done : {d}, total : {n}, gone : {g}]
  PROVE  t = s
<1>1. /\ t = [host |-> h, plan |-> p, done |-> d, total |-> n, gone |-> g]
      /\ s = [host |-> h, plan |-> p, done |-> d, total |-> n, gone |-> g]
  OBVIOUS
<1> QED
  BY <1>1

LEMMA OneListed ==
  ASSUME NEW h, NEW p, NEW d, NEW n, NEW t, NEW s,
         t \in [host : {h}, plan : {p}, done : {d}, total : {n}],
         s \in [host : {h}, plan : {p}, done : {d}, total : {n}]
  PROVE  t = s
<1>1. /\ t = [host |-> h, plan |-> p, done |-> d, total |-> n]
      /\ s = [host |-> h, plan |-> p, done |-> d, total |-> n]
  OBVIOUS
<1> QED
  BY <1>1

LEMMA OnePlan ==
  ASSUME NEW x \in Plans \X Nat
  PROVE  x = <<x[1], x[2]>> /\ x[1] \in Plans
OBVIOUS

\* What is shown after a check, and the quiet checks in a row.
ShownAfter(heard) == {s \in shown : s.host \notin heard} \cup Listed(heard)
QuietAfter(heard) ==
  IF w.checks = 0 \/ ShownAfter(heard) # shown THEN 0 ELSE Min({quiet + 1, LongStall})

\* A check the wait counts as idle is quiet.
LEMMA IdleIsQuiet ==
  ASSUME TypeInv, StallInv, op # "removal", NEW heard \in SUBSET Hosts
  PROVE  LET idle == Progress(w, heard, Listed(heard)).idle
         IN idle \in Nat /\ QuietAfter(heard) \in Nat /\ idle =< QuietAfter(heard)
<1> DEFINE idle == Progress(w, heard, Listed(heard)).idle
<1>1. w.idle \in Nat /\ quiet \in Nat /\ w.idle =< quiet /\ LongStall \in Nat
  BY StallTimes DEF StallInv
<1>2. idle = IF w.checks = 0 \/ Progressed(w, heard, Listed(heard)) THEN 0
             ELSE Min({w.idle + 1, LongStall})
  BY DEF Progress, LongStall
<1>3. /\ Min({w.idle + 1, LongStall}) = IF w.idle + 1 =< LongStall THEN w.idle + 1 ELSE LongStall
      /\ Min({quiet + 1, LongStall}) = IF quiet + 1 =< LongStall THEN quiet + 1 ELSE LongStall
  <2>1. w.idle + 1 \in Nat /\ quiet + 1 \in Nat /\ LongStall \in Nat
    BY <1>1
  <2> QED
    BY <2>1, LesserOfTwo
<1>4. ~Progressed(w, heard, Listed(heard)) => ShownAfter(heard) = shown
  BY QuietIsShown DEF ShownAfter
<1> HIDE DEF idle
<1>5. idle \in Nat /\ QuietAfter(heard) \in Nat /\ idle =< QuietAfter(heard)
  BY <1>1, <1>2, <1>3, <1>4 DEF QuietAfter
<1> QED
  BY <1>5 DEF idle

\* A check keeps what the wait remembers as the hosts showed it.
LEMMA CheckKeeps ==
  ASSUME TypeInv, StallInv, op # "removal", NEW heard \in SUBSET Hosts,
         UNCHANGED <<op, sessions>>, w' = Progress(w, heard, Listed(heard)),
         shown' = ShownAfter(heard), quiet' = QuietAfter(heard)
  PROVE  StallInv'
<1> DEFINE listed == Listed(heard)
           new == {Stream(s, FALSE) : s \in listed}
           over == {[t EXCEPT !.gone = TRUE, !.done = t.total] : t \in Ended(w, heard, listed)}
           old == NotListed(w, listed) \ Ended(w, heard, listed)
<1>1. w'.streams = new \cup over \cup old
  BY Zenon DEF Progress, Streams
<1>2. w.streams \subseteq StreamType
  BY DEF StallInv
<1>3. ASSUME NEW t \in new
      PROVE  /\ t \in StreamType /\ Stands(t) /\ ~t.gone
             /\ \E s \in listed : /\ Same(t, s) /\ s = AsRemembered(t)
                                  /\ t.done = s.done
  <2>1. PICK s \in listed : t = Stream(s, FALSE)
    BY <1>3
  <2>2. /\ s \in [host : heard, plan : Plans \X Nat, done : {0, 1}, total : {1}]
        /\ s.plan[2] = sessions[s.plan[1]].round
        /\ sessions[s.plan[1]].at \in {"going", "sent"}
        /\ s.done = IF sessions[s.plan[1]].at = "sent" THEN 1 ELSE 0
        /\ s.host = Self \/ s.host = At[s.plan[1]]
    BY ListedIs
  <2>3. /\ t \in [host : {s.host}, plan : {s.plan}, done : {s.done}, total : {1}, gone : {FALSE}]
    BY <2>1, <2>2 DEF Stream
  <2>4. t \in StreamType
    BY <2>2, <2>3 DEF StreamType
  <2>5. t.host = s.host /\ t.plan = s.plan /\ t.done = s.done /\ t.gone = FALSE
    BY <2>3
  <2>6. s.plan[1] \in Plans /\ sessions[s.plan[1]].round \in Nat
    BY <2>2 DEF TypeInv, SessionType
  <2>7. Stands(t)
    <3> DEFINE p == s.plan[1]
    <3>1. /\ s.host = Self \/ s.host = At[p]
          /\ s.plan[2] =< sessions[p].round
          /\ sessions[p].at \in {"going", "sent", "over"}
          /\ s.done = 1 => sessions[p].at \in {"sent", "over"}
      BY <2>2, <2>6
    <3>2. FALSE # TRUE
      OBVIOUS
    <3> QED
      BY <2>5, <3>1, <3>2, Zenon DEF Stands
  <2>8. s = AsRemembered(t)
    <3>1. AsRemembered(t) \in [host : {s.host}, plan : {s.plan}, done : {s.done}, total : {1}]
      BY <2>3 DEF AsRemembered
    <3>2. s \in [host : {s.host}, plan : {s.plan}, done : {s.done}, total : {1}]
      BY <2>2
    <3> HIDE DEF listed
    <3> QED
      BY <3>1, <3>2
  <2>9. ~t.gone
    BY <2>5, Zenon
  <2> QED
    BY <2>4, <2>5, <2>7, <2>8, <2>9 DEF Same
<1>4. ASSUME NEW t \in over
      PROVE  /\ t \in StreamType /\ Stands(t) /\ t.gone
             /\ \E u \in Ended(w, heard, listed) :
                  /\ Same(t, u)
                  /\ t \in [host : {u.host}, plan : {u.plan}, done : {1}, total : {1}, gone : {TRUE}]
  <2>1. PICK u \in Ended(w, heard, listed) : t = [u EXCEPT !.gone = TRUE, !.done = u.total]
    BY <1>4
  <2>2. /\ u \in w.streams /\ u \in StreamType /\ Stands(u) /\ u.host \in heard
        /\ \A s \in listed : ~Same(u, s)
    BY <1>2, <2>1 DEF Ended, NotListed, StallInv
  <2>3. t \in [host : {u.host}, plan : {u.plan}, done : {1}, total : {1}, gone : {TRUE}]
    BY <2>1, <2>2 DEF StreamType
  <2>4. t \in StreamType /\ t.host = u.host /\ t.plan = u.plan /\ t.gone = TRUE
    BY <2>2, <2>3 DEF StreamType
  <2> DEFINE p == u.plan[1]
  <2>5. /\ u.host = Self \/ u.host = At[p]
        /\ u.plan[2] =< sessions[p].round
        /\ u.plan[2] = sessions[p].round => sessions[p].at \in {"going", "sent", "over"}
    BY <2>2, Zenon DEF Stands
  <2>6. u.plan[2] = sessions[p].round => sessions[p].at = "over"
    <3>1. p \in Plans /\ u.plan = <<p, u.plan[2]>>
      <4>1. u.plan \in Plans \X Nat
        BY <2>2 DEF StreamType
      <4>2. /\ u.plan = <<u.plan[1], u.plan[2]>>
            /\ u.plan[1] \in Plans
        BY <4>1, OnePlan, Zenon
      <4> QED
        BY <4>2, Zenon
    <3> HIDE DEF p
    <3>2. ASSUME u.plan[2] = sessions[p].round, sessions[p].at \in {"going", "sent"}
          PROVE  \E s \in listed : s.host = u.host /\ s.plan = <<p, sessions[p].round>>
      <4>1. \A h \in heard, x \in Plans :
              /\ sessions[x].at \in {"going", "sent"}
              /\ h = Self \/ h = At[x]
              => \E s \in listed : s.host = h /\ s.plan = <<x, sessions[x].round>>
        BY ListedIs
      <4> HIDE DEF listed
      <4> QED
        BY <2>2, <2>5, <3>1, <3>2, <4>1
    <3> QED
      BY <2>2, <2>5, <3>1, <3>2 DEF Same
  <2>7. Stands(t)
    <3>1. sessions[p].at = "over" => sessions[p].at \in {"going", "sent", "over"}
                                     /\ sessions[p].at \in {"sent", "over"}
      OBVIOUS
    <3> QED
      BY <2>4, <2>5, <2>6, <3>1, Zenon DEF Stands
  <2>8. t.gone
    BY <2>4, Zenon
  <2> QED
    BY <2>3, <2>4, <2>7, <2>8 DEF Same
<1>5. ASSUME NEW t \in old
      PROVE  /\ t \in w.streams /\ t \in StreamType /\ Stands(t)
             /\ \A s \in listed : ~Same(t, s)
             /\ t \notin Ended(w, heard, listed)
             /\ ~t.gone => t.host \notin heard
  BY <1>2, <1>5 DEF NotListed, Ended, StallInv
<1> HIDE DEF new, over, old
<1>6. w'.streams \subseteq StreamType' /\ \A t \in w'.streams : Stands(t)'
  <2>1. StreamType' = StreamType
    BY DEF StreamType, Hosts, Plans
  <2>2. \A t : Stands(t)' <=> Stands(t)
    BY DEF Stands
  <2> QED
    BY <1>1, <1>3, <1>4, <1>5, <2>1, <2>2
<1>7. \A t, s \in w'.streams : Same(t, s) => t = s
  <2>1. ASSUME NEW t \in new, NEW s \in new, Same(t, s)
        PROVE  t = s
    <3>1. PICK a \in listed : Same(t, a) /\ a = AsRemembered(t) /\ t.done = a.done
      BY <1>3
    <3>2. PICK b \in listed : Same(s, b) /\ b = AsRemembered(s) /\ s.done = b.done
      BY <1>3
    <3>3. /\ a.done = IF sessions[a.plan[1]].at = "sent" THEN 1 ELSE 0
          /\ b.done = IF sessions[b.plan[1]].at = "sent" THEN 1 ELSE 0
      BY ListedIs
    <3>4. a.plan = b.plan /\ t.host = s.host /\ t.plan = s.plan
      BY <2>1, <3>1, <3>2 DEF Same
    <3>5. t.done = s.done
      BY <3>1, <3>2, <3>3, <3>4
    <3>6. /\ t \in StreamType /\ s \in StreamType /\ ~t.gone /\ ~s.gone
      BY <1>3
    <3>7. t.gone = FALSE /\ s.gone = FALSE
      <4>1. t.gone \in BOOLEAN /\ s.gone \in BOOLEAN
        BY <3>6 DEF StreamType
      <4> QED
        BY <3>6, <4>1, Zenon
    <3>8. /\ t \in [host : {t.host}, plan : {t.plan}, done : {t.done}, total : {1}, gone : {FALSE}]
          /\ s \in [host : {t.host}, plan : {t.plan}, done : {t.done}, total : {1}, gone : {FALSE}]
      BY <3>4, <3>5, <3>6, <3>7 DEF StreamType
    <3> QED
      BY <3>8, OneStream
  <2>2. ASSUME NEW t \in over, NEW s \in over, Same(t, s)
        PROVE  t = s
    <3>1. PICK u \in Ended(w, heard, listed) :
             /\ Same(t, u)
             /\ t \in [host : {u.host}, plan : {u.plan}, done : {1}, total : {1}, gone : {TRUE}]
      BY <1>4
    <3>2. PICK v \in Ended(w, heard, listed) :
             /\ Same(s, v)
             /\ s \in [host : {v.host}, plan : {v.plan}, done : {1}, total : {1}, gone : {TRUE}]
      BY <1>4
    <3>3. u.host = v.host /\ u.plan = v.plan
      BY <2>2, <3>1, <3>2 DEF Same
    <3>4. /\ t \in [host : {u.host}, plan : {u.plan}, done : {1}, total : {1}, gone : {TRUE}]
          /\ s \in [host : {u.host}, plan : {u.plan}, done : {1}, total : {1}, gone : {TRUE}]
      BY <3>1, <3>2, <3>3, Zenon
    <3> QED
      BY <3>4, OneStream
  <2>3. ASSUME NEW t \in old, NEW s \in old, Same(t, s)
        PROVE  t = s
    BY <1>5, <2>3 DEF StallInv
  <2>4. ASSUME NEW t \in new, NEW s \in over \cup old
        PROVE  ~Same(t, s) /\ ~Same(s, t)
    <3>1. PICK a \in listed : Same(t, a)
      BY <1>3
    <3>2. ~Same(s, a)
      <4>1. CASE s \in old
        BY <1>5, <4>1
      <4>2. CASE s \in over
        <5>1. PICK u \in Ended(w, heard, listed) : Same(s, u)
          BY <1>4, <4>2
        <5>2. ~Same(u, a)
          BY <5>1 DEF Ended, NotListed
        <5> QED
          BY <5>1, <5>2 DEF Same
      <4> QED
        BY <2>4, <4>1, <4>2
    <3> QED
      BY <3>1, <3>2 DEF Same
  <2>5. ASSUME NEW t \in over, NEW s \in old
        PROVE  ~Same(t, s) /\ ~Same(s, t)
    <3>1. PICK u \in Ended(w, heard, listed) : Same(t, u)
      BY <1>4
    <3>2. u \in w.streams /\ s \in w.streams /\ s # u
      BY <1>5, <3>1 DEF Ended, NotListed
    <3> QED
      BY <3>1, <3>2 DEF StallInv, Same
  <2> QED
    BY <1>1, <2>1, <2>2, <2>3, <2>4, <2>5
<1>8. shown' = {AsRemembered(t) : t \in {s \in w'.streams : ~s.gone}}
  <2>1. ASSUME NEW x \in shown'
        PROVE  \E t \in w'.streams : ~t.gone /\ x = AsRemembered(t)
    <3>1. CASE x \in listed
      <4>1. x \in [host : heard, plan : Plans \X Nat, done : {0, 1}, total : {1}]
        BY <3>1, ListedIs
      <4>2. Stream(x, FALSE) \in new
        BY <3>1 DEF new
      <4>3. Stream(x, FALSE) \in [host : {x.host}, plan : {x.plan}, done : {x.done}, total : {1}, gone : {FALSE}]
        BY <4>1 DEF Stream
      <4>4. /\ AsRemembered(Stream(x, FALSE)) \in [host : {x.host}, plan : {x.plan}, done : {x.done}, total : {1}]
            /\ x \in [host : {x.host}, plan : {x.plan}, done : {x.done}, total : {1}]
        BY <4>1, <4>3 DEF AsRemembered
      <4>5. x = AsRemembered(Stream(x, FALSE))
        BY <4>4, OneListed
      <4> QED
        BY <1>1, <1>3, <4>2, <4>5
    <3>2. CASE x \notin listed
      <4>1. x \in shown /\ x.host \notin heard
        BY <2>1, <3>2 DEF ShownAfter
      <4>2. PICK t \in w.streams : ~t.gone /\ x = AsRemembered(t)
        BY <4>1 DEF StallInv
      <4>3. t.host \notin heard
        BY <4>1, <4>2 DEF AsRemembered
      <4>4. \A s \in listed : s.host \in heard
        BY ListedIs
      <4>5. t \in old
        BY <4>2, <4>3, <4>4 DEF old, NotListed, Ended, Same
      <4> QED
        BY <1>1, <4>2, <4>5
    <3> QED
      BY <3>1, <3>2
  <2>2. ASSUME NEW t \in w'.streams, ~t.gone
        PROVE  AsRemembered(t) \in shown'
    <3>1. CASE t \in new
      BY <1>3, <3>1 DEF ShownAfter
    <3>2. CASE t \in old
      <4>1. t \in w.streams /\ t.host \notin heard
        BY <1>5, <2>2, <3>2
      <4>2. AsRemembered(t) \in shown
        BY <2>2, <4>1 DEF StallInv
      <4>3. AsRemembered(t).host = t.host
        BY DEF AsRemembered
      <4> QED
        BY <4>1, <4>2, <4>3 DEF ShownAfter
    <3> QED
      BY <1>1, <1>4, <2>2, <3>1, <3>2
  <2> QED
    BY <2>1, <2>2
<1>9. w'.idle \in Nat /\ w'.checks \in Nat /\ quiet' \in Nat /\ w'.idle =< quiet'
  <2>1. w'.checks = Min({w.checks + 1, TooLong + 1})
    BY Zenon DEF Progress
  <2>2. w.checks + 1 \in Nat /\ TooLong + 1 \in Nat
    BY StreamAssumption DEF StallInv
  <2>3. w'.checks \in Nat
    BY <2>1, <2>2, LesserOfTwo
  <2> QED
    BY <2>3, IdleIsQuiet
<1> QED
  BY <1>6, <1>7, <1>8, <1>9 DEF StallInv, Same, AsRemembered

\* The reading of a check, where a node joins or leaves.
LEMMA SeeingIsHeard ==
  ASSUME op # "removal", NEW answers
  PROVE  /\ Heard(answers) \subseteq Hosts
         /\ Seeing(answers) = Heard(answers)
         /\ NowShown(answers) = ShownAfter(Heard(answers))
<1>1. Read(answers) \subseteq Hosts
  BY DEF Read, OtherSide, From, Hosts
<1>2. Seeing(answers) = Heard(answers)
  BY DEF Seeing, Heard
<1> QED
  BY <1>1, <1>2 DEF Heard, NowShown, ShownAfter

\* A new wait remembers nothing.
LEMMA StallAnew ==
  ASSUME w' = NoState, shown' = {}, quiet' \in Nat
  PROVE  StallInv'
<1>1. w'.streams = {} /\ w'.idle = 0 /\ w'.checks = 0
  BY DEF NoState
<1> QED
  BY <1>1 DEF StallInv

LEMMA StallFirst ==
  ASSUME Init
  PROVE  StallInv
<1>1. w.streams = {} /\ w.idle = 0 /\ w.checks = 0 /\ shown = {} /\ quiet = 0
  BY DEF Init, NoState
<1> QED
  BY <1>1 DEF StallInv

LEMMA StallStep ==
  ASSUME OperationInv, StallInv, [Next]_vars
  PROVE  StallInv'
<1> USE DEF OperationInv
<1>1. ASSUME op' = op, UNCHANGED waiting, sessions' = sessions \/ sessions' = Anew
      PROVE  StallInv'
  BY <1>1, StallKept
<1>2. CASE Cassandra
  <2>1. ASSUME NEW p \in Plans, SessionMoves(p)
        PROVE  StallInv'
    <3>1. op' = op /\ UNCHANGED waiting
      BY <2>1 DEF SessionMoves
    <3>2. \E x \in Plans :
              /\ sessions[x].at # "over"
              /\ sessions' = [sessions EXCEPT ![x].at =
                               CASE @ = "later" -> "going" [] @ = "going" -> "sent" [] @ = "sent" -> "over"]
      BY <2>1 DEF SessionMoves
    <3> QED
      BY <3>1, <3>2, StallKept
  <2>2. CASE OperationOver
    BY <1>1, <2>2 DEF OperationOver
  <2>3. CASE JvmStarts \/ GossipSees \/ \E h \in Coordinators : OtherRemoved(h)
    BY <1>1, <2>3 DEF JvmStarts, GossipSees, OtherRemoved
  <2> QED
    BY <1>2, <2>1, <2>2, <2>3 DEF Cassandra
<1>3. CASE Faults
  <2>1. CASE OperationFails
    <3>1. /\ op' = op /\ UNCHANGED waiting
          /\ sessions' = [p \in Plans |-> [sessions[p] EXCEPT !.at = "over"]]
      BY <2>1 DEF OperationFails
    <3> QED
      BY <3>1, StallKept
  <2>2. CASE JvmStops \/ JobDies \/ OtherLeaves \/ DecommissionByHand
    BY <1>1, <2>2 DEF JvmStops, JobDies, OtherLeaves, DecommissionByHand, world
  <2>3. CASE \E h \in Coordinators : CoordinatorRestarts(h) \/ RemovalByHand(h)
    BY <1>1, <2>3 DEF CoordinatorRestarts, RemovalByHand
  <2> QED
    BY <1>3, <2>1, <2>2, <2>3 DEF Faults
<1>4. CASE StartRun \/ Interrupt
  <2>1. w' = NoState /\ shown' = {} /\ quiet' \in Nat
    <3>1. w' = NoState /\ shown' = {} /\ quiet' = 0
      BY <1>4, Zenon DEF StartRun, Interrupt
    <3> QED
      BY <3>1
  <2> QED
    BY <2>1, StallAnew
<1>5. CASE Wait
  <2>1. PICK answers, after, said :
          CheckSays(after, said, answers) /\ after = Progress(w, Heard(answers), Listed(Heard(answers)))
    BY <1>5, Zenon DEF Wait, Check
  <2>2. UNCHANGED <<op, sessions>>
    BY <1>5 DEF Wait
  <2>3. /\ said = "going" => w' = after /\ shown' = NowShown(answers)
        /\ said # "going" => w' = NoState /\ shown' = {}
        /\ quiet' = IF w.checks = 0 \/ NowShown(answers) # shown THEN 0
                    ELSE Min({quiet + 1, LongStall})
    BY <2>1 DEF CheckSays, LongStall
  <2>4. CASE op = "removal"
    BY <2>2, <2>4 DEF StallInv
  <2>5. CASE op # "removal"
    <3> DEFINE heard == Heard(answers)
    <3>1. heard \in SUBSET Hosts /\ NowShown(answers) = ShownAfter(heard)
      BY <2>5, SeeingIsHeard
    <3>2. quiet' = QuietAfter(heard)
      BY <2>3, <3>1 DEF QuietAfter
    <3>3. after = Progress(w, heard, Listed(heard))
      BY <2>1
    <3> HIDE DEF heard
    <3>4. CASE said = "going"
      BY <2>2, <2>3, <2>5, <3>1, <3>2, <3>3, <3>4, CheckKeeps
    <3>5. CASE said # "going"
      <4>1. quiet' \in Nat
        BY <2>5, <3>1, <3>2, IdleIsQuiet
      <4> QED
        BY <2>3, <3>5, <4>1, StallAnew
    <3> QED
      BY <3>4, <3>5
  <2> QED
    BY <2>4, <2>5
<1>6. CASE \/ LookLeave \/ LaunchLeave \/ LookRemoval \/ Decline \/ ResumeRemoval \/ LaunchRemoval
           \/ ForceRemoval \/ Assassinate \/ HealthAfter
  BY <1>1, <1>6 DEF LookLeave, LaunchLeave, LookRemoval, Decline, ResumeRemoval, LaunchRemoval,
                    ForceRemoval, Assassinate, HealthAfter, world
<1>7. CASE UNCHANGED vars
  BY <1>1, <1>7 DEF vars, waiting
<1> QED
  BY <1>2, <1>3, <1>4, <1>5, <1>6, <1>7 DEF Next, Run

LEMMA StallSafe == Spec => [](OperationInv /\ StallInv)
<1>1. Init => OperationInv /\ StallInv
  BY OperationFirst, StallFirst
<1>2. (OperationInv /\ StallInv) /\ [Next]_vars => (OperationInv /\ StallInv)'
  BY OperationStep, StallStep
<1> QED
  BY <1>1, <1>2, PTL DEF Spec

\* The login refused is really wrong.
LEMMA RefusedIsWrong ==
  ASSUME NEW own \in OwnAnswers, NEW silent \in SUBSET Peers, Refused(AnswersOf(own, silent)) # {}
  PROVE  run.wrong
<1> DEFINE answers == AnswersOf(own, silent)
           known == w.answered \cup Heard(answers)
<1>1. Self \notin Peers /\ Self \in Hosts /\ Peers \subseteq Hosts
  BY OperationsAssumption DEF Hosts
<1>2. /\ answers[Self] = own
      /\ \A h \in Peers : answers[h] = "login refused" => run.wrong
      /\ \A h \in Peers : answers[h] # "login not ready"
  BY <1>1 DEF AnswersOf
<1>3. own = "login refused" => run.wrong
  BY DEF OwnAnswers
<1>4. own = "login not ready" => op = "join" \/ Self \in w.answered
  BY DEF OwnAnswers
<1>5. PICK h : \/ h \in JmxRefused(From, answers, IF op = "join" THEN Self ELSE Outside, known)
               \/ h \in JmxRefused(OtherSide, answers, Outside, known)
  BY DEF Refused
<1> HIDE DEF answers, known
<1>6. CASE h \in JmxRefused(From, answers, IF op = "join" THEN Self ELSE Outside, known)
  <2>1. /\ h \in From \ known
        /\ \/ answers[h] = "login refused"
           \/ answers[h] = "login not ready" /\ h # IF op = "join" THEN Self ELSE Outside
    BY <1>6 DEF JmxRefused
  <2>2. h \in Hosts /\ h \notin w.answered
    BY <1>1, <2>1 DEF From, known
  <2>3. CASE h = Self
    BY <1>2, <1>3, <1>4, <2>1, <2>2, <2>3
  <2>4. CASE h \in Peers
    BY <1>2, <2>1, <2>4
  <2> QED
    BY <2>2, <2>3, <2>4 DEF Hosts
<1>7. CASE h \in JmxRefused(OtherSide, answers, Outside, known)
  <2>1. h \in Peers /\ answers[h] \in {"login refused", "login not ready"}
    BY <1>7 DEF JmxRefused, OtherSide
  <2> QED
    BY <1>2, <2>1
<1> QED
  BY <1>5, <1>6, <1>7

\* The wait stops early for a cause only: as many checks in a row as its limit showed
\* nothing new, though the hosts that answered tell only of themselves and operations
\* begin again; the login is wrong for good; the JVM is stopped.
THEOREM StopsAreForCause == Spec => StopsForCause
<1> DEFINE Quiet == \/ quiet' >= IF \E p \in Plans : sessions[p].at = "going"
                                 THEN StallTime ELSE StallTime * QuietFactor
                    \/ op = "removal"
           Caused == /\ Ends("stalled") => Quiet
                     /\ Ends("jmx_refused") => run.wrong
                     /\ Ends("stopped") => ~node.up
<1>1. ASSUME OperationInv, StallInv, [Next]_vars, Ends("stalled"), op # "removal"
      PROVE  Quiet
  <2>1. PICK own, silent, answers, after :
              /\ answers = AnswersOf(own, silent)
              /\ after = Progress(w, Heard(answers), Listed(Heard(answers)))
              /\ "stalled" = Status(op, after, Reading(answers), run.max)
              /\ CheckSays(after, "stalled", answers)
    BY <1>1, EndsByWait
  <2> DEFINE heard == Heard(answers)
  <2>2. heard \in SUBSET Hosts /\ NowShown(answers) = ShownAfter(heard)
    BY <1>1, SeeingIsHeard
  <2>3. quiet' = QuietAfter(heard)
    BY <2>1, <2>2 DEF CheckSays, QuietAfter, LongStall
  <2>4. after.idle \in Nat /\ quiet' \in Nat /\ after.idle =< quiet'
    <3>1. after = Progress(w, heard, Listed(heard))
      BY <2>1
    <3> HIDE DEF heard
    <3> QED
      BY <1>1, <2>2, <2>3, <3>1, IdleIsQuiet DEF OperationInv
  <2>5. after.idle >= IF after.transferring THEN StallTime ELSE LongStall
    <3>1. Stalled(after)
      BY <2>1, WordsMean
    <3> QED
      BY <3>1 DEF Stalled, Limit, LongStall
  <2>6. after.transferring => \E p \in Plans : sessions[p].at = "going"
    <3>1. after.transferring <=> \E s \in Listed(heard) : s.done < s.total
      BY <2>1, Zenon DEF Progress
    <3>2. ASSUME NEW s \in Listed(heard), s.done < s.total
          PROVE  \E p \in Plans : sessions[p].at = "going"
      <4>1. /\ s \in [host : heard, plan : Plans \X Nat, done : {0, 1}, total : {1}]
            /\ sessions[s.plan[1]].at \in {"going", "sent"}
            /\ s.done = IF sessions[s.plan[1]].at = "sent" THEN 1 ELSE 0
        <5> HIDE DEF heard
        <5> QED
          BY <1>1, <2>2, <3>2, ListedIs DEF OperationInv
      <4>2. s.plan[1] \in Plans /\ s.total = 1
        BY <4>1
      <4>3. sessions[s.plan[1]].at = "going"
        BY <3>2, <4>1, <4>2
      <4> QED
        BY <4>2, <4>3
    <3> QED
      BY <3>1, <3>2, Zenon
  <2>7. StallTime \in Nat /\ LongStall \in Nat /\ StallTime =< LongStall
    BY StallTimes
  <2>8. CASE \E p \in Plans : sessions[p].at = "going"
    <3>1. quiet' >= StallTime
      BY <2>4, <2>5, <2>7
    <3> QED
      BY <2>8, <3>1
  <2>9. CASE ~ \E p \in Plans : sessions[p].at = "going"
    <3>1. quiet' >= LongStall
      BY <2>4, <2>5, <2>6, <2>7, <2>9
    <3> QED
      BY <2>9, <3>1 DEF LongStall
  <2> QED
    BY <2>8, <2>9
<1>2. ASSUME OperationInv, [Next]_vars, Ends("jmx_refused")
      PROVE  run.wrong
  <2>1. PICK own \in OwnAnswers, silent \in SUBSET Peers : \E answers, after :
              /\ answers = AnswersOf(own, silent)
              /\ "jmx_refused" = Status(op, after, Reading(answers), run.max)
    BY <1>2, EndsByWait
  <2>2. Reading(AnswersOf(own, silent)).refused # {}
    BY <2>1, WordsMean
  <2>3. Refused(AnswersOf(own, silent)) # {}
    BY <2>2 DEF Reading
  <2> QED
    BY <2>3, RefusedIsWrong
<1>3. ASSUME OperationInv, [Next]_vars, Ends("stopped")
      PROVE  ~node.up
  <2>1. PICK own \in OwnAnswers, silent \in SUBSET Peers : \E answers, after :
              /\ answers = AnswersOf(own, silent)
              /\ "stopped" = Status(op, after, Reading(answers), run.max)
    BY <1>3, EndsByWait
  <2>2. OwnStopped(Reading(AnswersOf(own, silent)).own)
    BY <2>1, WordsMean
  <2>3. AnswersOf(own, silent)[Self] = "connection refused"
    BY <2>2 DEF OwnStopped, Reading, Own
  <2>4. own = "connection refused"
    BY <2>3 DEF AnswersOf, Hosts
  <2> QED
    BY <2>4 DEF OwnAnswers
<1>4. OperationInv /\ StallInv /\ [Next]_vars => [Caused]_vars
  BY <1>1, <1>2, <1>3
<1> QED
  BY <1>4, StallSafe, PTL DEF Spec, StopsForCause

=============================================================================
