------------------------- MODULE ApplyConfigProofs -------------------------
(***************************************************************************)
(* Proofs about ApplyConfig, for every cluster, order of its hosts, limit, *)
(* initial condition of the nodes and bound.                               *)
(***************************************************************************)
EXTENDS ApplyConfig, WellFoundedInduction, TLAPS

-----------------------------------------------------------------------------
(* Type correctness.                                                       *)

(* On a host, past the choice of the next one.                             *)
OnHost == {"before", "clear", "write", "drain", "restart", "start", "wait",
           "wait_running", "after", "record"}

(* What is to do is in the run.                                            *)
TypeInv ==
    /\ TypeOK
    /\ pc \in OnHost => cur \in 1 .. N
    /\ \A n \in Nodes : plan[n].todo => n \in hosts /\ plan[n].then # "out"

LEMMA OrderLength == N \in Nat
BY OrderAssumption DEF N

(* The host the play is at is a node.                                      *)
LEMMA HostInNodes == ASSUME cur \in 1 .. N PROVE Host \in Nodes
BY OrderAssumption DEF N, Host

(* What a plan says of a node.                                             *)
Plans == [then : Outcomes \cup {"out"}, todo : BOOLEAN, looping : BOOLEAN]

LEMMA NotPlannedTyped == NotPlanned \in Plans /\ ~NotPlanned.todo
BY DEF NotPlanned, Plans

LEMMA NeedsTyped ==
    ASSUME NEW n \in Nodes
    PROVE  Needs(n) \in Plans /\ Needs(n).then = Then(n) /\ Then(n) \in Outcomes
<1>1. Then(n) \in Outcomes
  BY DEF Then, Outcomes
<1>2. (disk[n] # "inventory" \/ Pending(n)) \in BOOLEAN
  BY DEF Pending
<1>3. (state[n] = "looping" /\ atStart[n] \notin HasJvm) \in BOOLEAN
  OBVIOUS
<1> QED BY <1>1, <1>2, <1>3 DEF Needs, Plans

LEMMA TypeInit == Init => TypeInv
<1> USE OrderLength, BoundsAssumption, ConditionsAssumption
<1> SUFFICES ASSUME Init PROVE TypeInv
  OBVIOUS
<1>1. PICK k \in [Nodes -> Conditions] :
          /\ state = [n \in Nodes |-> k[n].state]
          /\ disk = [n \in Nodes |-> k[n].disk]
          /\ loaded = [n \in Nodes |-> k[n].loaded]
  BY DEF Init
<1>2. \A n \in Nodes : /\ k[n].state \in States
                       /\ k[n].disk \in Content
                       /\ k[n].loaded \in BOOLEAN
  BY DEF States
<1>3. /\ state \in [Nodes -> States]
      /\ disk \in [Nodes -> Content]
      /\ loaded \in [Nodes -> BOOLEAN]
      /\ rec \in [Nodes -> BOOLEAN]
      /\ atStart \in [Nodes -> States]
  BY <1>1, <1>2 DEF Init
<1>6. seen \in [Nodes -> SUBSET Nodes]
  BY DEF Init
<1>4. plan \in [Nodes -> Plans] /\ \A n \in Nodes : ~plan[n].todo
  BY NotPlannedTyped DEF Init
<1>5. cur \in 1 .. N + 1 /\ faults \in 0 .. MaxFaults /\ pc \in Phases /\ pc \notin OnHost
  BY DEF Init, Phases, OnHost
<1> QED BY <1>3, <1>4, <1>5, <1>6 DEF Init, TypeInv, TypeOK, Plans

LEMMA TypeStep == TypeInv /\ [Next]_vars => TypeInv'
<1> USE OrderLength, BoundsAssumption
<1> SUFFICES ASSUME TypeInv, [Next]_vars PROVE TypeInv'
  OBVIOUS
<1> USE DEF TypeInv, TypeOK
<1>1. ASSUME NEW limit \in Limits, NEW resume \in BOOLEAN, StartRun(limit, resume)
      PROVE  TypeInv'
  <2>1. plan' \in [Nodes -> Plans] /\ \A n \in Nodes : ~plan'[n].todo
    BY <1>1, NotPlannedTyped DEF StartRun
  <2>2. surprised' \in BOOLEAN
    BY <1>1 DEF StartRun
  <2>3. cur' \in 1 .. N + 1 /\ pc' \in Phases /\ pc' \notin OnHost
    BY <1>1 DEF StartRun, Phases, OnHost
  <2>4. hosts' \subseteq Nodes
    BY <1>1 DEF StartRun
  <2> QED
    BY <1>1, <2>1, <2>2, <2>3, <2>4 DEF StartRun, nodes, disks, Plans
<1>2. CASE Plan
  <2>1. plan' \in [Nodes -> Plans]
    BY <1>2, NotPlannedTyped, NeedsTyped DEF Plan
  <2>3. \A n \in Nodes : plan'[n].todo => n \in hosts /\ plan'[n].then # "out"
    BY <1>2, NotPlannedTyped, NeedsTyped DEF Plan, Outcomes
  <2>2. pc' \in Phases /\ pc' \notin OnHost
    BY <1>2 DEF Plan, Phases, OnHost
  <2> QED BY <1>2, <2>1, <2>2, <2>3 DEF Plan, nodes, disks, history, Plans
<1>3. CASE Progress
  BY <1>3 DEF Progress, nodes, Phases, OnHost
<1>4. CASE BeginBatch
  <2>1. pc' \in Phases /\ pc' \notin OnHost
    BY <1>4 DEF BeginBatch, Phases, OnHost
  <2>2. left' \subseteq hosts /\ found' \subseteq hosts
    BY <1>4 DEF BeginBatch, Batch, Todo
  <2> QED BY <1>4, <2>1, <2>2 DEF BeginBatch, nodes, run, disks, history
<1>5. CASE CheckBatchBefore \/ CheckBatchAfter
  BY <1>5 DEF CheckBatchBefore, CheckBatchAfter, nodes, run, disks, history, Phases, OnHost
<1>6. ASSUME NEW h \in left, BatchWrite(h) PROVE TypeInv'
  <2>1. left' \subseteq hosts
    BY <1>6 DEF BatchWrite, Batch, Todo
  <2>2. disk' \in [Nodes -> Content]
    BY <1>6 DEF BatchWrite, WriteFiles, Content
  <2>3. pc' \in Phases /\ pc' \notin OnHost
    BY <1>6 DEF BatchWrite, Phases, OnHost
  <2> QED BY <1>6, <2>1, <2>2, <2>3 DEF BatchWrite, run, disks, history
<1>7. ASSUME NEW h \in left, BatchRecord(h) PROVE TypeInv'
  BY <1>7 DEF BatchRecord, nodes, run, history, Phases, OnHost
<1>8. CASE Skip
  BY <1>8 DEF Skip, nodes, run, disks, history, Phases, OnHost
<1>9. CASE Begin
  <2>1. found' \subseteq hosts
    BY <1>9 DEF Begin, Serial, Todo
  <2>2. pc' \in Phases /\ cur' \in 1 .. N /\ knownDown' \subseteq Nodes
    BY <1>9 DEF Begin, Phases
  <2> QED BY <1>9, <2>1, <2>2 DEF Begin, nodes, run, disks
<1>10. CASE CheckBefore
  BY <1>10 DEF CheckBefore, nodes, run, disks, Phases, OnHost
<1>11. CASE ClearUnit
  BY <1>11 DEF ClearUnit, Becomes, Move, run, disks, history, Phases, OnHost, States
<1>12. CASE Write
  BY <1>12 DEF Write, WriteFiles, Move, run, disks, history, Phases, OnHost, Content
<1>13. CASE Drain
  <2>1. state' \in [Nodes -> States] /\ seen' \in [Nodes -> SUBSET Nodes]
    BY <1>13 DEF Drain, States
  <2> QED BY <1>13, <2>1 DEF Drain, Move, run, disks, history, Phases, OnHost
<1>14. CASE Restart
  BY <1>14 DEF Restart, JvmStarts, Becomes, Move, run, disks, history, Phases, OnHost, States
<1>15. CASE Start
  BY <1>15 DEF Start, JvmStarts, Becomes, Move, run, disks, history, Phases, OnHost, States
<1>16. CASE WaitNormal
  <2>1. rec' \in [Nodes -> BOOLEAN]
    BY <1>16 DEF WaitNormal
  <2> QED
    BY <1>16, <2>1 DEF WaitNormal, Move, run, disks, history, Phases, OnHost
<1>17. CASE CheckAfter
  BY <1>17 DEF CheckAfter, Move, nodes, run, disks, history, Phases, OnHost
<1>18. CASE Record
  BY <1>18, HostInNodes DEF Record, nodes, run, history, Phases, OnHost
<1>19. CASE CameUp \/ DrainNoAnswer \/ GaveUp \/ Unhealthy \/ EndRun
  BY <1>19 DEF CameUp, DrainNoAnswer, GaveUp, Unhealthy, EndRun, StopRun, nodes,
     run, disks, history, Phases, OnHost
<1>20. CASE Interrupt
  BY <1>20 DEF Interrupt, Fault, StopRun, nodes, run, disks, history, Phases, OnHost
<1>21. ASSUME NEW n \in Nodes, Crash(n) \/ StoppedByHand(n) PROVE TypeInv'
  <2>1. \E s \in States : Becomes(n, s)
    BY <1>21 DEF Crash, StoppedByHand, States
  <2>3. state' \in [Nodes -> States] /\ seen' \in [Nodes -> SUBSET Nodes]
    BY <2>1 DEF Becomes
  <2>2. faults' \in 0 .. MaxFaults
    BY <1>21 DEF Crash, StoppedByHand, Fault
  <2> QED BY <1>21, <2>3, <2>2 DEF Crash, StoppedByHand, run, disks
<1>22. ASSUME NEW n \in Nodes, StartedOtherwise(n) PROVE TypeInv'
  BY <1>22 DEF StartedOtherwise, JvmStarts, Becomes, Fault, run, disks, States
<1>23. ASSUME NEW n \in Nodes, Joined(n) PROVE TypeInv'
  BY <1>23 DEF Joined, Becomes, run, disks, States
<1>24. CASE UNCHANGED vars
  BY <1>24 DEF vars
<1> QED
  BY <1>1, <1>2, <1>3, <1>4, <1>5, <1>6, <1>7, <1>8, <1>9, <1>10, <1>11, <1>12,
     <1>13, <1>14, <1>15, <1>16, <1>17, <1>18, <1>19, <1>20, <1>21, <1>22, <1>23,
     <1>24 DEF Next, Step, Environment

(* Each variable of ApplyConfig keeps its type in every behaviour: a play  *)
(* never goes past its last host, a batch holds hosts of the run only, the *)
(* progress file lists hosts only, the bound on the faults is kept.        *)
THEOREM TypeCorrect == Spec => []TypeOK
<1>1. Spec => []TypeInv
  BY TypeInit, TypeStep, PTL DEF Spec
<1>2. TypeInv => TypeOK
  BY DEF TypeInv
<1> QED BY <1>1, <1>2, PTL

-----------------------------------------------------------------------------
(* The inventory's order.                                                  *)

LEMMA IndexOfOrder ==
    ASSUME NEW i \in 1 .. N
    PROVE  Index(Order[i]) = i /\ Before(Order[i]) = {Order[j] : j \in 1 .. i - 1}
<1>1. \A j \in 1 .. N : Order[j] = Order[i] => j = i
  BY OrderAssumption DEF N
<1>2. Index(Order[i]) = i
  BY <1>1 DEF Index
<1> QED BY <1>2 DEF Before

LEMMA LeastIndex ==
    ASSUME NEW S, S \subseteq Nat, S # {}
    PROVE  \E i \in S : \A j \in S : i <= j
<1> DEFINE R == OpToRel(<, Nat)
<1>1. IsWellFoundedOn(R, Nat)
  BY NatLessThanWellFounded, Zenon
<1>2. \A x, y \in Nat : x < y => <<x, y>> \in R
  BY DEF OpToRel
<1> HIDE DEF R
<1>3. PICK i \in S : \A j \in S : <<j, i>> \notin R
  BY <1>1, WFMin, Zenon
<1>4. ASSUME NEW j \in S PROVE i <= j
  <2>1. i \in Nat /\ j \in Nat /\ <<j, i>> \notin R
    BY <1>3
  <2>2. ~(j < i)
    BY <1>2, <2>1, Zenon
  <2> QED BY <2>1, <2>2
<1> QED BY <1>4

(* The first host of a set, in the inventory's order, is one of them.      *)
LEMMA FirstIsOne ==
    ASSUME NEW S, S \subseteq Nodes, S # {}, NEW default
    PROVE  FirstOf(S, default) \in S
<1> DEFINE I == {i \in 1 .. N : Order[i] \in S}
<1>1. I \subseteq Nat /\ I # {}
  BY OrderAssumption, OrderLength DEF N
<1>2. PICK i \in I : \A j \in I : i <= j
  <2> HIDE DEF I
  <2> QED BY <1>1, LeastIndex
<1>3. S \cap Before(Order[i]) = {}
  <2>1. SUFFICES ASSUME NEW j \in 1 .. i - 1, Order[j] \in S PROVE FALSE
    BY IndexOfOrder
  <2> QED BY <1>2, <2>1, OrderLength
<1>4. \E n \in S : S \cap Before(n) = {}
  BY <1>3
<1> QED BY <1>4 DEF FirstOf

-----------------------------------------------------------------------------
(* A restart waits for every other node up.                                *)

LEMMA NoFindings ==
    ASSUME NEW view, NEW expected, NEW ok,
           ViewFindings(view, expected, ok) = {}
    PROVE  \A a \in DOMAIN view.ring :
             view.ring[a] = "UN" \/ Tolerated(a, view.ring[a], ok)
<1>1. StateFindings(view, ok) = {}
  BY DEF ViewFindings
<1>2. ASSUME NEW a \in DOMAIN view.ring,
             view.ring[a] # "UN", ~Tolerated(a, view.ring[a], ok)
      PROVE  FALSE
  <2>1. <<"state", a, view.from>> \in StateFindings(view, ok)
    BY <1>2 DEF StateFindings
  <2> QED BY <2>1, <1>1
<1> QED BY <1>2

(* The node a check passed with answered it, and shows each node up that   *)
(* nothing lets be down.                                                   *)
LEMMA ShownUp ==
    ASSUME NEW m \in Nodes, NEW down, NEW expected,
           ViewFindings(View(m), expected, [NoneExpected EXCEPT !.down = down]) = {}
    PROVE  /\ state[m] \in {"up", "drained"}
           /\ \A n \in Nodes : Shown(m, n) = "UN" \/ (n \in down /\ Shown(m, n) \in DownCodes)
<1> DEFINE ok == [NoneExpected EXCEPT !.down = down]
<1>1. View(m).answered <=> state[m] \in {"up", "drained"}
  BY DEF View
<1>2. View(m).ring = [n \in Nodes |-> Shown(m, n)]
  BY DEF View
<1>3. View(m).answered
  BY DEF ViewFindings
<1>4. \A n \in Nodes : View(m).ring[n] = "UN" \/ Tolerated(n, View(m).ring[n], ok)
  BY <1>2, NoFindings
<1>5. ok.down = down /\ ok.joining = {} /\ ok.leaving = {}
  BY DEF NoneExpected
<1> HIDE DEF ok
<1>6. ASSUME NEW n \in Nodes
      PROVE  Shown(m, n) = "UN" \/ (n \in down /\ Shown(m, n) \in DownCodes)
  BY <1>2, <1>4, <1>5, <1>6 DEF Tolerated
<1> QED BY <1>1, <1>3, <1>6

(* The check of a host that passes is answered by a second node; but for a *)
(* host that may be down and a second node drained itself, it finds every  *)
(* node up that nothing lets be down.                                      *)
LEMMA CheckShows ==
    ASSUME TypeOK, cur \in 1 .. N, NEW down \in BOOLEAN, SerialFindings(Host, down) = {}
    PROVE  LET ok == AllDownOk(Host, down)
               p  == Peer(Host, ok)
           IN  /\ p \in Nodes
               /\ state[p] = "drained" => DrainedShowsItselfUp
               /\ ~down \/ state[p] # "drained" => \A n \in Nodes \ ok : state[n] = "up"
<1> DEFINE ok == AllDownOk(Host, down)
           p  == Peer(Host, ok)
           expected == Cardinality(Nodes)
<1>1. Host \in Nodes
  BY HostInNodes
<1>2. p \in Nodes
  <2> HIDE DEF ok
  <2>1. CASE Nodes \ (ok \cup {Host}) = {}
    BY <1>1, <2>1 DEF Peer, FirstOf
  <2>2. CASE Nodes \ (ok \cup {Host}) # {}
    BY <2>2, FirstIsOne DEF Peer
  <2> QED BY <2>1, <2>2
<1>3. ViewFindings(View(p), expected, [NoneExpected EXCEPT !.down = ok]) = {}
  BY DEF SerialFindings, Findings
<1>4. /\ state[p] \in {"up", "drained"}
      /\ \A n \in Nodes : Shown(p, n) = "UN" \/ (n \in ok /\ Shown(p, n) \in DownCodes)
  <2> HIDE DEF ok, p, expected
  <2> QED BY <1>2, <1>3, ShownUp
<1>5. ~down => /\ ViewFindings(View(Host), expected, [NoneExpected EXCEPT !.down = ok]) = {}
               /\ NodeFindings(Host, Checks(Host), View(Host).answered) = {}
  BY DEF SerialFindings, Findings
<1>6. ASSUME ~down
      PROVE  state[Host] = "up" /\ \A n \in Nodes \ ok : Shown(Host, n) = "UN"
  <2>1. /\ state[Host] \in {"up", "drained"}
        /\ \A n \in Nodes : Shown(Host, n) = "UN" \/ (n \in ok /\ Shown(Host, n) \in DownCodes)
    <3> HIDE DEF ok, expected
    <3> QED BY <1>1, <1>5, <1>6, ShownUp
  <2>2. state[Host] # "drained"
    <3>1. SUFFICES ASSUME state[Host] = "drained" PROVE FALSE
      OBVIOUS
    <3>2. DOMAIN Checks(Host) = {"gossip", "cql"} /\ Checks(Host)["gossip"] = "bad"
      BY <3>1 DEF Checks
    <3>3. <<"gossip", Host>> \in NodeFindings(Host, Checks(Host), View(Host).answered)
      BY <3>2 DEF NodeFindings
    <3> QED BY <1>5, <1>6, <3>3
  <2> QED BY <2>1, <2>2
<1>7. ASSUME NEW m \in Nodes, state[m] = "up", \A n \in Nodes \ ok : Shown(m, n) = "UN"
      PROVE  \A n \in Nodes \ ok : state[n] = "up"
  BY <1>7 DEF Shown
<1>8. ~down \/ state[p] # "drained" => \A n \in Nodes \ ok : state[n] = "up"
  <2> HIDE DEF ok, p
  <2>1. CASE ~down
    BY <1>1, <1>6, <1>7, <2>1
  <2>2. CASE state[p] # "drained"
    BY <1>2, <1>4, <1>7, <2>2
  <2> QED BY <2>1, <2>2
<1>9. state[p] = "drained" => DrainedShowsItselfUp
  <2> HIDE DEF ok, p
  <2>1. SUFFICES ASSUME state[p] = "drained", ~DrainedShowsItselfUp PROVE FALSE
    OBVIOUS
  <2>2. Shown(p, p) = "US"
    BY <2>1 DEF Shown
  <2> QED BY <1>2, <1>4, <2>2 DEF DownCodes
<1> QED BY <1>2, <1>8, <1>9

(* A host to restart lets nothing be down but itself.                      *)
LEMMA RestartLets ==
    ASSUME plan[Host].then = "restart", NEW down \in BOOLEAN
    PROVE  AllDownOk(Host, down) = IF down THEN {Host} ELSE {}
BY DEF AllDownOk, SerialDownOk

(* The restart waited for every node known down but the host; for those a  *)
(* drained second node hid too, unless the run is resumed and a drained    *)
(* node shows itself up.                                                   *)
Waited ==
    /\ knownDown \ unseen \subseteq {Host}
    /\ ~resuming \/ ~DrainedShowsItselfUp => unseen = {}

(* A node known down is down until it joins, and the run goes on from the  *)
(* check of a host to restart having waited.  Only a resumed run lets the  *)
(* host it restarts be down.                                               *)
WaitInv ==
    /\ TypeInv
    /\ \A n \in knownDown : state[n] # "up"
    /\ pc = "before" => Host \in Serial
    /\ pc = "before" /\ ~resuming /\ Host \in found => plan[Host].then = "start"
    /\ pc = "write" => plan[Host].then = "start" \/ Waited
    /\ pc \in {"clear", "start"} => plan[Host].then = "start"
    /\ pc \in {"drain", "restart"} => Waited

LEMMA WaitInit == Init => WaitInv
BY TypeInit DEF Init, WaitInv

(* The steps that leave the place of the run and what is known down alone, *)
(* but for nodes that join.                                                *)
LEMMA WaitKept ==
    ASSUME WaitInv, TypeInv', NEW S, knownDown' = knownDown \ S, unseen' = unseen \ S,
           UNCHANGED <<pc, plan, cur, resuming, found>>,
           \A n \in knownDown' : state'[n] # "up"
    PROVE  WaitInv'
<1>1. Host' = Host /\ Serial' = Serial
  BY DEF Host, Serial, Batch, Todo
<1>2. Waited => Waited'
  BY <1>1 DEF Waited
<1> QED BY <1>1, <1>2 DEF WaitInv

LEMMA WaitStep == WaitInv /\ [Next]_vars => WaitInv'
<1> SUFFICES ASSUME WaitInv, [Next]_vars PROVE WaitInv'
  OBVIOUS
<1>0. TypeInv /\ TypeInv'
  BY TypeStep DEF WaitInv
<1>1. ASSUME NEW limit \in Limits, NEW resume \in BOOLEAN, StartRun(limit, resume)
      PROVE  WaitInv'
  BY <1>0, <1>1 DEF StartRun, WaitInv
<1>2. CASE Plan \/ Progress \/ BeginBatch \/ CheckBatchBefore \/ CheckBatchAfter
  BY <1>0, <1>2 DEF Plan, Progress, BeginBatch, CheckBatchBefore, CheckBatchAfter,
     nodes, history, WaitInv
<1>3. ASSUME NEW h \in left, BatchWrite(h) \/ BatchRecord(h) PROVE WaitInv'
  BY <1>0, <1>3 DEF BatchWrite, BatchRecord, nodes, history, WaitInv
<1>4. CASE Skip \/ Record
  BY <1>0, <1>4 DEF Skip, Record, nodes, history, WaitInv
<1>5. CASE Begin
  <2>1. \A n \in knownDown' : state'[n] # "up"
    BY <1>5 DEF Begin, nodes
  <2>2. Host' \in Serial'
    BY <1>5 DEF Begin, run, Host, Serial, Batch, Todo
  <2>3. pc' = "before"
    BY <1>5 DEF Begin
  <2>4. ~resuming' /\ Host' \in found' => plan'[Host'].then = "start"
    BY <1>5 DEF Begin, run, Host, MayBeDown, Candidate, Serial, Batch
  <2> QED BY <1>0, <2>1, <2>2, <2>3, <2>4 DEF WaitInv
<1>6. CASE CheckBefore
  <2>1. /\ pc = "before" /\ pc' = IF plan[Host].then = "start" THEN "clear" ELSE "write"
        /\ UNCHANGED <<state, plan, cur, resuming, knownDown>>
        /\ unseen' = IF Blind THEN knownDown \ {Host} ELSE {}
        /\ SerialFindings(Host, Host \in found) = {}
    BY <1>6 DEF CheckBefore, nodes, run
  <2>2. cur \in 1 .. N /\ Host \in Nodes /\ Host' = Host /\ TypeOK
    BY <1>0, <2>1, HostInNodes DEF TypeInv, OnHost, Host
  <2>3. plan[Host].then = "start" \/ plan[Host].then = "restart"
    <3>1. /\ plan[Host].then \in Outcomes \cup {"out"}
          /\ plan[Host].then \notin {"none", "write", "out"}
      BY <2>1, <2>2, <1>0 DEF WaitInv, TypeInv, TypeOK, Serial, Batch, Todo
    <3> QED BY <3>1 DEF Outcomes
  <2>4. ASSUME plan[Host].then = "restart" PROVE Waited'
    <3>1. PICK down \in BOOLEAN : down <=> Host \in found
      OBVIOUS
    <3>2. down = (Host \in found)
      BY <3>1
    <3> DEFINE ok == AllDownOk(Host, down)
               p  == Peer(Host, ok)
    <3>3. ok = IF down THEN {Host} ELSE {}
      BY <2>4, RestartLets
    <3>4. SerialFindings(Host, down) = {}
      BY <2>1, <3>2
    <3>5. /\ state[p] = "drained" => DrainedShowsItselfUp
          /\ ~down \/ state[p] # "drained" => \A n \in Nodes \ ok : state[n] = "up"
      BY <2>2, <3>4, CheckShows
    <3>6. Blind => down /\ state[p] = "drained"
      BY <3>1 DEF Blind
    <3>7. down /\ state[p] = "drained" => Blind
      BY <3>1 DEF Blind
    <3> HIDE DEF ok, p
    <3>8. down => resuming
      BY <2>1, <2>4, <3>1 DEF WaitInv
    <3>9. CASE Blind
      <4>1. unseen' = knownDown \ {Host} /\ resuming /\ DrainedShowsItselfUp
        BY <2>1, <3>5, <3>6, <3>8, <3>9
      <4> QED BY <2>1, <2>2, <4>1 DEF Waited
    <3>10. CASE ~Blind
      <4>1. \A n \in Nodes \ {Host} : state[n] = "up"
        BY <3>3, <3>5, <3>7, <3>10
      <4>2. knownDown \subseteq {Host}
        BY <2>2, <4>1 DEF WaitInv, TypeOK
      <4>3. unseen' = {}
        BY <2>1, <3>10
      <4> QED BY <2>1, <2>2, <4>2, <4>3 DEF Waited
    <3> QED BY <3>9, <3>10
  <2>5. \A n \in knownDown' : state'[n] # "up"
    BY <2>1 DEF WaitInv
  <2> QED BY <1>0, <2>1, <2>2, <2>3, <2>4, <2>5 DEF WaitInv
<1>7. CASE ClearUnit
  <2>1. \A n \in knownDown' : state'[n] # "up"
    BY <1>7, <1>0 DEF ClearUnit, Becomes, Move, history, WaitInv, TypeInv, TypeOK
  <2>2. pc = "clear" /\ pc' = "write" /\ UNCHANGED <<plan, cur>>
    BY <1>7 DEF ClearUnit, Move, run
  <2>3. Host' = Host
    BY <2>2 DEF Host
  <2> QED BY <1>0, <2>1, <2>2, <2>3 DEF WaitInv
<1>8. CASE Write
  <2>1. /\ pc = "write" /\ pc' = IF plan[Host].then = "start" THEN "start" ELSE "drain"
        /\ UNCHANGED <<state, plan, cur, resuming, knownDown, unseen>>
    BY <1>8 DEF Write, Move, run, history
  <2>2. Host' = Host /\ (Waited => Waited')
    BY <2>1 DEF Host, Waited
  <2> QED BY <1>0, <2>1, <2>2 DEF WaitInv
<1>9. CASE Drain
  <2>1. pc = "drain" /\ pc' = "restart" /\ UNCHANGED <<plan, cur, resuming, knownDown, unseen>>
    BY <1>9 DEF Drain, Move, run, history
  <2>2. Host' = Host /\ Waited'
    BY <2>1 DEF Host, Waited, WaitInv
  <2>3. \A n \in knownDown' : state'[n] # "up"
    BY <1>9, <1>0, <2>1 DEF Drain, WaitInv, TypeInv, TypeOK
  <2> QED BY <1>0, <2>1, <2>2, <2>3 DEF WaitInv
<1>10. CASE Restart \/ Start
  <2>1. \A n \in knownDown' : state'[n] # "up"
    BY <1>10, <1>0 DEF Restart, Start, JvmStarts, Becomes, Move, history, WaitInv, TypeInv, TypeOK
  <2>2. pc' \in {"wait", "wait_running"}
    BY <1>10 DEF Restart, Start, Move
  <2> QED BY <1>0, <2>1, <2>2 DEF WaitInv
<1>11. CASE WaitNormal \/ CheckAfter
  BY <1>0, <1>11 DEF WaitNormal, CheckAfter, Move, nodes, history, WaitInv
<1>12. CASE CameUp \/ DrainNoAnswer \/ GaveUp \/ Unhealthy \/ EndRun \/ Interrupt
  BY <1>0, <1>12 DEF CameUp, DrainNoAnswer, GaveUp, Unhealthy, EndRun, Interrupt,
     StopRun, nodes, history, WaitInv
<1>13. ASSUME NEW n \in Nodes, Crash(n) \/ StoppedByHand(n) \/ StartedOtherwise(n)
       PROVE  WaitInv'
  <2>1. \A m \in knownDown : state'[m] # "up"
    BY <1>0, <1>13 DEF Crash, StoppedByHand, StartedOtherwise, JvmStarts, Becomes,
       WaitInv, TypeInv, TypeOK
  <2>2. UNCHANGED <<pc, plan, cur, resuming, found, knownDown, unseen>>
    BY <1>13 DEF Crash, StoppedByHand, StartedOtherwise, run
  <2>3. knownDown' = knownDown \ {} /\ unseen' = unseen \ {}
    BY <2>2
  <2> QED BY <1>0, <2>1, <2>2, <2>3, WaitKept
<1>14. ASSUME NEW n \in Nodes, Joined(n) PROVE WaitInv'
  <2>1. \A m \in knownDown' : state'[m] # "up"
    BY <1>0, <1>14 DEF Joined, Becomes, WaitInv, TypeInv, TypeOK
  <2>2. /\ knownDown' = knownDown \ {n} /\ unseen' = unseen \ {n}
        /\ UNCHANGED <<pc, plan, cur, resuming, found>>
    BY <1>14 DEF Joined, run
  <2> QED BY <1>0, <2>1, <2>2, WaitKept
<1>15. CASE UNCHANGED vars
  <2>1. UNCHANGED <<state, pc, plan, cur, resuming, found, knownDown, unseen>>
    BY <1>15 DEF vars
  <2>2. knownDown' = knownDown \ {} /\ unseen' = unseen \ {}
    BY <2>1
  <2>3. \A m \in knownDown' : state'[m] # "up"
    BY <2>1 DEF WaitInv
  <2> QED BY <1>0, <2>1, <2>2, <2>3, WaitKept
<1> QED
  BY <1>1, <1>2, <1>3, <1>4, <1>5, <1>6, <1>7, <1>8, <1>9, <1>10, <1>11, <1>12,
     <1>13, <1>14, <1>15 DEF Next, Step, Environment

(* Whatever stopped the earlier runs, and whatever nodes the run expects   *)
(* down, no node is drained or restarted while another one, down before its*)
(* check began, still is: but for those the check of a node found stopped  *)
(* or drained could not show, as the only other one asked is drained.      *)
THEOREM RestartWaitsForAll == Spec => []RestartWaits
<1>1. Spec => []WaitInv
  BY WaitInit, WaitStep, PTL DEF Spec
<1>2. WaitInv => RestartWaits
  BY DEF WaitInv, Waited, RestartWaits
<1> QED BY <1>1, <1>2, PTL

(* Nothing is exempted of a run that is not resumed, nor when a drained    *)
(* node shows itself in a state of its own: no node is drained or restarted*)
(* while another one, down before its check began, still is.               *)
THEOREM RestartWaitsUnexempted ==
    Spec => [](pc \in {"drain", "restart"} /\ (~resuming \/ ~DrainedShowsItselfUp)
                  => knownDown \subseteq {Host})
<1>1. Spec => []WaitInv
  BY WaitInit, WaitStep, PTL DEF Spec
<1>2. WaitInv => (pc \in {"drain", "restart"} /\ (~resuming \/ ~DrainedShowsItselfUp)
                     => knownDown \subseteq {Host})
  BY DEF WaitInv, Waited
<1> QED BY <1>1, <1>2, PTL

-----------------------------------------------------------------------------
(* A node stopped on purpose stays stopped.                                *)

(* While nothing but the run changed the nodes, a node found stopped when a*)
(* new run began is still, is not planned for a start, and only the planned*)
(* are started.                                                            *)
StoppedInv ==
    /\ WaitInv
    /\ pc = "plan" /\ ~surprised =>
          \A n \in Nodes : atStart[n] = "stopped" => state[n] = "stopped"
    /\ ~resuming /\ ~surprised =>
          \A n \in Nodes : plan[n].then = "start" => atStart[n] # "stopped"

LEMMA StoppedInit == Init => StoppedInv
BY WaitInit DEF Init, StoppedInv, NotPlanned

LEMMA StoppedStep == StoppedInv /\ [Next]_vars => StoppedInv'
<1> SUFFICES ASSUME StoppedInv, [Next]_vars PROVE StoppedInv'
  OBVIOUS
<1>0. WaitInv /\ WaitInv' /\ TypeOK
  BY WaitStep DEF StoppedInv, WaitInv, TypeInv
<1>1. ASSUME NEW limit \in Limits, NEW resume \in BOOLEAN, StartRun(limit, resume)
      PROVE  StoppedInv'
  BY <1>0, <1>1 DEF StartRun, StoppedInv, nodes, NotPlanned
<1>2. CASE Plan
  <2>1. SUFFICES ASSUME ~resuming, ~surprised, NEW n \in Nodes,
                        plan'[n].then = "start", atStart[n] = "stopped"
                 PROVE  FALSE
    BY <1>0, <1>2 DEF Plan, StoppedInv, history
  <2>2. state[n] = "stopped"
    BY <1>2, <2>1 DEF Plan, StoppedInv
  <2>3. Then(n) = "write"
    BY <2>1, <2>2 DEF Then, Running, HasJvm, UnitFailed, Pending
  <2>4. plan'[n].then \in {"write", "out"}
    BY <1>2, <2>3, NeedsTyped DEF Plan, NotPlanned
  <2> QED BY <2>1, <2>4
<1>3. CASE Progress
  BY <1>0, <1>3 DEF Progress, StoppedInv
<1>4. CASE BeginBatch \/ CheckBatchBefore \/ CheckBatchAfter
  BY <1>0, <1>4 DEF BeginBatch, CheckBatchBefore, CheckBatchAfter, run, history, StoppedInv
<1>5. ASSUME NEW h \in left, BatchWrite(h) \/ BatchRecord(h) PROVE StoppedInv'
  BY <1>0, <1>5 DEF BatchWrite, BatchRecord, run, history, StoppedInv
<1>6. CASE Skip \/ Begin \/ Record
  BY <1>0, <1>6 DEF Skip, Begin, Record, run, history, StoppedInv
<1>7. CASE CheckBefore \/ ClearUnit \/ Write \/ Drain
  BY <1>0, <1>7 DEF CheckBefore, ClearUnit, Write, Drain, Move, run, history, StoppedInv
<1>8. CASE Restart \/ Start \/ WaitNormal \/ CheckAfter
  BY <1>0, <1>8 DEF Restart, Start, WaitNormal, CheckAfter, Move, run, history, StoppedInv
<1>9. CASE CameUp \/ DrainNoAnswer \/ GaveUp \/ Unhealthy \/ EndRun \/ Interrupt
  BY <1>0, <1>9 DEF CameUp, DrainNoAnswer, GaveUp, Unhealthy, EndRun, Interrupt,
     StopRun, run, history, StoppedInv
<1>10. ASSUME NEW n \in Nodes, Crash(n) \/ StoppedByHand(n) \/ StartedOtherwise(n)
       PROVE  StoppedInv'
  BY <1>0, <1>10 DEF Crash, StoppedByHand, StartedOtherwise, run, StoppedInv
<1>11. ASSUME NEW n \in Nodes, Joined(n) PROVE StoppedInv'
  BY <1>0, <1>11 DEF Joined, Becomes, run, StoppedInv, TypeOK
<1>12. CASE UNCHANGED vars
  BY <1>0, <1>12 DEF vars, StoppedInv
<1> QED
  BY <1>1, <1>2, <1>3, <1>4, <1>5, <1>6, <1>7, <1>8, <1>9, <1>10, <1>11, <1>12
     DEF Next, Step, Environment

(* A run that is not resumed never starts a node that was stopped when the *)
(* run began, unless somebody else changed a node under it.                *)
THEOREM LeftStopped == Spec => StaysStopped
<1>1. Spec => []StoppedInv
  BY StoppedInit, StoppedStep, PTL DEF Spec
<1>2. StoppedInv /\ [Next]_vars =>
          [Start => atStart[Host] # "stopped" \/ resuming \/ surprised]_vars
  <2>1. SUFFICES ASSUME StoppedInv, Start, ~resuming, ~surprised
                 PROVE  atStart[Host] # "stopped"
    OBVIOUS
  <2>2. pc = "start"
    BY <2>1 DEF Start
  <2>3. Host \in Nodes /\ plan[Host].then = "start"
    BY <2>1, <2>2, HostInNodes DEF StoppedInv, WaitInv, TypeInv, OnHost
  <2> QED BY <2>1, <2>3 DEF StoppedInv
<1> QED BY <1>1, <1>2, PTL DEF Spec, StaysStopped

-----------------------------------------------------------------------------
(* A run that ends has applied the config.                                 *)

(* A node's JVM, if it has one, runs with the inventory's content.         *)
Read(n) == state[n] \in HasJvm => loaded[n]

Applied(n) == disk[n] = "inventory" /\ Read(n)

(* Applied, or started by hand under a run.                                *)
AppliedOrByHand(n) == Applied(n) \/ n \in byHand

(* Files of a former content were not loaded as the inventory's, and the   *)
(* record of a start says what was loaded.                                 *)
RecordFacts ==
    \A n \in Nodes : /\ loaded[n] => disk[n] # "former"
                     /\ rec[n] => loaded[n]

(* What the progress file lists, now or of an earlier run, is applied.     *)
FileFacts == \A n \in file : AppliedOrByHand(n)

(* What a plan says of a node stays true: one not to do is applied, one to *)
(* write in place has loaded the config, one not running when planned has  *)
(* not loaded another since, but by hand.                                  *)
PlanFacts ==
    pc \notin {"idle", "plan"} =>
        \A n \in hosts :
            /\ ~plan[n].todo => Applied(n)
            /\ plan[n].then = "none" => loaded[n]
            /\ plan[n].then \in {"write", "start"} => Read(n) \/ n \in byHand

BatchPhases == {"batch_before", "batch_write", "batch_after", "batch_record"}
PlayPhases == {"play"} \cup OnHost

(* The nodes written at once, up to their lines of the progress file.      *)
BatchFacts ==
    /\ pc \in {"plan", "progress", "batch"} \cup BatchPhases => cur = 1
    /\ pc \in {"batch"} \cup BatchPhases \cup PlayPhases => done \subseteq file
    /\ pc \in BatchPhases => left \subseteq Batch \ done
    /\ pc \in {"batch_before", "batch_after"} => left = Batch \ done
    /\ pc = "batch_write" => \A n \in (Batch \ done) \ left : disk[n] = "inventory"
    /\ pc \in {"batch_after", "batch_record"} => \A n \in Batch \ done : disk[n] = "inventory"
    /\ pc = "batch_record" => Batch \subseteq file \cup left

(* The nodes the serial play went past are in the progress file, the one it*)
(* is at has the files and, once started, runs with them.                  *)
PlayFacts ==
    /\ pc \in PlayPhases => /\ Batch \subseteq file
                            /\ \A i \in 1 .. cur - 1 : Order[i] \in Serial => Order[i] \in file
    /\ pc \in OnHost => Host \in Serial
    /\ pc \in OnHost \ {"before", "clear", "write"} => disk[Host] = "inventory"
    /\ pc = "wait" => loaded[Host]
    /\ pc \in {"wait_running", "after", "record"} => AppliedOrByHand(Host)

AppliedInv == WaitInv /\ RecordFacts /\ FileFacts /\ PlanFacts /\ BatchFacts /\ PlayFacts

LEMMA AppliedInit == Init => AppliedInv
<1> SUFFICES ASSUME Init PROVE AppliedInv
  OBVIOUS
<1>1. RecordFacts
  <2>1. PICK k \in [Nodes -> Conditions] :
            /\ disk = [n \in Nodes |-> k[n].disk]
            /\ loaded = [n \in Nodes |-> k[n].loaded]
    BY DEF Init
  <2>2. \A n \in Nodes : k[n].disk = "former" => ~k[n].loaded
    BY ConditionsAssumption
  <2> QED BY <2>1, <2>2 DEF Init, RecordFacts
<1>2. FileFacts /\ pc = "idle"
  BY DEF Init, FileFacts
<1> QED
  BY <1>1, <1>2, WaitInit DEF AppliedInv, PlanFacts, BatchFacts, PlayFacts, BatchPhases,
     PlayPhases, OnHost

(* What no step undoes.                                                    *)
Onward ==
    \A n \in Nodes : /\ disk[n] = "inventory" => disk'[n] = "inventory"
                     /\ loaded[n] => loaded'[n]
                     /\ Applied(n) => Applied(n)'
                     /\ Read(n) \/ n \in byHand => Read(n)' \/ n \in byHand'
                     /\ AppliedOrByHand(n) => AppliedOrByHand(n)'

LEMMA NothingTouched ==
    ASSUME RecordFacts, UNCHANGED nodes, byHand \subseteq byHand'
    PROVE  RecordFacts' /\ Onward
BY DEF RecordFacts, Onward, Applied, Read, AppliedOrByHand, nodes

(* A node that stops, drains or joins.                                     *)
LEMMA OnlyStates ==
    ASSUME RecordFacts, UNCHANGED <<disk, loaded, rec>>, byHand \subseteq byHand',
           \A n \in Nodes : state'[n] \in HasJvm => state[n] \in HasJvm
    PROVE  RecordFacts' /\ Onward
BY DEF RecordFacts, Onward, Applied, Read, AppliedOrByHand

LEMMA FilesWritten ==
    ASSUME TypeOK, RecordFacts, NEW h \in Nodes, WriteFiles(h),
           UNCHANGED <<state, loaded, rec, byHand>>
    PROVE  RecordFacts' /\ Onward /\ disk'[h] = "inventory"
BY DEF TypeOK, RecordFacts, Onward, Applied, Read, AppliedOrByHand, WriteFiles

(* A start reads the files there are; by hand when they may be others.     *)
LEMMA JvmStarted ==
    ASSUME TypeOK, RecordFacts, NEW h \in Nodes, JvmStarts(h), UNCHANGED <<disk, rec>>,
           byHand \subseteq byHand', disk[h] = "inventory" \/ h \in byHand'
    PROVE  /\ RecordFacts' /\ Onward
           /\ disk[h] = "inventory" => loaded'[h]
<1>1. loaded'[h] = (disk[h] # "former") /\ \A n \in Nodes \ {h} : loaded'[n] = loaded[n]
  BY DEF TypeOK, JvmStarts, Becomes
<1>2. state'[h] = "starting" /\ \A n \in Nodes \ {h} : state'[n] = state[n]
  BY DEF TypeOK, JvmStarts, Becomes
<1>3. RecordFacts'
  BY <1>1 DEF RecordFacts, TypeOK
<1>4. ASSUME NEW n \in Nodes
      PROVE  /\ disk[n] = "inventory" => disk'[n] = "inventory"
             /\ loaded[n] => loaded'[n]
             /\ Applied(n) => Applied(n)'
             /\ Read(n) \/ n \in byHand => Read(n)' \/ n \in byHand'
             /\ AppliedOrByHand(n) => AppliedOrByHand(n)'
  <2>1. CASE n = h
    BY <1>1, <1>2, <2>1 DEF RecordFacts, Applied, Read, AppliedOrByHand
  <2>2. CASE n # h
    BY <1>1, <1>2, <2>2 DEF Applied, Read, AppliedOrByHand
  <2> QED BY <2>1, <2>2
<1> QED BY <1>1, <1>3, <1>4 DEF Onward

(* Every step but the start of a progress file, which forgets the nodes    *)
(* started by hand that its plan found running.                            *)
LEMMA OnwardStep ==
    ASSUME AppliedInv, [Next]_vars, ~Progress
    PROVE  RecordFacts' /\ Onward
<1>0. TypeInv /\ TypeOK /\ RecordFacts
  BY DEF AppliedInv, WaitInv, TypeInv
<1>h. pc \in OnHost => Host \in Nodes
  BY <1>0, HostInNodes DEF TypeInv
<1>1. ASSUME NEW limit \in Limits, NEW resume \in BOOLEAN, StartRun(limit, resume)
      PROVE  RecordFacts' /\ Onward
  BY <1>0, <1>1, NothingTouched DEF StartRun
<1>2. CASE Plan \/ BeginBatch \/ CheckBatchBefore \/ CheckBatchAfter \/ Skip \/ Record
  BY <1>0, <1>2, NothingTouched DEF Plan, BeginBatch, CheckBatchBefore, CheckBatchAfter,
     Skip, Record, history
<1>3. CASE Begin \/ CheckBefore \/ CheckAfter
  BY <1>0, <1>3, NothingTouched DEF Begin, CheckBefore, CheckAfter, Move, history
<1>4. ASSUME NEW h \in left, BatchWrite(h) PROVE RecordFacts' /\ Onward
  <2>1. h \in Nodes /\ UNCHANGED <<state, loaded, rec, byHand>> /\ WriteFiles(h)
    BY <1>0, <1>4 DEF BatchWrite, history, TypeOK
  <2> QED BY <1>0, <2>1, FilesWritten
<1>5. ASSUME NEW h \in left, BatchRecord(h) PROVE RecordFacts' /\ Onward
  BY <1>0, <1>5, NothingTouched DEF BatchRecord, history
<1>6. CASE ClearUnit
  <2>1. UNCHANGED <<disk, loaded, rec, byHand>> /\ Host \in Nodes
    BY <1>h, <1>6 DEF ClearUnit, Move, history, OnHost
  <2>2. \A n \in Nodes : state'[n] \in HasJvm => state[n] \in HasJvm
    BY <1>0, <1>6, <2>1 DEF ClearUnit, Becomes, TypeOK, HasJvm
  <2> QED BY <1>0, <2>1, <2>2, OnlyStates
<1>7. CASE Write
  <2>1. UNCHANGED <<state, loaded, rec, byHand>> /\ Host \in Nodes /\ WriteFiles(Host)
    BY <1>h, <1>7 DEF Write, Move, history, OnHost
  <2> QED BY <1>0, <2>1, FilesWritten
<1>8. CASE Drain
  <2>1. UNCHANGED <<disk, loaded, rec, byHand>> /\ Host \in Nodes
    BY <1>h, <1>8 DEF Drain, Move, history, OnHost
  <2>2. \A n \in Nodes : state'[n] \in HasJvm => state[n] \in HasJvm
    BY <1>0, <1>8, <2>1 DEF Drain, TypeOK, HasJvm
  <2> QED BY <1>0, <2>1, <2>2, OnlyStates
<1>9. CASE Restart
  <2>1. /\ UNCHANGED <<disk, rec, byHand>> /\ Host \in Nodes /\ JvmStarts(Host)
        /\ disk[Host] = "inventory"
    BY <1>h, <1>9 DEF Restart, Move, history, OnHost, AppliedInv, PlayFacts
  <2> QED BY <1>0, <2>1, JvmStarted
<1>10. CASE Start
  <2>1. CASE state[Host] \in HasJvm
    BY <1>0, <1>10, <2>1, NothingTouched DEF Start, Move, history, nodes
  <2>2. CASE state[Host] \notin HasJvm
    <3>1. /\ UNCHANGED <<disk, rec, byHand>> /\ Host \in Nodes /\ JvmStarts(Host)
          /\ disk[Host] = "inventory"
      BY <1>h, <1>10, <2>2 DEF Start, Move, history, OnHost, AppliedInv, PlayFacts
    <3> QED BY <1>0, <3>1, JvmStarted
  <2> QED BY <2>1, <2>2
<1>11. CASE WaitNormal
  <2>1. UNCHANGED <<state, disk, loaded, byHand>>
    BY <1>11 DEF WaitNormal, Move, history
  <2>2. \A n \in Nodes : rec'[n] => rec[n] \/ (pc = "wait" /\ n = Host)
    BY <1>0, <1>11 DEF WaitNormal, TypeOK
  <2>3. pc = "wait" => loaded[Host]
    BY DEF AppliedInv, PlayFacts
  <2>4. RecordFacts'
    BY <1>0, <2>1, <2>2, <2>3 DEF RecordFacts
  <2>5. Onward
    BY <2>1 DEF Onward, Applied, Read, AppliedOrByHand
  <2> QED BY <2>4, <2>5
<1>12. CASE CameUp \/ DrainNoAnswer \/ GaveUp \/ Unhealthy \/ EndRun \/ Interrupt
  BY <1>0, <1>12, NothingTouched DEF CameUp, DrainNoAnswer, GaveUp, Unhealthy, EndRun,
     Interrupt, StopRun, history
<1>13. ASSUME NEW n \in Nodes, Crash(n) \/ StoppedByHand(n) \/ Joined(n)
       PROVE  RecordFacts' /\ Onward
  <2>1. UNCHANGED <<disk, loaded, rec, byHand>>
    BY <1>13 DEF Crash, StoppedByHand, Joined
  <2>2. \A m \in Nodes : state'[m] \in HasJvm => state[m] \in HasJvm
    BY <1>0, <1>13 DEF Crash, StoppedByHand, Joined, Becomes, TypeOK, HasJvm
  <2> QED BY <1>0, <2>1, <2>2, OnlyStates
<1>14. ASSUME NEW n \in Nodes, StartedOtherwise(n) PROVE RecordFacts' /\ Onward
  <2>1. UNCHANGED <<disk, rec>> /\ JvmStarts(n) /\ byHand' = byHand \cup {n}
    BY <1>14 DEF StartedOtherwise
  <2> QED BY <1>0, <2>1, JvmStarted
<1>15. CASE UNCHANGED vars
  BY <1>0, <1>15, NothingTouched DEF vars, nodes
<1> QED
  BY <1>1, <1>2, <1>3, <1>4, <1>5, <1>6, <1>7, <1>8, <1>9, <1>10, <1>11, <1>12,
     <1>13, <1>14, <1>15 DEF Next, Step, Environment

(* Where a run that goes on went, and what it keeps of its plan.           *)
LEMMA RunGoesOn ==
    ASSUME AppliedInv, [Next]_vars, pc' \notin {"idle", "plan"}
    PROVE  \/ Plan
           \/ /\ pc \notin {"idle", "plan"}
              /\ UNCHANGED <<hosts, plan, resuming>>
              /\ Progress \/ UNCHANGED done
<1>1. CASE \E limit \in Limits, resume \in BOOLEAN : StartRun(limit, resume)
  BY <1>1 DEF StartRun
<1>2. CASE Plan \/ Progress
  BY <1>2 DEF Progress
<1>3. CASE \/ BeginBatch \/ CheckBatchBefore \/ CheckBatchAfter
           \/ \E h \in left : BatchWrite(h) \/ BatchRecord(h)
           \/ Skip \/ Begin \/ Record
  BY <1>3 DEF BeginBatch, CheckBatchBefore, CheckBatchAfter, BatchWrite, BatchRecord,
     Skip, Begin, Record, run
<1>4. CASE CheckBefore \/ ClearUnit \/ Write \/ Drain
  BY <1>4 DEF CheckBefore, ClearUnit, Write, Drain, Move, run
<1>5. CASE Restart \/ Start \/ WaitNormal \/ CheckAfter
  BY <1>5 DEF Restart, Start, WaitNormal, CheckAfter, Move, run
<1>6. CASE CameUp \/ DrainNoAnswer \/ GaveUp \/ Unhealthy \/ EndRun \/ Interrupt
  BY <1>6 DEF CameUp, DrainNoAnswer, GaveUp, Unhealthy, EndRun, Interrupt, StopRun
<1>7. CASE Environment
  BY <1>7 DEF Environment, Crash, StoppedByHand, StartedOtherwise, Joined, run
<1>8. CASE UNCHANGED vars
  BY <1>8 DEF vars
<1> QED
  BY <1>1, <1>2, <1>3, <1>4, <1>5, <1>6, <1>7, <1>8 DEF Next, Step

LEMMA PlanRead ==
    ASSUME AppliedInv, Plan, NEW n \in hosts
    PROVE  /\ ~plan'[n].todo => Applied(n)
           /\ plan'[n].then = "none" => loaded[n]
           /\ plan'[n].then \in {"write", "start"} => Read(n)
<1>1. n \in Nodes /\ TypeOK /\ RecordFacts
  BY DEF AppliedInv, WaitInv, TypeInv, TypeOK
<1>2. plan'[n].then = Then(n) /\ (plan'[n].todo <=> disk[n] # "inventory" \/ Pending(n))
  <2>1. plan'[n] = Needs(n)
    BY <1>1 DEF Plan
  <2>2. Needs(n).todo = (disk[n] # "inventory" \/ Pending(n))
    BY Zenon DEF Needs
  <2>3. Needs(n).then = Then(n)
    BY Zenon DEF Needs
  <2> QED BY <2>1, <2>2, <2>3
<1>3. CASE Running(n)
  <2>1. Then(n) \in {"restart", "none"}
    BY <1>3 DEF Then
  <2>2. disk[n] # "former" /\ ~Pending(n) => loaded[n]
    BY <1>1, <1>3 DEF Pending, RestartPending, RecordFacts, TypeOK
  <2>3. Then(n) = "none" => loaded[n]
    BY <1>3, <2>2 DEF Then
  <2> QED BY <1>2, <2>1, <2>2, <2>3 DEF Applied, Read
<1>4. CASE ~Running(n)
  <2>1. Read(n) /\ Then(n) # "none"
    BY <1>4 DEF Running, Read, Then
  <2> QED BY <1>2, <2>1 DEF Applied
<1> QED BY <1>3, <1>4

LEMMA PlanFactsStep == ASSUME AppliedInv, [Next]_vars PROVE PlanFacts'
<1> SUFFICES ASSUME pc' \notin {"idle", "plan"}, NEW n \in hosts'
             PROVE  /\ ~plan'[n].todo => Applied(n)'
                    /\ plan'[n].then = "none" => loaded'[n]
                    /\ plan'[n].then \in {"write", "start"} => Read(n)' \/ n \in byHand'
  BY DEF PlanFacts
<1>1. CASE Plan
  <2>1. UNCHANGED <<state, disk, loaded>> /\ n \in hosts
    BY <1>1 DEF Plan, nodes
  <2> QED BY <1>1, <2>1, PlanRead DEF Applied, Read
<1>2. CASE ~Plan
  <2>1. /\ n \in hosts /\ n \in Nodes /\ plan' = plan
        /\ ~plan[n].todo => Applied(n)
        /\ plan[n].then = "none" => loaded[n]
        /\ plan[n].then \in {"write", "start"} => Read(n) \/ n \in byHand
    BY <1>2, RunGoesOn DEF AppliedInv, PlanFacts, WaitInv, TypeInv, TypeOK
  <2>2. CASE Progress
    <3>1. /\ UNCHANGED <<state, disk, loaded>>
          /\ plan[n].then \in {"write", "start"} /\ n \in byHand => n \in byHand'
      BY <2>2 DEF Progress, nodes
    <3> QED BY <2>1, <3>1 DEF Applied, Read
  <2>3. CASE ~Progress
    <3>1. Onward
      BY <2>3, OnwardStep
    <3> QED BY <2>1, <3>1 DEF Onward
  <2> QED BY <2>2, <2>3
<1> QED BY <1>1, <1>2

LEMMA FileFactsStep == ASSUME AppliedInv, [Next]_vars PROVE FileFacts'
<1>0. TypeInv /\ FileFacts /\ PlanFacts /\ BatchFacts /\ PlayFacts
  BY DEF AppliedInv, WaitInv
<1>1. CASE Progress
  <2>1. UNCHANGED nodes /\ (file' = {} \/ (file' = file /\ byHand' = byHand))
    BY <1>1 DEF Progress
  <2> QED BY <1>0, <2>1 DEF FileFacts, AppliedOrByHand, Applied, Read, nodes
<1>2. CASE ~Progress
  <2>1. \A n \in Nodes : AppliedOrByHand(n) => AppliedOrByHand(n)'
    BY <1>2, OnwardStep DEF Onward
  <2>2. SUFFICES ASSUME NEW n \in file', n \notin file PROVE AppliedOrByHand(n) /\ n \in Nodes
    BY <1>0, <2>1 DEF FileFacts, TypeInv, TypeOK
  <2>3. CASE \E h \in left : BatchRecord(h)
    <3>1. pc = "batch_record" /\ n \in left
      BY <2>2, <2>3 DEF BatchRecord
    <3>2. n \in Batch /\ n \in hosts /\ n \in Nodes /\ disk[n] = "inventory"
      BY <1>0, <3>1 DEF BatchFacts, BatchPhases, TypeInv, TypeOK
    <3>3. plan[n].then \in {"none", "write"}
      BY <3>2 DEF Batch
    <3>4. Read(n) \/ n \in byHand
      BY <1>0, <3>1, <3>2, <3>3 DEF PlanFacts, Read
    <3> QED BY <3>2, <3>4 DEF AppliedOrByHand, Applied
  <2>4. CASE Record
    <3>1. pc = "record" /\ n = Host
      BY <2>2, <2>4 DEF Record
    <3>2. Host \in Nodes
      BY <1>0, <3>1, HostInNodes DEF TypeInv, OnHost
    <3> QED BY <1>0, <3>1, <3>2 DEF PlayFacts
  <2>5. ASSUME ~Record, ~\E h \in left : BatchRecord(h) PROVE file' = file
    <3>1. CASE \E limit \in Limits, resume \in BOOLEAN : StartRun(limit, resume)
      BY <3>1 DEF StartRun, disks
    <3>2. CASE \/ Plan \/ BeginBatch \/ CheckBatchBefore \/ CheckBatchAfter
               \/ \E h \in left : BatchWrite(h)
               \/ Skip \/ Begin
      BY <3>2 DEF Plan, BeginBatch, CheckBatchBefore, CheckBatchAfter, BatchWrite, Skip,
         Begin, disks
    <3>3. CASE CheckBefore \/ ClearUnit \/ Write \/ Drain
      BY <3>3 DEF CheckBefore, ClearUnit, Write, Drain, Move, disks
    <3>4. CASE Restart \/ Start \/ WaitNormal \/ CheckAfter
      BY <3>4 DEF Restart, Start, WaitNormal, CheckAfter, Move, disks
    <3>5. CASE CameUp \/ DrainNoAnswer \/ GaveUp \/ Unhealthy \/ EndRun \/ Interrupt
      BY <3>5 DEF CameUp, DrainNoAnswer, GaveUp, Unhealthy, EndRun, Interrupt, StopRun, disks
    <3>6. CASE Environment
      BY <3>6 DEF Environment, Crash, StoppedByHand, StartedOtherwise, Joined, disks
    <3>7. CASE UNCHANGED vars
      BY <3>7 DEF vars
    <3> QED
      BY <1>2, <2>5, <3>1, <3>2, <3>3, <3>4, <3>5, <3>6, <3>7 DEF Next, Step
  <2> QED BY <2>2, <2>3, <2>4, <2>5
<1> QED BY <1>1, <1>2

(* What a run's steps leave of it once planned: its batch and its play.    *)
LEMMA SameBatch ==
    ASSUME UNCHANGED plan
    PROVE  Batch' = Batch /\ Serial' = Serial
BY DEF Batch, Serial, Todo

LEMMA BatchFactsStep == ASSUME AppliedInv, [Next]_vars PROVE BatchFacts'
<1>0. TypeInv /\ BatchFacts
  BY DEF AppliedInv, WaitInv
<1> USE DEF BatchPhases, PlayPhases, OnHost
<1>1. ASSUME NEW limit \in Limits, NEW resume \in BOOLEAN, StartRun(limit, resume)
      PROVE  BatchFacts'
  BY <1>1 DEF StartRun, BatchFacts
<1>2. CASE Plan \/ Progress
  BY <1>0, <1>2 DEF Plan, Progress, BatchFacts
<1>3. CASE BeginBatch
  BY <1>0, <1>3, SameBatch DEF BeginBatch, run, disks, BatchFacts
<1>4. CASE CheckBatchBefore \/ CheckBatchAfter
  <2>1. /\ UNCHANGED <<disk, plan, done, left, file, cur>>
        /\ \/ pc = "batch_before" /\ pc' = "batch_write"
           \/ pc = "batch_after" /\ pc' = "batch_record"
    BY <1>4 DEF CheckBatchBefore, CheckBatchAfter, nodes, run, disks
  <2> QED BY <1>0, <2>1, SameBatch DEF BatchFacts
<1>5. ASSUME NEW h \in left, BatchWrite(h) PROVE BatchFacts'
  <2>1. /\ pc = "batch_write" /\ UNCHANGED <<plan, done, file, cur>>
        /\ disk' = [disk EXCEPT ![h] = "inventory"]
    BY <1>5 DEF BatchWrite, WriteFiles, run, disks
  <2>2. Batch' = Batch /\ Batch \subseteq Nodes /\ h \in Nodes
    BY <1>0, <2>1, SameBatch DEF Batch, Todo, TypeInv, TypeOK
  <2>3. \A n \in Batch \ done : n \notin left \ {h} => disk'[n] = "inventory"
    BY <1>0, <2>1, <2>2 DEF BatchFacts, TypeInv, TypeOK
  <2>4. CASE left = {h}
    <3>1. pc' = "batch_after" /\ left' = Batch \ done
      BY <1>5, <2>4 DEF BatchWrite
    <3> QED BY <1>0, <2>1, <2>2, <2>3, <2>4, <3>1 DEF BatchFacts
  <2>5. CASE left # {h}
    <3>1. pc' = "batch_write" /\ left' = left \ {h}
      BY <1>5, <2>5 DEF BatchWrite
    <3> QED BY <1>0, <2>1, <2>2, <2>3, <3>1 DEF BatchFacts
  <2> QED BY <2>4, <2>5
<1>6. ASSUME NEW h \in left, BatchRecord(h) PROVE BatchFacts'
  <2>1. /\ pc = "batch_record" /\ UNCHANGED <<disk, plan, done, cur>>
        /\ file' = file \cup {h} /\ left' = left \ {h}
        /\ pc' \in {"play", "batch_record"}
    BY <1>6 DEF BatchRecord, nodes, run
  <2> QED BY <1>0, <2>1, SameBatch DEF BatchFacts
<1>7. CASE Skip \/ Begin \/ Record
  <2>1. /\ pc' \in PlayPhases /\ pc \in PlayPhases
        /\ UNCHANGED done /\ file \subseteq file'
    BY <1>7 DEF Skip, Begin, Record, run, disks
  <2> QED BY <1>0, <2>1 DEF BatchFacts
<1>8. CASE CheckBefore \/ ClearUnit \/ Write \/ Drain
  <2>1. pc' \in OnHost /\ pc \in OnHost /\ UNCHANGED <<done, file>>
    BY <1>8 DEF CheckBefore, ClearUnit, Write, Drain, Move, run, disks
  <2> QED BY <1>0, <2>1 DEF BatchFacts
<1>9. CASE Restart \/ Start \/ WaitNormal \/ CheckAfter
  <2>1. pc' \in OnHost /\ pc \in OnHost /\ UNCHANGED <<done, file>>
    BY <1>9 DEF Restart, Start, WaitNormal, CheckAfter, Move, run, disks
  <2> QED BY <1>0, <2>1 DEF BatchFacts
<1>10. CASE CameUp \/ DrainNoAnswer \/ GaveUp \/ Unhealthy \/ EndRun \/ Interrupt
  BY <1>10 DEF CameUp, DrainNoAnswer, GaveUp, Unhealthy, EndRun, Interrupt, StopRun, BatchFacts
<1>11. CASE Environment \/ UNCHANGED vars
  <2>1. UNCHANGED <<pc, plan, done, left, file, cur>> /\ ~Progress
    BY <1>11 DEF Environment, Crash, StoppedByHand, StartedOtherwise, Joined, run, disks,
       vars, Progress
  <2>2. Onward
    BY <2>1, OnwardStep
  <2>3. Batch' = Batch /\ Batch \subseteq Nodes
    BY <2>1, SameBatch DEF Batch, Todo
  <2> QED BY <1>0, <2>1, <2>2, <2>3 DEF BatchFacts, Onward
<1> QED
  BY <1>1, <1>2, <1>3, <1>4, <1>5, <1>6, <1>7, <1>8, <1>9, <1>10, <1>11 DEF Next, Step

LEMMA PlayFactsStep == ASSUME AppliedInv, [Next]_vars PROVE PlayFacts'
<1>0. TypeInv /\ WaitInv /\ PlanFacts /\ BatchFacts /\ PlayFacts /\ RecordFacts
  BY DEF AppliedInv, WaitInv
<1>n. N \in Nat /\ cur \in 1 .. N + 1 /\ TypeOK
  BY <1>0, OrderLength DEF TypeInv, TypeOK
<1>h. pc \in OnHost => Host \in Nodes
  BY <1>0, HostInNodes DEF TypeInv
<1>1. ASSUME NEW limit \in Limits, NEW resume \in BOOLEAN, StartRun(limit, resume)
      PROVE  PlayFacts'
  BY <1>1 DEF StartRun, PlayFacts, PlayPhases, OnHost
<1>2. CASE Plan \/ Progress \/ CheckBatchBefore \/ CheckBatchAfter
  BY <1>2 DEF Plan, Progress, CheckBatchBefore, CheckBatchAfter, PlayFacts, PlayPhases, OnHost
<1>3. CASE BeginBatch
  <2>1. /\ pc = "batch" /\ cur = 1 /\ done \subseteq file /\ UNCHANGED <<plan, file, cur>>
        /\ pc' = "play" => Batch \subseteq done
        /\ pc' \notin OnHost
    BY <1>0, <1>3 DEF BeginBatch, run, disks, BatchFacts, OnHost
  <2> QED BY <2>1, SameBatch DEF PlayFacts, PlayPhases, OnHost
<1>4. ASSUME NEW h \in left, BatchWrite(h) \/ BatchRecord(h) PROVE PlayFacts'
  <2>1. CASE BatchWrite(h)
    BY <2>1 DEF BatchWrite, PlayFacts, PlayPhases, OnHost
  <2>2. CASE BatchRecord(h)
    <3>1. /\ pc = "batch_record" /\ cur = 1 /\ UNCHANGED <<plan, cur>>
          /\ file' = file \cup {h}
          /\ pc' = "play" => left = {h}
          /\ pc' \notin OnHost /\ Batch \subseteq file \cup left
      BY <1>0, <2>2 DEF BatchRecord, run, BatchFacts, BatchPhases, OnHost
    <3> QED BY <3>1, SameBatch DEF PlayFacts, PlayPhases, OnHost
  <2> QED BY <1>4, <2>1, <2>2
<1>5. CASE Skip
  <2>1. /\ pc = "play" /\ pc' = "play" /\ cur' = cur + 1 /\ UNCHANGED <<plan, file>>
        /\ Order[cur] \in Serial => Order[cur] \in done
        /\ done \subseteq file
    BY <1>0, <1>5 DEF Skip, run, disks, Host, BatchFacts, PlayPhases
  <2>2. \A i \in 1 .. cur' - 1 : Order[i] \in Serial => Order[i] \in file
    BY <1>0, <1>n, <2>1 DEF PlayFacts, PlayPhases
  <2> QED BY <1>0, <2>1, <2>2, SameBatch DEF PlayFacts, PlayPhases, OnHost
<1>6. CASE Begin
  <2>1. pc = "play" /\ pc' = "before" /\ Host \in Serial /\ UNCHANGED <<plan, file, cur>>
    BY <1>6 DEF Begin, run, disks
  <2>2. Host' = Host /\ Serial' = Serial /\ Batch' = Batch
    BY <2>1, SameBatch DEF Host
  <2> QED BY <1>0, <2>1, <2>2 DEF PlayFacts, PlayPhases, OnHost
<1>7. CASE Record
  <2>1. /\ pc = "record" /\ pc' = "play" /\ cur' = cur + 1 /\ UNCHANGED plan
        /\ file' = file \cup {Order[cur]}
    BY <1>7 DEF Record, run, Host
  <2>2. \A i \in 1 .. cur' - 1 : Order[i] \in Serial => Order[i] \in file'
    BY <1>0, <1>n, <2>1 DEF PlayFacts, PlayPhases, OnHost
  <2> QED BY <1>0, <2>1, <2>2, SameBatch DEF PlayFacts, PlayPhases, OnHost
<1>8. ASSUME CheckBefore \/ ClearUnit \/ Write \/ Drain \/ Restart \/ Start \/ WaitNormal \/ CheckAfter
      PROVE  PlayFacts'
  <2>1. /\ pc \in OnHost /\ pc' \in OnHost /\ UNCHANGED <<plan, cur, file, byHand>> /\ ~Progress
    <3>1. CASE CheckBefore \/ ClearUnit \/ Write \/ Drain
      BY <3>1 DEF CheckBefore, ClearUnit, Write, Drain, Move, run, disks, history, OnHost, Progress
    <3>2. CASE Restart \/ Start \/ WaitNormal \/ CheckAfter
      BY <3>2 DEF Restart, Start, WaitNormal, CheckAfter, Move, run, disks, history, OnHost, Progress
    <3> QED BY <1>8, <3>1, <3>2
  <2>2. Host' = Host /\ Serial' = Serial /\ Batch' = Batch /\ Host \in Nodes
    BY <1>h, <2>1, SameBatch DEF Host
  <2>3. Onward
    BY <2>1, OnwardStep
  <2>4. pc' \in OnHost \ {"before", "clear", "write"} => disk'[Host] = "inventory"
    <3>1. CASE pc \in {"before", "clear"}
      BY <1>8, <3>1 DEF CheckBefore, ClearUnit, Write, Drain, Restart, Start, WaitNormal,
         CheckAfter, Move
    <3>2. CASE pc = "write"
      <4>1. Write
        BY <1>8, <3>2 DEF CheckBefore, ClearUnit, Write, Drain, Restart, Start, WaitNormal,
           CheckAfter, Move
      <4> QED BY <1>n, <2>2, <4>1 DEF Write, WriteFiles, TypeOK
    <3>3. CASE pc \notin {"before", "clear", "write"}
      <4>1. disk[Host] = "inventory"
        BY <1>0, <2>1, <3>3 DEF PlayFacts
      <4> QED BY <2>2, <2>3, <4>1 DEF Onward
    <3> QED BY <3>1, <3>2, <3>3
  <2>5. pc' = "wait" => loaded'[Host]
    <3>1. SUFFICES ASSUME pc' = "wait" PROVE loaded'[Host]
      OBVIOUS
    <3>2. pc \in {"restart", "start"} /\ JvmStarts(Host)
      <4>1. CASE CheckBefore \/ ClearUnit \/ Write \/ Drain \/ WaitNormal \/ CheckAfter
        BY <3>1, <4>1 DEF CheckBefore, ClearUnit, Write, Drain, WaitNormal, CheckAfter, Move
      <4>2. CASE Restart
        BY <4>2 DEF Restart, Move
      <4>3. CASE Start
        BY <3>1, <4>3 DEF Start, Move
      <4> QED BY <1>8, <4>1, <4>2, <4>3
    <3>3. disk[Host] = "inventory"
      BY <1>0, <3>2 DEF PlayFacts, OnHost
    <3> QED BY <1>n, <2>2, <3>2, <3>3 DEF JvmStarts, TypeOK
  <2>6. pc' \in {"wait_running", "after", "record"} => AppliedOrByHand(Host)'
    <3>1. SUFFICES ASSUME pc' \in {"wait_running", "after", "record"}
                   PROVE  AppliedOrByHand(Host)
      BY <2>2, <2>3 DEF Onward, AppliedOrByHand, Applied, Read
    <3>2. CASE pc' = "wait_running"
      <4>1. Start /\ pc = "start"
        BY <1>8, <3>2 DEF CheckBefore, ClearUnit, Write, Drain, Restart, Start, WaitNormal,
           CheckAfter, Move
      <4>2. plan[Host].then = "start" /\ disk[Host] = "inventory" /\ Host \in hosts
        BY <1>0, <2>2, <4>1 DEF WaitInv, PlayFacts, OnHost, TypeInv, Serial, Todo
      <4>3. Read(Host) \/ Host \in byHand
        BY <1>0, <4>1, <4>2 DEF PlanFacts
      <4> QED BY <4>2, <4>3 DEF AppliedOrByHand, Applied
    <3>3. CASE pc' = "after"
      <4>1. WaitNormal /\ pc \in {"wait", "wait_running"}
        BY <1>8, <3>3 DEF CheckBefore, ClearUnit, Write, Drain, Restart, Start, WaitNormal,
           CheckAfter, Move
      <4> QED BY <1>0, <4>1 DEF PlayFacts, OnHost, AppliedOrByHand, Applied, Read
    <3>4. CASE pc' = "record"
      <4>1. pc = "after"
        BY <1>8, <3>4 DEF CheckBefore, ClearUnit, Write, Drain, Restart, Start, WaitNormal,
           CheckAfter, Move
      <4> QED BY <1>0, <4>1 DEF PlayFacts
    <3> QED BY <3>1, <3>2, <3>3, <3>4
  <2>7. /\ Batch' \subseteq file'
        /\ \A i \in 1 .. cur' - 1 : Order[i] \in Serial' => Order[i] \in file'
        /\ Host' \in Serial'
    BY <1>0, <2>1, <2>2 DEF PlayFacts, PlayPhases
  <2> QED BY <2>1, <2>2, <2>4, <2>5, <2>6, <2>7 DEF PlayFacts
<1>9. CASE CameUp \/ DrainNoAnswer \/ GaveUp \/ Unhealthy \/ EndRun \/ Interrupt
  BY <1>9 DEF CameUp, DrainNoAnswer, GaveUp, Unhealthy, EndRun, Interrupt, StopRun,
     PlayFacts, PlayPhases, OnHost
<1>10. CASE Environment \/ UNCHANGED vars
  <2>1. UNCHANGED <<pc, plan, cur, file>> /\ ~Progress
    BY <1>10 DEF Environment, Crash, StoppedByHand, StartedOtherwise, Joined, run, disks,
       vars, Progress
  <2>2. Host' = Host /\ Serial' = Serial /\ Batch' = Batch
    BY <2>1, SameBatch DEF Host
  <2>3. Onward
    BY <2>1, OnwardStep
  <2>4. /\ pc \in OnHost /\ disk[Host] = "inventory" => disk'[Host] = "inventory"
        /\ pc \in OnHost /\ loaded[Host] => loaded'[Host]
        /\ pc \in OnHost /\ AppliedOrByHand(Host) => AppliedOrByHand(Host)'
    BY <1>h, <2>2, <2>3 DEF Onward, AppliedOrByHand, Applied, Read
  <2>5. pc \in {"wait", "wait_running", "after", "record"} => pc \in OnHost
    BY DEF OnHost
  <2> QED BY <1>0, <2>1, <2>2, <2>4, <2>5 DEF PlayFacts
<1> QED
  BY <1>1, <1>2, <1>3, <1>4, <1>5, <1>6, <1>7, <1>8, <1>9, <1>10 DEF Next, Step

LEMMA AppliedStep == AppliedInv /\ [Next]_vars => AppliedInv'
<1> SUFFICES ASSUME AppliedInv, [Next]_vars PROVE AppliedInv'
  OBVIOUS
<1>1. RecordFacts'
  <2>1. CASE Progress
    BY <2>1 DEF Progress, nodes, AppliedInv, RecordFacts
  <2> QED BY <2>1, OnwardStep
<1> QED
  BY <1>1, WaitStep, FileFactsStep, PlanFactsStep, BatchFactsStep, PlayFactsStep DEF AppliedInv

(* A run that goes to its end has applied the inventory's config to each   *)
(* of its nodes, whatever the runs before it did, were resumed or stopped  *)
(* at: the files are there, and a node that runs has read them, unless it  *)
(* was started by hand under a run.                                        *)
THEOREM AppliedWhenEnded == Spec => AppliedAtEnd
<1>1. Spec => []AppliedInv
  BY AppliedInit, AppliedStep, PTL DEF Spec
<1>2. AppliedInv /\ [Next]_vars =>
          [EndRun => \A h \in hosts \ byHand :
               disk[h] = "inventory" /\ (state[h] \in HasJvm => loaded[h])]_vars
  <2>1. SUFFICES ASSUME AppliedInv, EndRun, NEW h \in hosts, h \notin byHand
                 PROVE  Applied(h)
    BY DEF Applied, Read
  <2>2. /\ TypeInv /\ PlanFacts /\ PlayFacts /\ FileFacts /\ h \in Nodes
        /\ pc \in {"progress", "play"}
    BY <2>1 DEF AppliedInv, WaitInv, TypeInv, TypeOK, EndRun
  <2>3. CASE ~plan[h].todo
    BY <2>2, <2>3 DEF PlanFacts
  <2>4. CASE plan[h].todo
    <3>1. h \in Todo(plan)
      BY <2>2, <2>4 DEF Todo
    <3>2. pc = "play" /\ cur = N + 1
      BY <2>1, <3>1 DEF EndRun
    <3>3. CASE h \in Batch
      BY <2>1, <2>2, <3>2, <3>3 DEF PlayFacts, PlayPhases, FileFacts, AppliedOrByHand
    <3>4. CASE h \notin Batch
      <4>1. h \in Serial
        BY <3>1, <3>4 DEF Serial
      <4>2. PICK i \in 1 .. N : Order[i] = h
        BY <2>2, OrderAssumption DEF N
      <4>3. h \in file
        BY <2>2, <3>2, <4>1, <4>2, OrderLength DEF PlayFacts, PlayPhases
      <4> QED BY <2>1, <2>2, <4>3 DEF FileFacts, AppliedOrByHand
    <3> QED BY <3>3, <3>4
  <2> QED BY <2>3, <2>4
<1> QED BY <1>1, <1>2, PTL DEF Spec, AppliedAtEnd

-----------------------------------------------------------------------------
(* A run is not stopped by its own plan.                                   *)

(* Those a plan found up, and means to have up at each check.              *)
KeptUp == {"out", "none", "restart"}

(* A new run, as long as nothing but itself changes the nodes: the nodes   *)
(* its plan counts on are up, but for the one it restarts, so are the ones *)
(* it has started, and what may be down of a host is what the plan says.   *)
CountedOn ==
    /\ pc = "plan" =>
          /\ state = atStart
          /\ \A n \in Nodes : state[n] # "up" => n \in hosts /\ state[n] \notin HasJvm
          /\ \E n \in Nodes : state[n] = "up"
    /\ pc \notin {"idle", "plan"} =>
          /\ DownAtRestart(plan) = {}
          /\ \E n \in Nodes : plan[n].then \in KeptUp
          /\ \A n \in Nodes : plan[n].then \in KeptUp =>
                state[n] = "up" \/ (n = Host /\ pc \in {"restart", "wait"})
    /\ pc \in {"batch"} \cup BatchPhases \cup PlayPhases => done = {}
    /\ pc \in PlayPhases => \A i \in 1 .. cur - 1 :
          plan[Order[i]].then = "start" /\ plan[Order[i]].todo => state[Order[i]] = "up"
    /\ pc = "batch_before" => \A h \in left : h \in found <=> plan[h].then = "write"
    /\ pc = "before" => (Host \in found <=> plan[Host].then = "start")
    /\ pc \in {"after", "record"} => state[Host] = "up"

OwnInv == AppliedInv /\ (~resuming /\ ~surprised => CountedOn)

(* A check finds nothing when every node that is not up is expected down,  *)
(* the node asked answers, and so does the host itself if it is asked.     *)
LEMMA NothingFound ==
    ASSUME TypeOK, NEW h \in Nodes, NEW peer \in Nodes, NEW ok, NEW itself \in BOOLEAN,
           state[peer] = "up", itself => state[h] = "up",
           \A n \in Nodes : state[n] = "up" \/ n \in ok
    PROVE  Findings(h, peer, ok, itself) = {}
<1> DEFINE down == [NoneExpected EXCEPT !.down = ok]
<1>1. ASSUME NEW m \in Nodes, state[m] = "up"
      PROVE  ViewFindings(View(m), Cardinality(Nodes), down) = {}
  <2>1. /\ View(m).answered /\ View(m).ring = [n \in Nodes |-> Shown(m, n)]
        /\ DOMAIN View(m).ring = Nodes
    BY <1>1 DEF View
  <2>2. down.down = ok
    BY DEF NoneExpected
  <2>3. StateFindings(View(m), down) = {}
    <3>1. SUFFICES ASSUME NEW a \in Nodes, Shown(m, a) # "UN", ~Tolerated(a, Shown(m, a), down)
                   PROVE  FALSE
      BY <2>1 DEF StateFindings
    <3>2. state[a] # "up" /\ Shown(m, a) = "DN"
      BY <1>1, <3>1 DEF Shown
    <3> QED BY <2>2, <3>1, <3>2 DEF Tolerated, DownCodes
  <2>4. CountFinding(View(m), Cardinality(Nodes)) = {}
    BY <2>1 DEF CountFinding
  <2> QED BY <2>1, <2>3, <2>4 DEF ViewFindings
<1>2. itself => NodeFindings(h, Checks(h), View(h).answered) = {}
  <2>1. SUFFICES ASSUME state[h] = "up" PROVE NodeFindings(h, Checks(h), View(h).answered) = {}
    OBVIOUS
  <2>2. \A c \in DOMAIN Checks(h) : Checks(h)[c] = "ok"
    BY <2>1 DEF Checks
  <2> QED BY <2>2 DEF NodeFindings
<1> HIDE DEF down
<1>3. Findings(h, peer, ok, itself) =
        ViewFindings(View(peer), Cardinality(Nodes), down)
          \cup IF itself
               THEN ViewFindings(View(h), Cardinality(Nodes), down)
                      \cup NodeFindings(h, Checks(h), View(h).answered)
               ELSE {}
  BY DEF Findings, down
<1> QED BY <1>1, <1>2, <1>3

(* The nodes written at once: those to start or left down are expected     *)
(* down, every other is up.                                                *)
LEMMA BatchFindsNothing ==
    ASSUME TypeOK, NEW h \in Batch, NEW down \in BOOLEAN, down <=> plan[h].then = "write",
           \E n \in Nodes : plan[n].then \in KeptUp,
           \A n \in Nodes : plan[n].then \in KeptUp => state[n] = "up"
    PROVE  BatchFindings(h, down) = {}
<1> DEFINE ok == BatchDownOk(h) \cup (IF down THEN {h} ELSE {})
<1>1. h \in Nodes /\ plan[h].then \in {"none", "write"}
  BY DEF Batch, Todo
<1>2. \A n \in Nodes : n \in ok <=> plan[n].then \in {"start", "write"}
  BY <1>1 DEF BatchDownOk
<1>3. \A n \in Nodes : plan[n].then \in KeptUp <=> n \notin ok
  BY <1>2 DEF TypeOK, KeptUp, Outcomes
<1> HIDE DEF ok
<1>4. BatchPeer(h, ok) \in Nodes \ ok
  <2>1. Nodes \ ok # {}
    BY <1>3
  <2>2. FirstOf(Nodes \ ok, h) \in Nodes \ ok
    BY <2>1, FirstIsOne
  <2>3. CASE (Nodes \ ok) \ Batch = {}
    BY <2>2, <2>3 DEF BatchPeer, FirstOf
  <2>4. CASE (Nodes \ ok) \ Batch # {}
    <3>1. FirstOf((Nodes \ ok) \ Batch, FirstOf(Nodes \ ok, h)) \in (Nodes \ ok) \ Batch
      BY <2>4, FirstIsOne
    <3> QED BY <3>1 DEF BatchPeer
  <2> QED BY <2>3, <2>4
<1>5. state[BatchPeer(h, ok)] = "up"
  BY <1>3, <1>4
<1>6. ~down => state[h] = "up"
  BY <1>1 DEF KeptUp
<1>7. \A n \in Nodes : state[n] = "up" \/ n \in ok
  BY <1>3
<1>8. Findings(h, BatchPeer(h, ok), ok, ~down) = {}
  BY <1>1, <1>4, <1>5, <1>6, <1>7, NothingFound
<1> QED BY <1>8 DEF BatchFindings, ok

(* A host restarted or started: with a restart, every start came before it *)
(* and nothing is left down; with a start, what is down is expected to be. *)
LEMMA SerialFindsNothing ==
    ASSUME TypeOK, cur \in 1 .. N, Host \in Serial, NEW down \in BOOLEAN,
           down => plan[Host].then = "start", ~down => state[Host] = "up",
           DownAtRestart(plan) = {},
           \E n \in Nodes : plan[n].then \in KeptUp,
           \A n \in Nodes : plan[n].then \in KeptUp => state[n] = "up",
           \A i \in 1 .. cur - 1 :
              plan[Order[i]].then = "start" /\ plan[Order[i]].todo => state[Order[i]] = "up"
    PROVE  SerialFindings(Host, down) = {}
<1> DEFINE ok == AllDownOk(Host, down)
<1>0. ok = SerialDownOk(Host) \cup (IF down THEN {Host} ELSE {})
  BY DEF AllDownOk
<1> HIDE DEF ok
<1>1. Host \in Nodes /\ plan[Host].todo /\ N \in Nat
  BY HostInNodes, OrderLength DEF Serial, Todo
<1>2. Index(Host) = cur /\ Before(Host) = {Order[j] : j \in 1 .. cur - 1}
  BY IndexOfOrder DEF Host
<1>3. ASSUME NEW n \in Nodes, n # Host, plan[n].then = "start", plan[n].todo,
             Host \notin Before(n)
      PROVE  state[n] = "up"
  <2>1. PICK i \in 1 .. N : Order[i] = n
    BY OrderAssumption DEF N
  <2>2. i # cur /\ ~(cur < i)
    BY <1>1, <1>3, <2>1, IndexOfOrder DEF Host
  <2> QED BY <1>1, <1>3, <2>1, <2>2
<1>4. ASSUME NEW n \in Nodes PROVE state[n] = "up" \/ n \in ok
  <2>1. CASE plan[n].then \in KeptUp
    BY <2>1
  <2>2. CASE n = Host
    BY <1>0, <2>2
  <2>3. CASE n # Host /\ plan[Host].then = "restart" /\ plan[n].then \notin KeptUp
    <3>1. Host \in Restarts(plan)
      BY <1>1, <2>3 DEF Restarts, Todo
    <3>2. plan[n].then = "start" /\ plan[n].todo /\ Host \notin Before(n)
      BY <2>3, <3>1 DEF DownAtRestart, TypeOK, KeptUp, Outcomes
    <3> QED BY <1>3, <2>3, <3>2
  <2>4. CASE n # Host /\ plan[Host].then # "restart" /\ plan[n].then \notin KeptUp
    <3>1. plan[n].then \in {"write", "start"}
      BY <2>4 DEF TypeOK, KeptUp, Outcomes
    <3>2. n \in SerialDownOk(Host) \/ (plan[n].then = "start" /\ plan[n].todo /\ Host \notin Before(n))
      BY <2>4, <3>1 DEF SerialDownOk
    <3> QED BY <1>0, <1>3, <2>4, <3>2
  <2> QED BY <2>1, <2>2, <2>3, <2>4
<1>5. Peer(Host, ok) \in Nodes /\ state[Peer(Host, ok)] = "up"
  <2>1. CASE Nodes \ (ok \cup {Host}) # {}
    <3>1. Peer(Host, ok) \in Nodes \ (ok \cup {Host})
      <4> HIDE DEF ok
      <4> QED BY <2>1, FirstIsOne DEF Peer
    <3> QED BY <1>4, <3>1
  <2>2. CASE Nodes \ (ok \cup {Host}) = {}
    <3>1. Peer(Host, ok) = Host
      BY <2>2 DEF Peer, FirstOf
    <3>2. ~down
      <4>1. SUFFICES ASSUME down PROVE FALSE
        OBVIOUS
      <4>2. PICK n \in Nodes : plan[n].then \in KeptUp
        OBVIOUS
      <4>3. n # Host /\ n \in SerialDownOk(Host)
        BY <1>0, <2>2, <4>1, <4>2 DEF KeptUp
      <4> QED BY <4>2, <4>3 DEF SerialDownOk, KeptUp
    <3> QED BY <1>1, <3>1, <3>2
  <2> QED BY <2>1, <2>2
<1> HIDE DEF ok
<1>6. Findings(Host, Peer(Host, ok), ok, ~down) = {}
  BY <1>1, <1>4, <1>5, NothingFound
<1> QED BY <1>6 DEF SerialFindings, ok

LEMMA OwnInit == Init => OwnInv
BY AppliedInit DEF Init, OwnInv, CountedOn, BatchPhases, PlayPhases, OnHost

(* The plan of a settled cluster.                                          *)
LEMMA PlanCounts ==
    ASSUME AppliedInv, CountedOn, Plan, ~resuming PROVE CountedOn'
<1>1. /\ pc = "plan" /\ UNCHANGED <<state, atStart, hosts, resuming>>
      /\ pc' = IF DownAtRestart(plan') # {} THEN "idle" ELSE "progress"
      /\ \A n \in Nodes : plan'[n] = IF n \in hosts THEN Needs(n) ELSE NotPlanned
  BY DEF Plan, nodes
<1>2. /\ state = atStart
      /\ \A n \in Nodes : state[n] # "up" => n \in hosts /\ state[n] \notin HasJvm
      /\ \E n \in Nodes : state[n] = "up"
  BY <1>1 DEF CountedOn
<1>3. ASSUME NEW n \in Nodes PROVE plan'[n].then \in KeptUp <=> state[n] = "up"
  <2>1. CASE n \notin hosts
    BY <1>1, <1>2, <2>1 DEF NotPlanned, KeptUp
  <2>2. CASE n \in hosts
    <3>1. plan'[n].then = Then(n)
      BY <1>1, <2>2, NeedsTyped
    <3>2. Running(n) <=> state[n] = "up"
      BY <1>2 DEF Running, HasJvm
    <3> QED BY <3>1, <3>2 DEF Then, KeptUp
  <2> QED BY <2>1, <2>2
<1>4. CASE pc' = "idle"
  BY <1>4 DEF CountedOn, BatchPhases, PlayPhases, OnHost
<1>5. CASE pc' = "progress"
  <2>1. DownAtRestart(plan') = {}
    BY <1>1, <1>5
  <2>2. DownAtRestart(plan)' = {}
    BY <2>1 DEF DownAtRestart, Restarts, Todo, Before, Index, N
  <2> QED BY <1>1, <1>2, <1>3, <1>5, <2>2 DEF CountedOn, BatchPhases, PlayPhases, OnHost
<1> QED BY <1>1, <1>4, <1>5

(* What the plan says of its restarts does not change with the nodes.      *)
LEMMA SamePlan ==
    ASSUME UNCHANGED plan
    PROVE  DownAtRestart(plan)' = DownAtRestart(plan)
BY DEF DownAtRestart, Restarts, Todo, Before, Index, N

LEMMA OwnStep == OwnInv /\ [Next]_vars => OwnInv'
<1> SUFFICES ASSUME OwnInv, [Next]_vars, ~resuming', ~surprised' PROVE CountedOn'
  BY AppliedStep DEF OwnInv
<1>0. /\ AppliedInv /\ TypeInv /\ TypeOK /\ WaitInv /\ BatchFacts /\ PlayFacts
  BY DEF OwnInv, AppliedInv, WaitInv, TypeInv
<1>n. N \in Nat
  BY OrderLength
<1>h. pc \in OnHost => Host \in Nodes
  BY <1>0, HostInNodes DEF TypeInv
<1>1. ASSUME NEW limit \in Limits, NEW resume \in BOOLEAN, StartRun(limit, resume)
      PROVE  CountedOn'
  <2>1. Settled /\ state' = state /\ atStart' = state /\ pc' = "plan"
    BY <1>1 DEF StartRun, nodes
  <2>2. \A n \in Nodes : state[n] # "up" => n \in hosts' /\ state[n] \notin HasJvm
    BY <2>1 DEF Settled, HasJvm
  <2> QED BY <2>1, <2>2 DEF Settled, CountedOn, BatchPhases, PlayPhases, OnHost
<1>2. CASE Plan
  <2>1. ~resuming /\ ~surprised
    BY <1>2 DEF Plan, history
  <2> QED BY <1>0, <1>2, <2>1, PlanCounts DEF OwnInv
<1>3. CASE Progress
  <2>1. /\ pc = "progress" /\ pc' = "batch" /\ done' = {} /\ CountedOn
        /\ UNCHANGED <<state, plan, cur>>
    BY <1>3 DEF Progress, nodes, OwnInv
  <2> QED BY <2>1, SamePlan DEF CountedOn, BatchPhases, PlayPhases, OnHost
<1>4. CASE BeginBatch
  <2>1. /\ pc = "batch" /\ CountedOn /\ ~resuming /\ cur = 1
        /\ UNCHANGED <<state, plan, cur, done>>
        /\ pc' \in {"play", "batch_before"}
        /\ left' = Batch \ done /\ found' = {h \in Batch \ done : MayBeDown(h, Batch)}
    BY <1>0, <1>4 DEF BeginBatch, nodes, run, history, OwnInv, BatchFacts
  <2>2. \A h \in Batch : MayBeDown(h, Batch) <=> plan[h].then = "write"
    BY <2>1 DEF MayBeDown, Candidate, Batch
  <2> QED BY <2>1, <2>2, SamePlan DEF CountedOn, BatchPhases, PlayPhases, OnHost
<1>5. CASE CheckBatchBefore \/ CheckBatchAfter
  <2>1. /\ pc \in BatchPhases /\ pc' \in BatchPhases \ {"batch_before"} /\ CountedOn
        /\ UNCHANGED <<state, plan, cur, done>>
    BY <1>5 DEF CheckBatchBefore, CheckBatchAfter, nodes, run, history, OwnInv, BatchPhases
  <2> QED BY <2>1, SamePlan DEF CountedOn, BatchPhases, PlayPhases, OnHost
<1>6. ASSUME NEW h \in left, BatchWrite(h) \/ BatchRecord(h) PROVE CountedOn'
  <2>1. /\ pc \in BatchPhases /\ pc' \in (BatchPhases \ {"batch_before"}) \cup {"play"}
        /\ CountedOn /\ cur = 1 /\ UNCHANGED <<state, plan, cur, done>>
    BY <1>0, <1>6 DEF BatchWrite, BatchRecord, nodes, run, history, OwnInv, BatchPhases, BatchFacts
  <2> QED BY <2>1, SamePlan DEF CountedOn, BatchPhases, PlayPhases, OnHost
<1>7. CASE Skip
  <2>1. /\ pc = "play" /\ pc' = "play" /\ CountedOn /\ cur' = cur + 1 /\ cur \in 1 .. N
        /\ UNCHANGED <<state, plan, done>> /\ Order[cur] \notin Serial \ done
    BY <1>0, <1>n, <1>7 DEF Skip, nodes, run, history, OwnInv, Host, TypeOK
  <2>2. done = {} /\ Order[cur] \in Nodes
    BY <2>1, HostInNodes DEF CountedOn, PlayPhases, Host
  <2>3. ~(plan[Order[cur]].then = "start" /\ plan[Order[cur]].todo)
    BY <2>1, <2>2 DEF Serial, Batch, Todo
  <2>4. \A i \in 1 .. cur' - 1 :
            plan[Order[i]].then = "start" /\ plan[Order[i]].todo => state[Order[i]] = "up"
    BY <1>n, <2>1, <2>3 DEF CountedOn, PlayPhases
  <2> QED BY <2>1, <2>2, <2>4, SamePlan DEF CountedOn, BatchPhases, PlayPhases, OnHost
<1>8. CASE Begin
  <2>1. /\ pc = "play" /\ pc' = "before" /\ CountedOn /\ ~resuming
        /\ UNCHANGED <<state, plan, cur, done>> /\ Host \in Serial
        /\ found' = {h \in {Host} : MayBeDown(h, Serial)}
    BY <1>8 DEF Begin, nodes, run, history, OwnInv
  <2>2. Host \in found' <=> plan[Host].then = "start"
    BY <2>1 DEF MayBeDown, Candidate, Serial, Batch
  <2>3. Host' = Host
    BY <2>1 DEF Host
  <2> QED BY <2>1, <2>2, <2>3, SamePlan DEF CountedOn, BatchPhases, PlayPhases, OnHost
<1>9. CASE Record
  <2>1. /\ pc = "record" /\ pc' = "play" /\ CountedOn /\ cur' = cur + 1 /\ cur \in 1 .. N
        /\ UNCHANGED <<state, plan, done>>
    BY <1>0, <1>9 DEF Record, nodes, run, history, OwnInv, TypeInv, OnHost
  <2>2. state[Order[cur]] = "up"
    BY <2>1 DEF CountedOn, Host
  <2>3. \A i \in 1 .. cur' - 1 :
            plan[Order[i]].then = "start" /\ plan[Order[i]].todo => state[Order[i]] = "up"
    BY <1>n, <2>1, <2>2 DEF CountedOn, PlayPhases, OnHost
  <2> QED BY <2>1, <2>3, SamePlan DEF CountedOn, BatchPhases, PlayPhases, OnHost
<1>10. ASSUME CheckBefore \/ ClearUnit \/ Write \/ Drain \/ Restart \/ Start \/ WaitNormal \/ CheckAfter
       PROVE  CountedOn'
  <2>1. /\ pc \in OnHost /\ pc' \in OnHost \ {"before"} /\ UNCHANGED <<plan, cur, done>>
        /\ CountedOn
    <3>1. CASE CheckBefore \/ ClearUnit \/ Write \/ Drain
      BY <3>1 DEF CheckBefore, ClearUnit, Write, Drain, Move, run, history, OnHost, OwnInv
    <3>2. CASE Restart \/ Start \/ WaitNormal \/ CheckAfter
      BY <3>2 DEF Restart, Start, WaitNormal, CheckAfter, Move, run, history, OnHost, OwnInv
    <3> QED BY <1>10, <3>1, <3>2
  <2>2. Host' = Host /\ Host \in Nodes /\ cur \in 1 .. N
    BY <1>0, <1>h, <2>1 DEF Host, TypeInv
  <2>3. \A n \in Nodes \ {Host} : state'[n] = state[n]
    <3>1. CASE CheckBefore \/ Write \/ WaitNormal \/ CheckAfter
      BY <3>1 DEF CheckBefore, Write, WaitNormal, CheckAfter, nodes
    <3>2. CASE ClearUnit \/ Drain \/ Restart \/ Start
      BY <1>0, <2>2, <3>2 DEF ClearUnit, Drain, Restart, Start, JvmStarts, Becomes, TypeOK
    <3> QED BY <1>10, <3>1, <3>2
  <2>4. \A i \in 1 .. cur - 1 : Order[i] # Host /\ Order[i] \in Nodes
    BY <1>n, <2>2, OrderAssumption DEF Host, N
  <2>5. plan[Host].then \in KeptUp => state'[Host] = "up" \/ pc' \in {"restart", "wait"}
    <3>1. SUFFICES ASSUME plan[Host].then \in KeptUp, pc' \notin {"restart", "wait"}
                   PROVE  state'[Host] = "up"
      OBVIOUS
    <3>2. CASE CheckBefore \/ Write \/ CheckAfter
      <4>1. pc \in {"before", "write", "after"} /\ state' = state
        BY <3>2 DEF CheckBefore, Write, CheckAfter, Move, nodes
      <4> QED BY <2>1, <2>2, <3>1, <4>1 DEF CountedOn
    <3>3. CASE WaitNormal
      BY <3>3 DEF WaitNormal
    <3>4. CASE ClearUnit \/ Start
      <4>1. pc \in {"clear", "start"}
        BY <3>4 DEF ClearUnit, Start, Move
      <4> QED BY <1>0, <3>1, <4>1 DEF WaitInv, KeptUp
    <3>5. CASE Drain \/ Restart
      BY <3>1, <3>5 DEF Drain, Restart, Move
    <3> QED BY <1>10, <3>2, <3>3, <3>4, <3>5
  <2>6. pc' \in {"after", "record"} => state'[Host] = "up"
    <3>1. CASE WaitNormal
      BY <3>1 DEF WaitNormal
    <3>2. CASE CheckAfter
      <4>1. pc = "after" /\ state' = state
        BY <3>2 DEF CheckAfter, Move, nodes
      <4> QED BY <2>1, <4>1 DEF CountedOn
    <3>3. CASE CheckBefore \/ ClearUnit \/ Write \/ Drain \/ Restart \/ Start
      BY <3>3 DEF CheckBefore, ClearUnit, Write, Drain, Restart, Start, Move
    <3> QED BY <1>10, <3>1, <3>2, <3>3
  <2>7. \A n \in Nodes : plan'[n].then \in KeptUp =>
            state'[n] = "up" \/ (n = Host' /\ pc' \in {"restart", "wait"})
    <3>1. ASSUME NEW n \in Nodes, n # Host, plan[n].then \in KeptUp PROVE state[n] = "up"
      BY <2>1, <3>1 DEF CountedOn, OnHost
    <3> QED BY <2>1, <2>2, <2>3, <2>5, <3>1
  <2>8. \A i \in 1 .. cur - 1 :
            plan[Order[i]].then = "start" /\ plan[Order[i]].todo => state'[Order[i]] = "up"
    BY <2>1, <2>3, <2>4 DEF CountedOn, PlayPhases
  <2>9. DownAtRestart(plan) = {} /\ done = {} /\ \E n \in Nodes : plan[n].then \in KeptUp
    BY <2>1 DEF CountedOn, PlayPhases, OnHost
  <2> QED BY <2>1, <2>2, <2>6, <2>7, <2>8, <2>9, SamePlan DEF CountedOn, BatchPhases, OnHost
<1>11. CASE CameUp \/ DrainNoAnswer \/ GaveUp \/ Unhealthy \/ EndRun \/ Interrupt
  BY <1>11 DEF CameUp, DrainNoAnswer, GaveUp, Unhealthy, EndRun, Interrupt, StopRun,
     CountedOn, BatchPhases, PlayPhases, OnHost
<1>12. ASSUME NEW n \in Nodes, Crash(n) \/ StoppedByHand(n) \/ StartedOtherwise(n)
       PROVE  CountedOn'
  BY <1>12 DEF Crash, StoppedByHand, StartedOtherwise
<1>13. ASSUME NEW n \in Nodes, Joined(n) PROVE CountedOn'
  <2>1. /\ UNCHANGED <<pc, plan, cur, hosts, atStart, done, left, found>> /\ CountedOn
        /\ state[n] = "starting" /\ state' = [state EXCEPT ![n] = "up"]
    BY <1>13 DEF Joined, Becomes, run, OwnInv
  <2>2. Host' = Host /\ pc # "plan"
    BY <2>1 DEF Host, CountedOn, HasJvm
  <2>3. /\ \A m \in Nodes : state[m] = "up" => state'[m] = "up"
        /\ pc \in OnHost => Host \in Nodes
        /\ \A i \in 1 .. cur - 1 : Order[i] \in Nodes
    BY <1>0, <1>h, <1>n, <2>1, OrderAssumption DEF TypeOK, N
  <2> QED BY <2>1, <2>2, <2>3, SamePlan DEF CountedOn, PlayPhases, OnHost
<1>14. CASE UNCHANGED vars
  <2>1. UNCHANGED <<state, pc, plan, cur, hosts, atStart, done, left, found>> /\ CountedOn
    BY <1>14 DEF vars, OwnInv
  <2>2. Host' = Host
    BY <2>1 DEF Host
  <2> QED BY <2>1, <2>2, SamePlan DEF CountedOn
<1> QED
  BY <1>1, <1>2, <1>3, <1>4, <1>5, <1>6, <1>7, <1>8, <1>9, <1>10, <1>11, <1>12, <1>13,
     <1>14 DEF Next, Step, Environment

(* A run that was not refused, not resumed, is never stopped by a check    *)
(* that finds a node its plan knew down: only by what somebody else changed*)
(* of the nodes since the run began, or had left unsettled before it.      *)
THEOREM OwnPlanStopsNothing == Spec => OwnPlanHolds
<1>1. Spec => []OwnInv
  BY OwnInit, OwnStep, PTL DEF Spec
<1>2. OwnInv /\ [Next]_vars => [Unhealthy /\ ~resuming => surprised]_vars
  <2>1. SUFFICES ASSUME OwnInv, Unhealthy, ~resuming, ~surprised PROVE FALSE
    OBVIOUS
  <2>2. /\ TypeInv /\ TypeOK /\ BatchFacts /\ PlayFacts /\ CountedOn
        /\ pc \in {"batch_before", "batch_after", "before", "after"}
    BY <2>1 DEF OwnInv, AppliedInv, WaitInv, TypeInv, Unhealthy
  <2>3. /\ DownAtRestart(plan) = {}
        /\ \E n \in Nodes : plan[n].then \in KeptUp
        /\ \A n \in Nodes : plan[n].then \in KeptUp => state[n] = "up"
    BY <2>2 DEF CountedOn
  <2>4. CASE pc \in {"batch_before", "batch_after"}
    <3>1. PICK h \in left, down \in BOOLEAN :
              BatchFindings(h, down) # {} /\ (down <=> plan[h].then = "write")
      <4>1. CASE pc = "batch_before"
        <5>1. PICK h \in left : BatchFindings(h, h \in found) # {}
          BY <2>1, <4>1 DEF Unhealthy
        <5>2. h \in found <=> plan[h].then = "write"
          BY <2>2, <4>1 DEF CountedOn
        <5>3. CASE h \in found
          BY <5>1, <5>2, <5>3
        <5>4. CASE h \notin found
          <6>1. (h \in found) = FALSE
            BY <5>4
          <6> QED BY <5>1, <5>2, <6>1
        <5> QED BY <5>3, <5>4
      <4>2. CASE pc = "batch_after"
        <5>1. PICK h \in left : BatchFindings(h, LeftDown(h)) # {}
          BY <2>1, <4>2 DEF Unhealthy
        <5> QED BY <5>1 DEF LeftDown
      <4> QED BY <2>4, <4>1, <4>2
    <3>2. h \in Batch
      BY <2>2, <2>4 DEF BatchFacts, BatchPhases
    <3> QED BY <2>2, <2>3, <3>1, <3>2, BatchFindsNothing
  <2>5. CASE pc \in {"before", "after"}
    <3>1. /\ cur \in 1 .. N /\ Host \in Serial /\ Host \in Nodes
          /\ \A i \in 1 .. cur - 1 :
                plan[Order[i]].then = "start" /\ plan[Order[i]].todo => state[Order[i]] = "up"
      BY <2>2, <2>5, HostInNodes DEF TypeInv, OnHost, PlayFacts, PlayPhases, CountedOn
    <3>2. plan[Host].then \in {"start", "restart"}
      BY <2>2, <3>1 DEF TypeOK, TypeInv, Outcomes, Serial, Batch, Todo
    <3>3. PICK down \in BOOLEAN :
              /\ SerialFindings(Host, down) # {}
              /\ down => plan[Host].then = "start"
              /\ ~down => state[Host] = "up"
      <4>1. CASE pc = "before"
        <5>1. SerialFindings(Host, Host \in found) # {}
          BY <2>1, <4>1 DEF Unhealthy
        <5>2. Host \in found <=> plan[Host].then = "start"
          BY <2>2, <4>1 DEF CountedOn
        <5>3. Host \notin found => state[Host] = "up"
          BY <2>3, <3>1, <3>2, <5>2 DEF KeptUp
        <5>4. CASE Host \in found
          BY <5>1, <5>2, <5>4
        <5>5. CASE Host \notin found
          <6>1. (Host \in found) = FALSE
            BY <5>5
          <6> QED BY <5>1, <5>3, <6>1
        <5> QED BY <5>4, <5>5
      <4>2. CASE pc = "after"
        <5>1. SerialFindings(Host, FALSE) # {} /\ state[Host] = "up"
          BY <2>1, <2>2, <4>2 DEF Unhealthy, CountedOn
        <5> QED BY <5>1
      <4> QED BY <2>5, <4>1, <4>2
    <3> QED BY <2>2, <2>3, <3>1, <3>3, SerialFindsNothing
  <2> QED BY <2>2, <2>4, <2>5
<1> QED BY <1>1, <1>2, PTL DEF Spec, OwnPlanHolds

=============================================================================
