----------------------- MODULE RollingOperationProofs -----------------------
(***************************************************************************)
(* Proofs about RollingOperation, for every cluster, order of its hosts,   *)
(* and bound on crashes and interruptions: one node at a time, and what the *)
(* progress files say; that it implements OneNodeAtATime.                  *)
(***************************************************************************)
EXTENDS RollingOperation, TLAPS

-----------------------------------------------------------------------------
(* The operators of the health check.                                      *)

(* A read with no finding answered, and shows each node UN or as expected. *)
LEMMA NoFindings ==
    ASSUME NEW view, NEW expected, NEW ok,
           ViewFindings(view, expected, ok) = {}
    PROVE  /\ view.answered
           /\ \A a \in DOMAIN view.ring :
                view.ring[a] = "UN" \/ Tolerated(a, view.ring[a], ok)
<1>1. view.answered
  BY DEF ViewFindings
<1>2. StateFindings(view, ok) = {}
  BY <1>1 DEF ViewFindings
<1>3. ASSUME NEW a \in DOMAIN view.ring,
             view.ring[a] # "UN", ~Tolerated(a, view.ring[a], ok)
      PROVE  FALSE
  <2>1. <<"state", a, view.from>> \in StateFindings(view, ok)
    BY <1>3 DEF StateFindings
  <2> QED BY <2>1, <1>2
<1> QED BY <1>1, <1>3

(* The host the play is at is a node; so is the one its checks ask.        *)
LEMMA HostInNodes ==
    ASSUME NEW i \in 1 .. N PROVE Order[i] \in Nodes
BY OrderAssumption DEF N

LEMMA PeerInNodes ==
    ASSUME NEW n \in Nodes PROVE Peer(n) \in Nodes
<1>1. CASE \E i \in 1 .. N : Order[i] # n
  <2> DEFINE First(i) == Order[i] # n /\ \A j \in 1 .. (i - 1) : Order[j] = n
  <2>1. N \in Nat
    BY OrderAssumption DEF N
  <2>2. \E i \in 1 .. N : First(i)
    <3>1. CASE Order[1] # n
      <4>1. 1 \in 1 .. N
        BY <1>1, <2>1
      <4>2. First(1)
        BY <3>1
      <4> QED BY <4>1, <4>2
    <3>2. CASE Order[1] = n
      <4>1. PICK i \in 1 .. N : Order[i] # n
        BY <1>1
      <4>2. i # 1 /\ 1 \in 1 .. N /\ 2 \in 1 .. N
        BY <4>1, <3>2, <2>1
      <4>3. Order[2] # Order[1]
        BY <4>2, OrderAssumption DEF N
      <4>4. First(2)
        BY <4>3, <3>2
      <4> QED BY <4>2, <4>4
    <3> QED BY <3>1, <3>2
  <2>3. (CHOOSE i \in 1 .. N : First(i)) \in 1 .. N
    BY <2>2
  <2>4. Peer(n) = Order[CHOOSE i \in 1 .. N : First(i)]
    BY <1>1 DEF Peer
  <2> QED BY <2>3, <2>4, HostInNodes
<1>2. CASE ~ \E i \in 1 .. N : Order[i] # n
  BY <1>2 DEF Peer
<1> QED BY <1>1, <1>2

-----------------------------------------------------------------------------
(* Type correctness.                                                       *)

LEMMA OrderLength == N \in Nat
BY OrderAssumption DEF N

LEMMA TypeInit == Init => TypeOK
<1> USE OrderLength, BoundsAssumption
<1> SUFFICES ASSUME Init PROVE TypeOK
  OBVIOUS
<1>1. cur \in 1 .. N + 1 /\ crashes \in 0 .. MaxCrashes /\ faults \in 0 .. MaxFaults
  BY DEF Init
<1>2. resuming \in BOOLEAN /\ resumed \in BOOLEAN /\ finished \in BOOLEAN
  BY DEF Init
<1>3. mode \in [Nodes -> Modes] /\ up \in [Nodes -> SUBSET Nodes]
  BY DEF Init, Modes
<1>4. /\ pc \in Phases /\ pc \in {"idle", "play"}
      /\ op \in Operations
      /\ file \in [Operations -> SUBSET Nodes]
      /\ restarted \in [Operations -> SUBSET Nodes]
  BY DEF Init, Phases
<1> QED BY <1>1, <1>2, <1>3, <1>4 DEF Init, TypeOK

LEMMA TypeStep == TypeOK /\ [Next]_vars => TypeOK'
<1> USE OrderLength, BoundsAssumption
<1> SUFFICES ASSUME TypeOK, [Next]_vars PROVE TypeOK'
  OBVIOUS
<1> USE DEF TypeOK
<1>1. ASSUME NEW o \in Operations, Fresh(o) PROVE TypeOK'
  <2>1. cur' \in 1 .. N + 1
    BY <1>1 DEF Fresh, StartRun
  <2>2. resuming' \in BOOLEAN /\ resumed' \in BOOLEAN /\ finished' \in BOOLEAN
    BY <1>1 DEF Fresh, StartRun
  <2>3. pc' \in Phases /\ pc' \in {"idle", "play"} /\ op' \in Operations
    BY <1>1 DEF Fresh, StartRun, Phases
  <2>4. /\ done' \subseteq Nodes /\ files' \subseteq Operations
        /\ file' \in [Operations -> SUBSET Nodes]
        /\ restarted' \in [Operations -> SUBSET Nodes]
    BY <1>1 DEF Fresh
  <2> QED
    BY <1>1, <2>1, <2>2, <2>3, <2>4 DEF Fresh, StartRun, cluster, budget
<1>2. ASSUME NEW o \in Operations, Resume(o) PROVE TypeOK'
  <2>1. cur' \in 1 .. N + 1
    BY <1>2 DEF Resume, StartRun
  <2>2. resuming' \in BOOLEAN /\ resumed' \in BOOLEAN /\ finished' \in BOOLEAN
    BY <1>2 DEF Resume, StartRun
  <2>3. pc' \in Phases /\ pc' \in {"idle", "play"} /\ op' \in Operations
    BY <1>2 DEF Resume, StartRun, Phases
  <2>4. done' \subseteq Nodes
    BY <1>2 DEF Resume
  <2> QED
    BY <1>2, <2>1, <2>2, <2>3, <2>4 DEF Resume, StartRun, cluster, budget, disk
<1>3. CASE EndRun
  BY <1>3 DEF EndRun, cluster, disk, budget, Phases
<1>4. CASE Skip
  BY <1>4 DEF Skip, cluster, disk, budget
<1>5. CASE Begin
  BY <1>5 DEF Begin, cluster, disk, budget, Phases, FoundDown, ShownDownByAll, Candidate
<1>6. CASE CheckBefore
  BY <1>6 DEF CheckBefore, PassesBefore, CheckSelf, CheckPeer, cluster, disk, budget, Phases
<1>7. CASE CheckAfter
  BY <1>7 DEF CheckAfter, CheckSelf, CheckPeer, cluster, disk, budget, Phases
<1>8. CASE Unhealthy
  BY <1>8 DEF Unhealthy, StopRun, cluster, disk, budget, Phases
<1>9. CASE Drain
  BY <1>9, HostInNodes DEF Drain, disk, budget, Phases, Modes, Announced, Host
<1>10. CASE DrainOver
  BY <1>10 DEF DrainOver, cluster, disk, budget, Phases
<1>11. CASE Restart
  BY <1>11, HostInNodes DEF Restart, TakeDown, disk, budget, Phases, Modes, Announced, Host
<1>12. CASE Reboot
  BY <1>12, HostInNodes DEF Reboot, TakeDown, disk, budget, Phases, Modes, Announced, Host
<1>13. CASE Booted
  BY <1>13 DEF Booted, disk, budget, Phases, Modes
<1>14. CASE WaitNormal
  BY <1>14 DEF WaitNormal, cluster, disk, budget, Phases
<1>15. CASE GiveUp
  BY <1>15 DEF GiveUp, StopRun, cluster, disk, budget, Phases
<1>16. CASE Record
  BY <1>16, HostInNodes DEF Record, cluster, budget, Phases, Host
<1>17. CASE DrainNoAnswer
  BY <1>17 DEF DrainNoAnswer, StopRun, cluster, disk, budget, Phases
<1>18. CASE Interrupt
  BY <1>18 DEF Interrupt, StopRun, cluster, disk, Phases
<1>19. ASSUME NEW n \in Nodes, Crash(n) PROVE TypeOK'
  BY <1>19 DEF Crash, run, disk, Modes
<1>20. ASSUME NEW n \in Nodes, Repair(n) \/ HostBoots(n) \/ DrainCompletes(n)
       PROVE  TypeOK'
  BY <1>20 DEF Repair, HostBoots, DrainCompletes, run, disk, budget, Modes
<1>21. ASSUME NEW n \in Nodes, Joined(n) PROVE TypeOK'
  BY <1>21 DEF Joined, run, disk, budget, Modes
<1>22. ASSUME NEW m \in Nodes, NEW n \in Nodes, Notices(m, n) PROVE TypeOK'
  BY <1>22 DEF Notices, run, disk, budget
<1>23. CASE UNCHANGED vars
  BY <1>23 DEF vars
<1> QED
  BY <1>1, <1>2, <1>3, <1>4, <1>5, <1>6, <1>7, <1>8, <1>9, <1>10, <1>11, <1>12,
     <1>13, <1>14, <1>15, <1>16, <1>17, <1>18, <1>19, <1>20, <1>21, <1>22, <1>23
     DEF Next, Operator, Step, Environment

(* Each variable of RollingOperation keeps its type in every behaviour:    *)
(* the play never goes past its last host, the progress files and the      *)
(* histories name hosts only, the bounds are kept.                         *)
THEOREM TypeCorrect == Spec => []TypeOK
BY TypeInit, TypeStep, PTL DEF Spec

-----------------------------------------------------------------------------
(* A run touches a node alone.                                             *)

(* Down, and shown so by every node that runs.                             *)
Hidden(n) ==
    /\ mode[n] # "NORMAL"
    /\ \A m \in Nodes \ {n} : mode[m] = "NORMAL" => n \notin up[m]

Out == taken \cup knownDown

(* The inductive invariant: the nodes the operations took down, and those  *)
(* known down when the checks began, are hidden, which the check of the    *)
(* ring from a node that runs then sees; only a resumed host goes without  *)
(* the check from itself.                                                  *)
AloneInv ==
    /\ TypeOK
    /\ \A n \in Out : Hidden(n)
    /\ pc = "before_peer" /\ ~resumed => Out \subseteq {Host}
    /\ Touching => Out \ unseen \subseteq {Host} /\ Host \notin unseen
    /\ AtMostOneOut

(* What a ring read with no finding showed of each node.                   *)
LEMMA PeerShows ==
    ASSUME TypeOK, cur \in 1 .. N, PeerFindings(Host, DownOk) = {}
    PROVE  /\ Answers(Peer(Host))
           /\ \A a \in Nodes :
                \/ Shown(Peer(Host), a) = "UN"
                \/ a = Host /\ Shown(Peer(Host), a) \in DownCodes
<1> DEFINE p == Peer(Host)
<1>1. ViewFindings(View(p), Cardinality(Nodes), DownOk) = {}
  BY DEF PeerFindings
<1>2. /\ View(p).answered
      /\ \A a \in DOMAIN View(p).ring :
            View(p).ring[a] = "UN" \/ Tolerated(a, View(p).ring[a], DownOk)
  BY <1>1, NoFindings
<1>3. View(p).answered = Answers(p) /\ View(p).ring = [a \in Nodes |-> Shown(p, a)]
  BY DEF View
<1>4. DownOk.joining = {} /\ DownOk.leaving = {} /\ DownOk.down \subseteq {Host}
  BY DEF DownOk, NoneExpected
<1> QED BY <1>2, <1>3, <1>4 DEF Tolerated

(* A node that is hidden and is not the one a resumed run forgives is a    *)
(* finding of any check of the ring from another node that runs.           *)
LEMMA HiddenIsFound ==
    ASSUME TypeOK, cur \in 1 .. N, PeerFindings(Host, DownOk) = {},
           mode[Peer(Host)] = "NORMAL",
           NEW n \in Nodes, Hidden(n)
    PROVE  n = Host
<1> DEFINE p == Peer(Host)
<1>1. Host \in Nodes /\ p \in Nodes
  BY HostInNodes, PeerInNodes DEF Host
<1>2. n # p
  BY DEF Hidden
<1>3. Shown(p, n) = "DN"
  BY <1>1, <1>2 DEF Hidden, Shown
<1> QED BY <1>3, PeerShows

(* The same of the check a host makes of its own ring.                     *)
LEMMA HiddenIsFoundBySelf ==
    ASSUME TypeOK, cur \in 1 .. N, SelfFindings(Host) = {},
           NEW n \in Nodes, Hidden(n)
    PROVE  FALSE
<1>1. Host \in Nodes
  BY HostInNodes DEF Host
<1>2. /\ ViewFindings(View(Host), Cardinality(Nodes), NoneExpected) = {}
      /\ NodeFindings(Host, Checks(Host), Answers(Host)) = {}
  BY DEF SelfFindings
<1>3. /\ View(Host).answered
      /\ \A a \in DOMAIN View(Host).ring :
            View(Host).ring[a] = "UN" \/ Tolerated(a, View(Host).ring[a], NoneExpected)
  BY <1>2, NoFindings
<1>4. /\ View(Host).answered = Answers(Host)
      /\ View(Host).ring = [a \in Nodes |-> Shown(Host, a)]
  BY DEF View
<1>5. \A a \in Nodes : Shown(Host, a) = "UN"
  BY <1>3, <1>4 DEF Tolerated, NoneExpected
<1>6. mode[Host] = "NORMAL"
  <2>1. SUFFICES ASSUME mode[Host] # "NORMAL" PROVE FALSE
    OBVIOUS
  <2>2. Checks(Host)["gossip"] = "bad" /\ "gossip" \in DOMAIN Checks(Host)
    BY <1>3, <1>4, <2>1 DEF Checks
  <2>3. <<"gossip", Host>> \in NodeFindings(Host, Checks(Host), Answers(Host))
    BY <2>2 DEF NodeFindings
  <2> QED BY <1>2, <2>3
<1>7. n # Host
  BY <1>6 DEF Hidden
<1>8. Shown(Host, n) = "DN"
  BY <1>1, <1>6, <1>7 DEF Hidden, Shown
<1> QED BY <1>5, <1>8

(* The steps of Next keep hidden what was hidden, but the node that joins. *)
LEMMA HiddenStep ==
    ASSUME TypeOK, [Next]_vars, NEW n \in Nodes, Hidden(n)
    PROVE  Hidden(n)' \/ Joined(n)
<1> USE DEF TypeOK
<1>1. ASSUME UNCHANGED cluster PROVE Hidden(n)'
  BY <1>1 DEF Hidden, cluster
<1>2. ASSUME NEW o \in Operations, Fresh(o) \/ Resume(o) PROVE Hidden(n)'
  BY <1>2, <1>1 DEF Fresh, Resume, StartRun
<1>3. CASE EndRun \/ Skip \/ Begin \/ CheckBefore \/ CheckAfter \/ DrainOver
           \/ WaitNormal \/ Record
  BY <1>3, <1>1 DEF EndRun, Skip, Begin, CheckBefore, PassesBefore, CheckAfter,
                    CheckSelf, CheckPeer, DrainOver, WaitNormal, Record
<1>4. CASE Unhealthy \/ GiveUp \/ DrainNoAnswer \/ Interrupt
  BY <1>4, <1>1 DEF Unhealthy, GiveUp, DrainNoAnswer, Interrupt, StopRun
<1>5. ASSUME NEW h \in Nodes, NEW down \in Modes \ {"NORMAL"},
             mode' = [mode EXCEPT ![h] = down], up' = Announced(h)
      PROVE  Hidden(n)'
  BY <1>5 DEF Hidden, Announced
<1>6. CASE Drain
  BY <1>6, <1>5, HostInNodes DEF Drain, Host, Modes
<1>7. CASE Restart \/ Reboot
  BY <1>7, <1>5, HostInNodes DEF Restart, Reboot, TakeDown, Host, Modes
<1>8. CASE Booted
  BY <1>8 DEF Booted, Hidden
<1>9. ASSUME NEW m \in Nodes,
             Crash(m) \/ Repair(m) \/ HostBoots(m) \/ DrainCompletes(m)
      PROVE  Hidden(n)'
  BY <1>9 DEF Crash, Repair, HostBoots, DrainCompletes, Hidden
<1>10. ASSUME NEW m \in Nodes, m # n, Joined(m) PROVE Hidden(n)'
  BY <1>10 DEF Joined, Hidden
<1>11. ASSUME NEW m \in Nodes, NEW x \in Nodes, Notices(m, x) PROVE Hidden(n)'
  BY <1>11 DEF Notices, Hidden
<1>12. CASE UNCHANGED vars
  BY <1>12, <1>1 DEF vars, cluster
<1> QED
  BY <1>2, <1>3, <1>4, <1>6, <1>7, <1>8, <1>9, <1>10, <1>11, <1>12
     DEF Next, Operator, Step, Environment

LEMMA AloneInit == Init => AloneInv
<1> SUFFICES ASSUME Init PROVE AloneInv
  OBVIOUS
<1>1. taken = {} /\ knownDown = {} /\ pc = "idle" /\ ~Touching
  BY DEF Init, Touching
<1> QED BY <1>1, TypeInit DEF AloneInv, AtMostOneOut, Out

(* The checks before the action end with no other node out in sight: but   *)
(* for what a drained second node hides, none is out.                      *)
LEMMA SeenAlone ==
    ASSUME AloneInv, PassesBefore, ~Blind PROVE Out \subseteq {Host}
<1>1. TypeOK /\ cur \in 1 .. N /\ PeerFindings(Host, DownOk) = {}
  BY DEF AloneInv, PassesBefore, CheckPeer, TypeOK
<1>2. CASE ~resumed
  BY <1>2 DEF AloneInv, PassesBefore, CheckPeer
<1>3. CASE mode[Peer(Host)] = "NORMAL"
  <2>1. \A n \in Out : n \in Nodes /\ Hidden(n)
    BY DEF AloneInv, TypeOK, Out
  <2> QED BY <1>1, <1>3, <2>1, HiddenIsFound
<1> QED BY <1>2, <1>3 DEF Blind

LEMMA AloneStep ==
    ASSUME AloneInv, [Next]_vars
    PROVE  AloneInv'
<1>1. TypeOK /\ TypeOK'
  BY TypeStep DEF AloneInv
<1>2. ASSUME NEW n \in Out PROVE Hidden(n)' \/ Joined(n)
  <2>1. n \in Nodes /\ Hidden(n)
    BY <1>1 DEF AloneInv, TypeOK, Out
  <2> QED BY <2>1, <1>1, HiddenStep
<1>3. ASSUME NEW n \in Nodes, Joined(n) PROVE n \notin Out'
  BY <1>3 DEF Joined, Out
(* A step that takes no node down and reads nothing anew.                  *)
<1>4. ASSUME taken' \subseteq taken, knownDown' \subseteq knownDown,
             taken' \ unseen' \subseteq taken \ unseen,
             knownDown' \ unseen' \subseteq knownDown \ unseen,
             Touching' => Touching /\ Host' = Host /\ unseen' \subseteq unseen,
             pc' = "before_peer" /\ ~resumed' =>
                 pc = "before_peer" /\ ~resumed /\ Host' = Host
      PROVE  AloneInv'
  <2>1. \A n \in Out' : Hidden(n)'
    <3>1. Out' \subseteq Out /\ Out \subseteq Nodes
      BY <1>1, <1>4 DEF TypeOK, Out
    <3> QED BY <3>1, <1>2, <1>3
  <2>2. Touching' => (Out \ unseen \subseteq {Host} /\ Host \notin unseen)'
    BY <1>4 DEF AloneInv, Out
  <2>3. AtMostOneOut'
    BY <1>4 DEF AloneInv, AtMostOneOut
  <2>4. (pc = "before_peer" /\ ~resumed => Out \subseteq {Host})'
    BY <1>4 DEF AloneInv, Out
  <2> QED BY <1>1, <2>1, <2>2, <2>3, <2>4 DEF AloneInv
(* A step that takes down the host whose turn it is.                       *)
<1>5. ASSUME Touching, cur' = cur, knownDown' = knownDown, unseen' = unseen,
             taken' \subseteq taken \cup {Host}, mode'[Host] # "NORMAL",
             up' = Announced(Host), \A m \in Nodes \ {Host} : mode'[m] = mode[m],
             \A n \in Nodes : ~Joined(n), pc' # "before_peer"
      PROVE  AloneInv'
  <2>1. Hidden(Host)'
    <3>1. \A m \in Nodes \ {Host} : mode'[m] = "NORMAL" => Host \notin up'[m]
      BY <1>5 DEF Announced
    <3> QED BY <3>1, <1>5 DEF Hidden, Host
  <2>2. Host' = Host /\ Out' \subseteq Out \cup {Host}
    BY <1>5 DEF Host, Out
  <2>3. (Out \ unseen \subseteq {Host} /\ Host \notin unseen)'
    BY <1>5, <2>2 DEF AloneInv
  <2>4. \A n \in Out' : Hidden(n)'
    BY <1>2, <1>5, <2>1, <2>2 DEF AloneInv, TypeOK, Out
  <2>5. AtMostOneOut'
    BY <2>3 DEF AtMostOneOut, Out
  <2> QED BY <1>1, <1>5, <2>3, <2>4, <2>5 DEF AloneInv
<1>6. CASE Begin
  <2>1. /\ ~Touching' /\ UNCHANGED <<cluster, taken, unseen>>
        /\ pc' = "before_peer" => resumed'
    BY <1>6 DEF Begin, Touching
  <2>2. \A n \in knownDown' : Hidden(n)'
    BY <1>6, <2>1 DEF Begin, ShownDownByAll, Hidden, cluster
  <2>3. \A n \in taken' : Hidden(n)'
    BY <2>1 DEF AloneInv, Hidden, cluster, Out
  <2> QED BY <1>1, <2>1, <2>2, <2>3 DEF AloneInv, AtMostOneOut, Out
<1>7. CASE PassesBefore
  <2>1. UNCHANGED <<cluster, taken, knownDown, cur>> /\ pc' = "drain"
    BY <1>7 DEF PassesBefore, CheckPeer
  <2>2. (Out \ unseen \subseteq {Host} /\ Host \notin unseen)'
    <3>1. CASE Blind
      BY <1>7, <2>1, <3>1 DEF PassesBefore, Out, Host
    <3>2. CASE ~Blind
      BY <1>7, <2>1, <3>2, SeenAlone DEF PassesBefore, Out, Host
    <3> QED BY <3>1, <3>2
  <2>3. \A n \in Out' : Hidden(n)'
    BY <2>1 DEF AloneInv, Hidden, cluster, Out
  <2>4. AtMostOneOut'
    BY <2>2 DEF AtMostOneOut, Out
  <2> QED BY <1>1, <2>1, <2>2, <2>3, <2>4 DEF AloneInv
<1>8. CASE Drain
  <2>1. Host \in Nodes /\ mode'[Host] = "DRAINING" /\ mode[Host] = "NORMAL"
    BY <1>1, <1>8, HostInNodes DEF Drain, TypeOK, Host
  <2>2. \A n \in Nodes : ~Joined(n)
    BY <2>1, <1>1 DEF Joined, TypeOK
  <2>3. \A m \in Nodes \ {Host} : mode'[m] = mode[m]
    BY <1>1, <1>8 DEF Drain, TypeOK
  <2> QED BY <1>5, <1>8, <2>1, <2>2, <2>3 DEF Drain, Touching
<1>9. CASE Restart \/ Reboot
  <2>1. PICK newMode \in {"STARTING", "REBOOTING"} : TakeDown(newMode, pc')
    BY <1>9 DEF Restart, Reboot, TakeDown
  <2>2. Host \in Nodes /\ mode'[Host] # "NORMAL" /\ pc' \in {"wait", "boot"}
    BY <1>1, <1>9, <2>1, HostInNodes DEF Restart, Reboot, TakeDown, TypeOK, Host
  <2>3. \A m \in Nodes \ {Host} : mode'[m] = mode[m]
    BY <1>1, <2>1 DEF TakeDown, TypeOK
  <2>4. \A n \in Nodes : ~Joined(n)
    BY <1>1, <2>1, <2>2, <2>3 DEF Joined, TypeOK
  <2> QED BY <1>5, <2>1, <2>2, <2>3, <2>4 DEF TakeDown, Touching
<1>10. CASE DrainOver
  BY <1>4, <1>10 DEF DrainOver, Touching, Host
<1>11. ASSUME NEW o \in Operations, Fresh(o) \/ Resume(o) PROVE AloneInv'
  BY <1>4, <1>11 DEF Fresh, Resume, StartRun, Touching
<1>12. CASE EndRun \/ Skip \/ Booted \/ WaitNormal \/ Record
  BY <1>4, <1>12 DEF EndRun, Skip, Booted, WaitNormal, Record, Touching
<1>13. CASE CheckAfter
  BY <1>4, <1>13 DEF CheckAfter, CheckSelf, CheckPeer, Touching
<1>14. CASE Unhealthy \/ GiveUp \/ DrainNoAnswer \/ Interrupt
  BY <1>4, <1>14 DEF Unhealthy, GiveUp, DrainNoAnswer, Interrupt, StopRun, Touching
<1>15. CASE Environment
  BY <1>4, <1>15 DEF Environment, Crash, Repair, HostBoots, DrainCompletes,
                     Joined, Notices, run, Touching, Host
<1>16. CASE UNCHANGED vars
  BY <1>4, <1>16 DEF vars, Touching, Host
<1>17. CASE CheckSelf("before_self", "before_peer") /\ UNCHANGED unseen
  <2>1. /\ cur \in 1 .. N /\ SelfFindings(Host) = {} /\ pc' = "before_peer"
        /\ UNCHANGED <<cluster, taken, knownDown, unseen>>
    BY <1>1, <1>17 DEF CheckSelf, TypeOK
  <2>2. Out = {}
    <3>1. \A n \in Out : n \in Nodes /\ Hidden(n)
      BY <1>1 DEF AloneInv, TypeOK, Out
    <3> QED BY <1>1, <2>1, <3>1, HiddenIsFoundBySelf
  <2>3. Out' = {} /\ ~Touching' /\ taken' = {}
    BY <2>1, <2>2 DEF Out, Touching
  <2> QED BY <1>1, <2>3 DEF AloneInv, AtMostOneOut
<1> QED
  BY <1>6, <1>7, <1>8, <1>9, <1>10, <1>11, <1>12, <1>13, <1>14, <1>15, <1>16, <1>17
     DEF Next, Operator, Step, CheckBefore

THEOREM AloneInvariant == Spec => []AloneInv
BY AloneInit, AloneStep, PTL DEF Spec

(* A run drains, restarts or reboots a host only while no other node is out*)
(* because of a rolling operation, whatever runs were stopped, resumed or  *)
(* started over before (node_operation.yml: "Any other node down [...]     *)
(* still stops the run"), but for the nodes out when a resumed host was    *)
(* checked from a node that was itself drained and showed itself up.       *)
THEOREM TouchesAlone == Spec => []ActsAlone
<1>1. AloneInv => ActsAlone
  BY DEF AloneInv, ActsAlone, Out
<1> QED BY <1>1, AloneInvariant, PTL

(* The nodes the operations took down and that have not joined again, those*)
(* hidden by a drained second node left out, are never two: "one node at a *)
(* time" (rolling_restart.yml), for any cluster.                           *)
THEOREM OneOutAtMost == Spec => []AtMostOneOut
<1>1. AloneInv => AtMostOneOut
  BY DEF AloneInv
<1> QED BY <1>1, AloneInvariant, PTL

(* A node down for a reason of its own when the checks of a host began     *)
(* keeps the run from touching that host, with the same exemption.         *)
THEOREM KnownDownIsRespected == Spec => []KnownDownStops
<1>1. AloneInv => KnownDownStops
  BY DEF AloneInv, KnownDownStops, Out
<1> QED BY <1>1, AloneInvariant, PTL

-----------------------------------------------------------------------------
(* Progress: what the files say, and OneNodeAtATime.                       *)

(* The hosts the play went past.                                           *)
Passed == {Order[i] : i \in 1 .. (cur - 1)}

Acted == {"boot", "wait", "after_self", "after_peer", "record"}
Back  == {"after_self", "after_peer", "record"}

(* The inductive invariant: the file of a run that goes on holds the hosts *)
(* it read at its start and the ones it went past, and no others; a host it*)
(* lists was restarted; the host acted on was restarted, then came back.   *)
ProgressInv ==
    /\ TypeOK
    /\ \A n \in taken : mode[n] # "NORMAL"
    /\ \A o \in Operations : file[o] \subseteq restarted[o]
    /\ pc # "idle" => /\ op \in files
                      /\ ~finished
                      /\ file[op] = done \cup Passed
    /\ pc \notin {"idle", "play"} => Host \notin done
    /\ pc \in Acted => Host \in restarted[op]
    /\ pc \in Back => Host \notin taken
    /\ finished /\ op \in files => restarted[op] = Nodes

-----------------------------------------------------------------------------
LEMMA PassedAll == ASSUME cur = N + 1 PROVE Passed = Nodes
<1>1. N \in Nat
  BY OrderLength
<1>2. \A i \in 1 .. N : Order[i] \in Nodes
  BY HostInNodes
<1>3. \A n \in Nodes : \E i \in 1 .. N : Order[i] = n
  BY OrderAssumption DEF N
<1> QED BY <1>1, <1>2, <1>3 DEF Passed

LEMMA PassedFirst == ASSUME cur' = 1 PROVE Passed' = {}
BY DEF Passed

LEMMA PassedOne ==
    ASSUME cur \in 1 .. N, cur' = cur + 1 PROVE Passed' = Passed \cup {Host}
<1>1. cur \in Nat /\ cur >= 1
  BY OrderLength
<1>2. 1 .. (cur' - 1) = 1 .. (cur - 1) \cup {cur}
  BY <1>1
<1> QED BY <1>2 DEF Passed, Host

(* No host is at two places of the order: the one the play is at is ahead. *)
LEMMA HostNotPassed == ASSUME cur \in 1 .. N PROVE Host \notin Passed
<1>1. \A i \in 1 .. (cur - 1) : i \in 1 .. N /\ i # cur
  BY OrderLength
<1>2. \A i \in 1 .. N : Order[i] = Order[cur] => i = cur
  BY OrderAssumption DEF N
<1> QED BY <1>1, <1>2 DEF Passed, Host

LEMMA ProgressInit == Init => ProgressInv
<1> SUFFICES ASSUME Init PROVE ProgressInv
  OBVIOUS
<1>1. pc = "idle" /\ taken = {} /\ files = {}
  BY DEF Init
<1>2. \A o \in Operations : file[o] = {}
  BY DEF Init
<1> QED BY <1>1, <1>2, TypeInit DEF ProgressInv, Acted, Back

LEMMA ProgressStep ==
    ASSUME ProgressInv, [Next]_vars
    PROVE  ProgressInv'
<1>1. TypeOK /\ TypeOK'
  BY TypeStep DEF ProgressInv
<1>2. pc \notin {"idle", "play"} => cur \in 1 .. N /\ Host \in Nodes
  BY <1>1, HostInNodes DEF TypeOK, Host
(* A step that leaves the play where it is and takes no node down.         *)
<1>3. ASSUME UNCHANGED <<op, cur, done, finished, files, file, restarted>>,
             taken' \subseteq taken,
             \A n \in taken' : mode'[n] # "NORMAL",
             pc' # "idle" => pc # "idle",
             pc' \notin {"idle", "play"} => pc \notin {"idle", "play"},
             pc' \in Acted => pc \in Acted,
             pc' \in Back => pc \in Back \/ Host \notin taken
      PROVE  ProgressInv'
  <2>1. Host' = Host /\ Passed' = Passed
    BY <1>3 DEF Host, Passed
  <2>2. pc' \in Back => Host' \notin taken'
    BY <1>3, <2>1 DEF ProgressInv
  <2> QED BY <1>1, <1>3, <2>1, <2>2 DEF ProgressInv
<1>4. ASSUME NEW o \in Operations, Fresh(o) PROVE ProgressInv'
  <2>1. /\ pc' = "play" /\ op' = o /\ cur' = 1 /\ done' = {} /\ ~finished'
        /\ o \in files' /\ mode' = mode /\ taken' = taken
    BY <1>4 DEF Fresh, StartRun, cluster
  <2>2. file'[o] = {} /\ \A x \in Operations \ {o} :
                            file'[x] = file[x] /\ restarted'[x] = restarted[x]
    BY <1>1, <1>4 DEF Fresh, TypeOK
  <2>3. file'[op'] = done' \cup Passed'
    BY <2>1, <2>2, PassedFirst
  <2>4. \A x \in Operations : file'[x] \subseteq restarted'[x]
    BY <2>2 DEF ProgressInv
  <2> QED BY <1>1, <2>1, <2>3, <2>4 DEF ProgressInv, Acted, Back
<1>5. ASSUME NEW o \in Operations, Resume(o) PROVE ProgressInv'
  <2>1. /\ pc' = "play" /\ op' = o /\ cur' = 1 /\ done' = file[o] /\ ~finished'
        /\ o \in files /\ mode' = mode /\ taken' = taken
        /\ UNCHANGED <<files, file, restarted>>
    BY <1>5 DEF Resume, StartRun, cluster, disk
  <2>2. file'[op'] = done' \cup Passed'
    BY <2>1, PassedFirst
  <2> QED BY <1>1, <2>1, <2>2 DEF ProgressInv, Acted, Back
<1>6. CASE EndRun
  <2>1. restarted[op] = Nodes
    <3>1. Passed = Nodes
      BY <1>6, PassedAll DEF EndRun
    <3>2. Nodes \subseteq file[op]
      BY <1>6, <3>1 DEF EndRun, ProgressInv
    <3>3. file[op] \subseteq restarted[op] /\ restarted[op] \subseteq Nodes
      BY <1>1 DEF ProgressInv, TypeOK
    <3> QED BY <3>2, <3>3
  <2>2. pc' = "idle" /\ UNCHANGED <<mode, op, taken, files, file, restarted>>
    BY <1>6 DEF EndRun, cluster, disk
  <2> QED BY <1>1, <2>1, <2>2 DEF ProgressInv, Acted, Back
<1>7. CASE Skip
  <2>1. /\ pc = "play" /\ cur \in 1 .. N /\ Host \in done /\ cur' = cur + 1
        /\ UNCHANGED <<mode, pc, op, done, finished, files, file, taken, restarted>>
    BY <1>1, <1>7, OrderLength DEF Skip, TypeOK, cluster, disk
  <2>2. done \cup Passed' = done \cup Passed
    BY <2>1, PassedOne
  <2> QED BY <1>1, <2>1, <2>2 DEF ProgressInv, Acted, Back
<1>8. CASE Begin
  <2>1. /\ pc = "play" /\ Host \notin done /\ pc' \in {"before_self", "before_peer"}
        /\ UNCHANGED <<mode, op, cur, done, finished, files, file, taken, restarted>>
    BY <1>8 DEF Begin, cluster, disk
  <2>2. Host' = Host /\ Passed' = Passed
    BY <2>1 DEF Host, Passed
  <2> QED BY <1>1, <2>1, <2>2 DEF ProgressInv, Acted, Back
<1>9. CASE CheckBefore \/ CheckAfter
  BY <1>3, <1>9 DEF CheckBefore, PassesBefore, CheckAfter, CheckSelf, CheckPeer, cluster, disk,
                    Acted, Back, ProgressInv
<1>10. CASE Unhealthy \/ GiveUp \/ DrainNoAnswer \/ Interrupt
  BY <1>3, <1>10 DEF Unhealthy, GiveUp, DrainNoAnswer, Interrupt, StopRun, cluster,
                     disk, Acted, Back, ProgressInv
<1>11. CASE Drain
  <2>1. /\ pc = "drain" /\ pc' = "draining" /\ taken' = taken \cup {Host}
        /\ UNCHANGED <<op, cur, done, finished, files, file, restarted>>
    BY <1>11 DEF Drain, disk
  <2>2. \A n \in taken' : mode'[n] # "NORMAL"
    BY <1>1, <1>2, <1>11, <2>1 DEF Drain, ProgressInv, TypeOK
  <2>3. Host' = Host /\ Passed' = Passed
    BY <2>1 DEF Host, Passed
  <2> QED BY <1>1, <2>1, <2>2, <2>3 DEF ProgressInv, Acted, Back
<1>12. CASE DrainOver
  BY <1>3, <1>12 DEF DrainOver, cluster, disk, Acted, Back, ProgressInv
<1>13. CASE Restart \/ Reboot
  <2>1. PICK newMode \in {"STARTING", "REBOOTING"} : TakeDown(newMode, pc')
    BY <1>13 DEF Restart, Reboot, TakeDown
  <2>2. /\ pc = "act" /\ pc' \in {"wait", "boot"}
        /\ UNCHANGED <<op, cur, done, finished, files, file>>
    BY <1>13 DEF Restart, Reboot, TakeDown, disk
  <2>3. \A n \in taken' : mode'[n] # "NORMAL"
    BY <1>1, <1>2, <2>1, <2>2 DEF TakeDown, ProgressInv, TypeOK
  <2>4. Host' = Host /\ Passed' = Passed
    BY <2>2 DEF Host, Passed
  <2>5. /\ restarted'[op] = restarted[op] \cup {Host}
        /\ \A o \in Operations \ {op} : restarted'[o] = restarted[o]
    BY <1>1, <2>1 DEF TakeDown, TypeOK
  <2>6. \A o \in Operations : file'[o] \subseteq restarted'[o]
    BY <2>2, <2>5 DEF ProgressInv
  <2>7. Host' \in restarted'[op']
    BY <2>2, <2>4, <2>5
  <2> QED BY <1>1, <2>2, <2>3, <2>4, <2>6, <2>7 DEF ProgressInv, Acted, Back
<1>14. CASE Booted
  <2>1. \A n \in taken' : mode'[n] # "NORMAL"
    BY <1>1, <1>2, <1>14 DEF Booted, ProgressInv, TypeOK
  <2> QED BY <1>3, <1>14, <2>1 DEF Booted, disk, Acted, Back
<1>15. CASE WaitNormal
  <2>1. Host \notin taken
    BY <1>15 DEF WaitNormal, ProgressInv
  <2> QED BY <1>3, <1>15, <2>1 DEF WaitNormal, cluster, disk, Acted, Back, ProgressInv
<1>16. CASE Record
  <2>1. /\ pc = "record" /\ pc' = "play" /\ cur \in 1 .. N /\ cur' = cur + 1
        /\ UNCHANGED <<mode, op, done, finished, files, taken, restarted>>
    BY <1>2, <1>16 DEF Record, cluster
  <2>2. /\ file'[op] = file[op] \cup {Host}
        /\ \A o \in Operations \ {op} : file'[o] = file[o]
    BY <1>1, <1>16 DEF Record, TypeOK
  <2>3. file'[op'] = done' \cup Passed'
    BY <2>1, <2>2, PassedOne DEF ProgressInv
  <2>4. \A o \in Operations : file'[o] \subseteq restarted'[o]
    BY <2>1, <2>2 DEF ProgressInv, Acted
  <2> QED BY <1>1, <2>1, <2>3, <2>4 DEF ProgressInv, Acted, Back
<1>17. ASSUME NEW n \in Nodes,
              Crash(n) \/ Repair(n) \/ HostBoots(n) \/ DrainCompletes(n) \/ Joined(n)
       PROVE  ProgressInv'
  <2>1. \A x \in taken' : mode'[x] # "NORMAL"
    BY <1>1, <1>17 DEF Crash, Repair, HostBoots, DrainCompletes, Joined, ProgressInv, TypeOK
  <2> QED BY <1>3, <1>17, <2>1 DEF Crash, Repair, HostBoots, DrainCompletes, Joined, run, disk
<1>18. ASSUME NEW m \in Nodes, NEW n \in Nodes, Notices(m, n) PROVE ProgressInv'
  BY <1>3, <1>18 DEF Notices, run, disk, ProgressInv
<1>19. CASE UNCHANGED vars
  BY <1>3, <1>19 DEF vars, ProgressInv
<1> QED
  BY <1>4, <1>5, <1>6, <1>7, <1>8, <1>9, <1>10, <1>11, <1>12, <1>13, <1>14, <1>15,
     <1>16, <1>17, <1>18, <1>19
     DEF Next, Operator, Step, Environment

THEOREM ProgressInvariant == Spec => []ProgressInv
BY ProgressInit, ProgressStep, PTL DEF Spec

(* Whatever the runs, their interruptions and their resumptions: a run that*)
(* reached its end leaves no host that was not restarted, and no progress  *)
(* file lists one (node_operation.yml, progress.yml).                      *)
THEOREM NoHostLeftBehind == Spec => []CompleteMeansAll
<1>1. ProgressInv => CompleteMeansAll
  BY DEF ProgressInv, CompleteMeansAll
<1> QED BY <1>1, ProgressInvariant, PTL

LEMMA ActsOnAHostAhead ==
    ASSUME ProgressInv, pc = "act" PROVE Host \notin file[op]
<1>1. cur \in 1 .. N
  BY DEF ProgressInv, TypeOK
<1>2. file[op] = done \cup Passed /\ Host \notin done
  BY DEF ProgressInv
<1> QED BY <1>1, <1>2, HostNotPassed

(* A host in the progress file is not restarted or rebooted again by a run *)
(* that resumes (node_operation.yml, "Skip a node already done").          *)
THEOREM NeverTwice == Spec => NoRepeat
<1>1. ProgressInv => [Restart \/ Reboot => Host \notin file[op]]_vars
  BY ActsOnAHostAhead DEF Restart, Reboot, TakeDown
<1> QED BY <1>1, ProgressInvariant, PTL DEF NoRepeat

-----------------------------------------------------------------------------
(* Where no node out is ever overlooked.                                   *)

(* A node is drained by the operations only.                               *)
DrainedInv ==
    /\ TypeOK
    /\ \A n \in Nodes : mode[n] \in {"DRAINING", "DRAINED"} => n \in taken

LEMMA DrainedStep == ASSUME DrainedInv, [Next]_vars PROVE DrainedInv'
<1>1. TypeOK /\ TypeOK'
  BY TypeStep DEF DrainedInv
<1>2. pc \notin {"idle", "play"} => Host \in Nodes
  BY <1>1, HostInNodes DEF TypeOK, Host
<1> USE DEF DrainedInv, TypeOK
<1>3. ASSUME UNCHANGED <<mode, taken>> PROVE DrainedInv'
  BY <1>1, <1>3
<1>4. ASSUME NEW o \in Operations, Fresh(o) \/ Resume(o) PROVE DrainedInv'
  BY <1>3, <1>4 DEF Fresh, Resume, StartRun, cluster
<1>5. CASE EndRun \/ Skip \/ Begin \/ CheckBefore \/ CheckAfter \/ DrainOver
           \/ WaitNormal \/ Record
  BY <1>3, <1>5 DEF EndRun, Skip, Begin, CheckBefore, PassesBefore, CheckAfter,
                    CheckSelf, CheckPeer, DrainOver, WaitNormal, Record, cluster
<1>6. CASE Unhealthy \/ GiveUp \/ DrainNoAnswer \/ Interrupt
  BY <1>3, <1>6 DEF Unhealthy, GiveUp, DrainNoAnswer, Interrupt, StopRun, cluster
<1>7. CASE Drain
  BY <1>1, <1>2, <1>7 DEF Drain
<1>8. CASE Restart \/ Reboot
  BY <1>1, <1>2, <1>8 DEF Restart, Reboot, TakeDown
<1>9. CASE Booted
  BY <1>1, <1>2, <1>9 DEF Booted
<1>10. ASSUME NEW n \in Nodes,
              Crash(n) \/ Repair(n) \/ HostBoots(n) \/ DrainCompletes(n) \/ Joined(n)
       PROVE  DrainedInv'
  BY <1>1, <1>10 DEF Crash, Repair, HostBoots, DrainCompletes, Joined
<1>11. ASSUME NEW m \in Nodes, NEW n \in Nodes, Notices(m, n) PROVE DrainedInv'
  BY <1>3, <1>11 DEF Notices
<1>12. CASE UNCHANGED vars
  BY <1>3, <1>12 DEF vars
<1> QED
  BY <1>4, <1>5, <1>6, <1>7, <1>8, <1>9, <1>10, <1>11, <1>12
     DEF Next, Operator, Step, Environment

THEOREM DrainedInvariant == Spec => []DrainedInv
<1>1. Init => DrainedInv
  BY TypeInit DEF Init, DrainedInv
<1> QED BY <1>1, DrainedStep, PTL DEF Spec

LEMMA PeerOfTheOnlyNode ==
    ASSUME NEW n \in Nodes, Peer(n) = n PROVE Nodes \subseteq {n}
<1>1. SUFFICES ASSUME NEW m \in Nodes, m # n PROVE FALSE
  OBVIOUS
<1> DEFINE First(i) == Order[i] # n /\ \A j \in 1 .. (i - 1) : Order[j] = n
<1>2. N \in Nat /\ \E i \in 1 .. N : Order[i] = m
  BY OrderLength, OrderAssumption DEF N
<1>3. \E i \in 1 .. N : First(i)
  <2>1. CASE Order[1] # n
    <3>1. 1 \in 1 .. N /\ First(1)
      BY <1>2, <2>1
    <3> QED BY <3>1
  <2>2. CASE Order[1] = n
    <3>1. PICK i \in 1 .. N : Order[i] = m
      BY <1>2
    <3>2. i # 1 /\ 1 \in 1 .. N /\ 2 \in 1 .. N
      BY <1>1, <1>2, <2>2, <3>1
    <3>3. Order[2] # Order[1]
      BY <3>2, OrderAssumption DEF N
    <3>4. First(2)
      BY <3>3, <2>2
    <3> QED BY <3>2, <3>4
  <2> QED BY <2>1, <2>2
<1>4. First(CHOOSE i \in 1 .. N : First(i))
  BY <1>3
<1>5. Peer(n) = Order[CHOOSE i \in 1 .. N : First(i)]
  BY <1>1, <1>2 DEF Peer
<1> QED BY <1>4, <1>5

(* What a blind check asked: a drained node, which shows itself up; another*)
(* than the host's, or the host is alone.                                  *)
LEMMA BlindPeer ==
    ASSUME DrainedInv, PassesBefore, Blind
    PROVE  /\ Peer(Host) \in taken
           /\ Peer(Host) = Host => Nodes \subseteq {Host}
           /\ Peer(Host) # Host => DrainedShowsItselfUp
<1>1. TypeOK /\ cur \in 1 .. N /\ PeerFindings(Host, DownOk) = {}
  BY DEF DrainedInv, PassesBefore, CheckPeer, TypeOK
<1>2. Host \in Nodes /\ Peer(Host) \in Nodes
  BY <1>1, HostInNodes, PeerInNodes DEF Host
<1>3. mode[Peer(Host)] \in {"DRAINING", "DRAINED"}
  BY <1>1, PeerShows DEF Blind, Answers
<1>4. ASSUME Peer(Host) # Host PROVE DrainedShowsItselfUp
  <2>1. Shown(Peer(Host), Peer(Host)) = "UN"
    BY <1>1, <1>2, <1>4, PeerShows
  <2> QED BY <1>3, <2>1 DEF Shown
<1> QED BY <1>2, <1>3, <1>4, PeerOfTheOnlyNode DEF DrainedInv

(* The first host that is not in the progress file.                        *)
NextUp ==
    {n \in Nodes : /\ n \notin file[op]
                   /\ \E i \in 1 .. N : /\ Order[i] = n
                                         /\ \A j \in 1 .. (i - 1) : Order[j] \in file[op]}

(* When every stopped run is resumed before another begins, only the host  *)
(* the runs stopped at is out.                                             *)
HintInv ==
    /\ taken \subseteq NextUp
    /\ finished => taken = {}
    /\ unseen = {}

LEMMA HostIsNextUp ==
    ASSUME ProgressInv, pc \notin {"idle", "play"} PROVE NextUp = {Host}
<1>1. cur \in 1 .. N /\ Host \in Nodes /\ N \in Nat
  BY HostInNodes, OrderLength DEF ProgressInv, TypeOK, Host
<1>2. file[op] = done \cup Passed /\ Host \notin file[op]
  BY <1>1, HostNotPassed DEF ProgressInv
<1>3. Host \in NextUp
  BY <1>1, <1>2 DEF NextUp, Host, Passed
<1>4. ASSUME NEW n \in NextUp PROVE n = Host
  <2>1. PICK i \in 1 .. N : /\ Order[i] = n
                            /\ \A j \in 1 .. (i - 1) : Order[j] \in file[op]
    BY DEF NextUp
  <2>2. CASE i < cur
    <3>1. n \in Passed
      BY <1>1, <2>1, <2>2 DEF Passed
    <3> QED BY <1>2, <3>1 DEF NextUp
  <2>3. CASE i > cur
    <3>1. cur \in 1 .. (i - 1)
      BY <1>1, <2>3
    <3> QED BY <1>2, <2>1, <3>1 DEF Host
  <2>4. CASE i = cur
    BY <2>1, <2>4 DEF Host
  <2> QED BY <1>1, <2>2, <2>3, <2>4
<1> QED BY <1>3, <1>4

LEMMA HintStep ==
    ASSUME FollowsHint, ProgressInv, DrainedInv, HintInv, [Next]_vars
    PROVE  HintInv'
<1>1. TypeOK
  BY DEF ProgressInv
<1>2. pc \notin {"idle", "play"} => taken \subseteq {Host} /\ Host \in NextUp
  BY HostIsNextUp DEF HintInv
<1>3. pc # "idle" => ~finished
  BY DEF ProgressInv
(* A step that leaves the file and the play's operation, and takes down no *)
(* node but the host.                                                      *)
<1>4. ASSUME UNCHANGED <<op, finished, file>>, unseen' \subseteq unseen,
             \/ taken' \subseteq taken
             \/ pc \notin {"idle", "play"} /\ taken' \subseteq taken \cup {Host}
      PROVE  HintInv'
  <2>1. NextUp' = NextUp
    BY <1>4 DEF NextUp
  <2> QED BY <1>2, <1>3, <1>4, <2>1 DEF HintInv
<1>5. ASSUME NEW o \in Operations, Fresh(o) PROVE HintInv'
  BY <1>5 DEF Fresh, StartRun, HintInv
<1>6. ASSUME NEW o \in Operations, Resume(o) PROVE HintInv'
  <2>1. o = op
    BY <1>6 DEF Resume
  <2>2. UNCHANGED <<op, file, taken, unseen>> /\ ~finished'
    BY <1>6, <2>1 DEF Resume, StartRun, disk
  <2>3. NextUp' = NextUp
    BY <2>2 DEF NextUp
  <2> QED BY <2>2, <2>3 DEF HintInv
<1>7. CASE EndRun
  <2>1. UNCHANGED <<op, file, taken, unseen>>
    BY <1>7 DEF EndRun, disk
  <2>2. file[op] = done \cup Passed /\ Passed = Nodes
    BY <1>7, PassedAll DEF EndRun, ProgressInv
  <2>3. NextUp = {} /\ NextUp' = NextUp
    BY <2>1, <2>2 DEF NextUp
  <2> QED BY <2>1, <2>3 DEF HintInv
<1>8. CASE PassesBefore
  <2>1. pc = "before_peer" /\ UNCHANGED <<op, finished, file, taken>>
    BY <1>8 DEF PassesBefore, CheckPeer, disk
  <2>2. unseen' = {}
    <3>1. CASE ~Blind
      BY <1>8, <3>1 DEF PassesBefore
    <3>2. CASE Blind
      <4>1. Peer(Host) = Host
        BY <1>2, <1>8, <2>1, <3>2, BlindPeer
      <4>2. Nodes \subseteq {Host} /\ taken \cup knownDown \subseteq Nodes
        BY <1>1, <1>8, <3>2, <4>1, BlindPeer DEF TypeOK
      <4> QED BY <1>8, <3>2, <4>2 DEF PassesBefore
    <3> QED BY <3>1, <3>2
  <2> QED BY <1>4, <2>1, <2>2
<1>9. CASE Record
  <2>1. pc = "record" /\ UNCHANGED <<finished, taken, unseen>>
    BY <1>9 DEF Record
  <2>2. Host \notin taken
    BY <2>1 DEF ProgressInv, Back
  <2>3. taken = {}
    BY <1>2, <2>1, <2>2
  <2> QED BY <2>1, <2>3 DEF HintInv
<1>10. CASE Skip \/ Begin \/ CheckAfter \/ DrainOver \/ WaitNormal \/ Booted
            \/ (CheckSelf("before_self", "before_peer") /\ UNCHANGED unseen)
  BY <1>4, <1>10 DEF Skip, Begin, CheckAfter, CheckSelf, CheckPeer, DrainOver,
                     WaitNormal, Booted, disk
<1>11. CASE Unhealthy \/ GiveUp \/ DrainNoAnswer \/ Interrupt
  BY <1>4, <1>11 DEF Unhealthy, GiveUp, DrainNoAnswer, Interrupt, StopRun, disk
<1>12. CASE Drain
  BY <1>4, <1>12 DEF Drain, disk
<1>13. CASE Restart \/ Reboot
  BY <1>4, <1>13 DEF Restart, Reboot, TakeDown, disk
<1>14. CASE Environment
  BY <1>4, <1>14 DEF Environment, Crash, Repair, HostBoots, DrainCompletes,
                     Joined, Notices, run, disk
<1>15. CASE UNCHANGED vars
  BY <1>4, <1>15 DEF vars
<1> QED
  BY <1>5, <1>6, <1>7, <1>8, <1>9, <1>10, <1>11, <1>12, <1>13, <1>14, <1>15
     DEF Next, Operator, Step, CheckBefore

THEOREM HintInvariant == ASSUME FollowsHint PROVE Spec => []HintInv
<1>1. Init => HintInv
  BY DEF Init, HintInv
<1> QED BY <1>1, HintStep, ProgressInvariant, DrainedInvariant, PTL DEF Spec

NoneUnseen == unseen = {}

(* A DSE node that is drained does not show itself up.                     *)
LEMMA StateOfItsOwnStep ==
    ASSUME ~DrainedShowsItselfUp, DrainedInv, unseen = {}, [Next]_vars
    PROVE  unseen' = {}
<1>1. CASE PassesBefore
  <2>1. CASE ~Blind
    BY <1>1, <2>1 DEF PassesBefore
  <2>2. CASE Blind
    <3>1. Nodes \subseteq {Host} /\ taken \cup knownDown \subseteq Nodes
      BY <1>1, <2>2, BlindPeer DEF DrainedInv, TypeOK
    <3> QED BY <1>1, <2>2, <3>1 DEF PassesBefore
  <2> QED BY <2>1, <2>2
<1>2. ASSUME NEW o \in Operations, Fresh(o) \/ Resume(o) PROVE unseen' = {}
  BY <1>2 DEF Fresh, Resume, StartRun
<1>3. CASE EndRun \/ Skip \/ Begin \/ CheckAfter \/ Drain \/ DrainOver
           \/ (CheckSelf("before_self", "before_peer") /\ UNCHANGED unseen)
  BY <1>3 DEF EndRun, Skip, Begin, CheckAfter, Drain, DrainOver
<1>4. CASE Restart \/ Reboot \/ Booted \/ WaitNormal \/ Record
  BY <1>4 DEF Restart, Reboot, TakeDown, Booted, WaitNormal, Record
<1>5. CASE Unhealthy \/ GiveUp \/ DrainNoAnswer \/ Interrupt
  BY <1>5 DEF Unhealthy, GiveUp, DrainNoAnswer, Interrupt, StopRun
<1>6. CASE Environment
  BY <1>6 DEF Environment, Crash, Repair, HostBoots, DrainCompletes, Joined, Notices
<1>7. CASE UNCHANGED vars
  BY <1>7 DEF vars
<1> QED
  BY <1>1, <1>2, <1>3, <1>4, <1>5, <1>6, <1>7
     DEF Next, Operator, Step, CheckBefore

THEOREM NothingUnseen ==
    ASSUME FollowsHint \/ ~DrainedShowsItselfUp PROVE Spec => []NoneUnseen
<1>1. CASE FollowsHint
  <2>1. HintInv => NoneUnseen
    BY DEF HintInv, NoneUnseen
  <2> QED BY <1>1, <2>1, HintInvariant, PTL
<1>2. CASE ~DrainedShowsItselfUp
  <2>1. Init => NoneUnseen
    BY DEF Init, NoneUnseen
  <2>2. DrainedInv /\ NoneUnseen /\ [Next]_vars => NoneUnseen'
    BY <1>2, StateOfItsOwnStep DEF NoneUnseen
  <2> QED BY <2>1, <2>2, DrainedInvariant, PTL DEF Spec
<1> QED BY <1>1, <1>2

(* Without exemption: when a stopped run is resumed before any other, as   *)
(* its last message asks, or when a drained node shows itself as such (DSE)*)
(* a run drains, restarts or reboots a host only while no other node is out*)
(* because of a rolling operation.                                         *)
THEOREM ResumedFirstActsAlone ==
    ASSUME FollowsHint \/ ~DrainedShowsItselfUp PROVE Spec => []OtherDownStops
<1>1. ActsAlone /\ NoneUnseen => OtherDownStops
  BY DEF ActsAlone, OtherDownStops, NoneUnseen
<1> QED BY <1>1, TouchesAlone, NothingUnseen, PTL

-----------------------------------------------------------------------------
LEMMA PromiseInit == ASSUME "restart" \in Operations PROVE Init => Promise!Init
BY DEF Init, Promise!Init

(* What a step does to the variables of the promise.                 *)
promise == <<taken, taken \cap unseen, restarted["restart"], file["restart"]>>

LEMMA PromiseStep ==
    ASSUME "restart" \in Operations, ProgressInv, AloneInv, DrainedInv,
           FollowsHint => HintInv, [Next]_vars
    PROVE  [Promise!Next]_promise
<1>1. TypeOK
  BY DEF ProgressInv
<1>2. pc \notin {"idle", "play"} => cur \in 1 .. N /\ Host \in Nodes
  BY <1>1, HostInNodes DEF TypeOK, Host
<1>3. Touching => Host \notin unseen /\ (Host \in taken \/ taken \subseteq taken \cap unseen)
  BY DEF AloneInv, Out
<1>4. ASSUME NEW o \in Operations, Fresh(o) PROVE [Promise!Next]_promise
  <2>1. taken' = taken /\ unseen' = unseen
    BY <1>4 DEF Fresh, StartRun
  <2>2. CASE o = "restart"
    <3>1. Promise!StartOver
      BY <1>1, <1>4, <2>1, <2>2 DEF Fresh, TypeOK, Promise!StartOver
    <3> QED BY <3>1 DEF Promise!Next
  <2>3. CASE o # "restart"
    BY <1>1, <1>4, <2>1, <2>3 DEF Fresh, TypeOK, promise
  <2> QED BY <2>2, <2>3
<1>5. ASSUME NEW o \in Operations, Resume(o) PROVE [Promise!Next]_promise
  BY <1>5 DEF Resume, StartRun, disk, promise
<1>6. CASE Drain
  <2>1. /\ pc = "drain" /\ taken' = taken \cup {Host}
        /\ UNCHANGED <<file, restarted, unseen>>
    BY <1>6 DEF Drain, disk
  <2>2. taken' = taken \/ Promise!TakeOut(Host)
    BY <1>3, <2>1 DEF Touching, Promise!TakeOut
  <2> QED BY <1>2, <2>1, <2>2 DEF promise, Promise!Next
<1>7. CASE Restart
  <2>1. /\ pc = "act" /\ op = "restart" /\ UNCHANGED <<file, unseen>>
        /\ taken' \in {taken, taken \cup {Host}}
        /\ restarted' = [restarted EXCEPT ![op] = @ \cup {Host}]
    BY <1>7 DEF Restart, TakeDown, disk
  <2>2. restarted'["restart"] = restarted["restart"] \cup {Host}
    BY <1>1, <2>1 DEF TypeOK
  <2>3. Host \notin file["restart"]
    BY <2>1, ActsOnAHostAhead
  <2>4. Promise!Serve(Host)
    BY <1>3, <2>1, <2>2, <2>3 DEF Touching, Promise!Serve
  <2> QED BY <1>2, <2>1, <2>4 DEF Promise!Next
<1>8. CASE Reboot
  <2>1. /\ pc = "act" /\ op = "reboot" /\ UNCHANGED <<file, unseen>>
        /\ taken' \in {taken, taken \cup {Host}}
        /\ restarted' = [restarted EXCEPT ![op] = @ \cup {Host}]
    BY <1>8 DEF Reboot, TakeDown, disk
  <2>2. restarted'["restart"] = restarted["restart"]
    BY <1>1, <2>1 DEF TypeOK
  <2>3. taken' = taken \/ Promise!TakeOut(Host)
    BY <1>3, <2>1, <2>2 DEF Touching, Promise!TakeOut
  <2> QED BY <1>2, <2>1, <2>2, <2>3 DEF promise, Promise!Next
<1>9. CASE Record
  <2>1. /\ pc = "record" /\ UNCHANGED <<taken, unseen, restarted>>
        /\ file' = [file EXCEPT ![op] = @ \cup {Host}]
    BY <1>9 DEF Record
  <2>2. Host \in restarted[op] \ taken
    BY <2>1 DEF ProgressInv, Acted, Back
  <2>3. CASE op = "restart"
    <3>1. Promise!CountDone(Host)
      BY <1>1, <2>1, <2>2, <2>3 DEF TypeOK, Promise!CountDone
    <3> QED BY <1>2, <2>1, <3>1 DEF Promise!Next
  <2>4. CASE op # "restart"
    BY <1>1, <2>1, <2>4 DEF TypeOK, promise
  <2> QED BY <2>3, <2>4
<1>10. ASSUME NEW n \in Nodes, Joined(n) PROVE [Promise!Next]_promise
  <2>1. /\ taken' = taken \ {n} /\ unseen' = unseen \ {n}
        /\ UNCHANGED <<file, restarted>>
    BY <1>10 DEF Joined, disk
  <2>2. \/ taken' = taken /\ taken' \cap unseen' = taken \cap unseen
        \/ Promise!ComeBack(n)
    BY <2>1 DEF Promise!ComeBack
  <2> QED BY <2>1, <2>2 DEF promise, Promise!Next
<1>11. ASSUME UNCHANGED <<taken, unseen, file, restarted>> PROVE [Promise!Next]_promise
  BY <1>11 DEF promise
<1>12. CASE EndRun \/ Skip \/ Begin \/ CheckAfter
            \/ (CheckSelf("before_self", "before_peer") /\ UNCHANGED unseen)
  BY <1>11, <1>12 DEF EndRun, Skip, Begin, CheckAfter, CheckSelf, CheckPeer, disk
<1>18. CASE PassesBefore
  <2>1. /\ Host \in Nodes /\ UNCHANGED <<taken, restarted, file>>
        /\ unseen' = IF Blind THEN (taken \cup knownDown) \ {Host} ELSE {}
    BY <1>2, <1>18 DEF PassesBefore, CheckPeer, disk
  <2>2. ASSUME taken \subseteq {Host} PROVE Promise!Look(Host)
    BY <2>1, <2>2 DEF Promise!Look
  <2>3. CASE ~Blind
    <3>1. taken \subseteq {Host}
      BY <1>18, <2>3, SeenAlone DEF Out
    <3> QED BY <2>1, <2>2, <3>1 DEF Promise!Next
  <2>4. CASE Blind /\ Peer(Host) = Host
    <3>1. taken \subseteq {Host}
      BY <1>1, <1>18, <2>4, BlindPeer DEF TypeOK
    <3> QED BY <2>1, <2>2, <3>1 DEF Promise!Next
  <2>5. CASE Blind /\ Peer(Host) # Host
    <3>1. Peer(Host) \in taken /\ DrainedShowsItselfUp
      BY <1>18, <2>5, BlindPeer
    <3>2. ~FollowsHint
      <4>1. pc \notin {"idle", "play"}
        BY <1>18 DEF PassesBefore, CheckPeer
      <4> QED BY <2>5, <3>1, <4>1, HostIsNextUp DEF HintInv
    <3>3. Promise!Overlook(Host)
      BY <2>1, <2>5, <3>1, <3>2 DEF Promise!Overlook
    <3> QED BY <2>1, <3>3 DEF Promise!Next
  <2> QED BY <2>3, <2>4, <2>5
<1>13. CASE Unhealthy \/ GiveUp \/ DrainNoAnswer \/ Interrupt
  BY <1>11, <1>13 DEF Unhealthy, GiveUp, DrainNoAnswer, Interrupt, StopRun, disk
<1>14. CASE DrainOver \/ Booted \/ WaitNormal
  BY <1>11, <1>14 DEF DrainOver, Booted, WaitNormal, disk
<1>15. ASSUME NEW n \in Nodes,
              Crash(n) \/ Repair(n) \/ HostBoots(n) \/ DrainCompletes(n)
       PROVE  [Promise!Next]_promise
  BY <1>11, <1>15 DEF Crash, Repair, HostBoots, DrainCompletes, disk
<1>16. ASSUME NEW m \in Nodes, NEW n \in Nodes, Notices(m, n)
       PROVE  [Promise!Next]_promise
  BY <1>11, <1>16 DEF Notices, disk
<1>17. CASE UNCHANGED vars
  BY <1>11, <1>17 DEF vars
<1> QED
  BY <1>4, <1>5, <1>6, <1>7, <1>8, <1>9, <1>10, <1>12, <1>13, <1>14, <1>15, <1>16,
     <1>17, <1>18 DEF Next, Operator, Step, CheckBefore, Environment

(* The rolling restart implements OneNodeAtATime, whatever the reboots, the*)
(* crashes and the interruptions meanwhile (rolling_restart.yml); a node   *)
(* out is overlooked only where a drained node shows itself up and other   *)
(* runs are begun before a stopped one is resumed.                         *)
THEOREM ImplementsPromise ==
    ASSUME "restart" \in Operations PROVE Spec => RestartKeepsPromise
<1>1. Init => Promise!Init
  BY PromiseInit
<1>2. ProgressInv /\ AloneInv /\ DrainedInv /\ (FollowsHint => HintInv) /\ [Next]_vars
        => [Promise!Next]_promise
  BY PromiseStep
<1>3. Spec => [](FollowsHint => HintInv)
  <2>1. CASE FollowsHint
    <3>1. HintInv => (FollowsHint => HintInv)
      OBVIOUS
    <3> QED BY <2>1, <3>1, HintInvariant, PTL
  <2>2. CASE ~FollowsHint
    <3>1. FollowsHint => HintInv
      BY <2>2
    <3> QED BY <3>1, PTL
  <2> QED BY <2>1, <2>2
<1>4. [Promise!Next]_promise <=> [Promise!Next]_Promise!vars
  BY DEF promise, Promise!vars
<1> QED BY <1>1, <1>2, <1>3, <1>4, ProgressInvariant, AloneInvariant, DrainedInvariant, PTL
        DEF Spec, RestartKeepsPromise, Promise!Spec
=============================================================================
