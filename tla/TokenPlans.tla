----------------------------- MODULE TokenPlans -----------------------------
(***************************************************************************)
(* The plans made from a ring: plugins/filter/cassandra_tokens.py.  The    *)
(* tokens create_cluster gives, the places add_node offers, the moves      *)
(* move_node makes.  A ring is now a function from the nodes of every      *)
(* datacenter to their positions; a refused plan has ok = FALSE, whatever  *)
(* the problem it tells.  Nodes have one token (vnodes are refused before).*)
(***************************************************************************)
EXTENDS Tokens

CONSTANTS
    Order,      \* the inventory's nodes, in its order
    Dc,         \* Dc[n]: the datacenter of a node, ordered as numbers
    Rfs,        \* Rfs[dc]: the replication factors of the keyspaces there
    DcOffset,   \* distance between two datacenters' rings
    DefaultRf   \* cassandra_token_rf

Hosts == ToSet(Order)

ASSUME OrderAssumption == Order \in Seq(Hosts)
ASSUME NamesAssumption == /\ \A n \in Hosts : Dc[n] \in Int /\ Rack[n] \in Int
                          /\ DcOffset \in Nat \ {0}

\* The ring has positions enough for every node, those it leaves and goes to.
ASSUME RoomAssumption == 3 * Cardinality(Hosts) < Size

\* The nodes of S, in the order of the inventory.
Of(S) == InOrder(S \cap Hosts, [n \in Hosts |-> CHOOSE i \in 1 .. Len(Order) : Order[i] = n])

Dcs(S) == {Dc[n] : n \in S}

OfDc(ring, dc) == Restrict(ring, {n \in DOMAIN ring : Dc[n] = dc})

\* The offset of a datacenter: its rank among the names.
Offset(dcs, dc) == Cardinality({d \in dcs : d < dc}) * DcOffset

\* The replication factors the plans count with; `known`: the keyspaces were read.
RfSet(known, dc) == IF known /\ Rfs[dc] # {} THEN Rfs[dc] ELSE {DefaultRf}

\* Positions in turn, each one moved on past the ones taken.
Past(held, p) ==
    (p + Min({k \in 0 .. Cardinality(held) : (p + k) % Size \notin held})) % Size

WithSpot(out, p, taken) == Append(out, Past(taken \cup ToSet(out), p))

Nudge(spots, taken) ==
    LET out[i \in 0 .. Len(spots)] == IF i = 0 THEN <<>> ELSE WithSpot(out[i - 1], spots[i], taken)
    IN  out[Len(spots)]

----------------------------------------------------------------------------
(***************************************************************************)
(* cassandra_token_move_plan                                               *)
(***************************************************************************)
\* The moves the operator asks for, and those another node stands in the way of.
Wanted(where, dc, targets) ==
    Restrict(targets, {n \in DOMAIN targets : Dc[n] = dc /\ where[n] # targets[n]})

Held(where, dc, targets) ==
    \E n \in DOMAIN targets : \E m \in DOMAIN where \ {n} :
        /\ Dc[n] = dc
        /\ where[m] = targets[n]
        /\ Dc[m] # dc \/ m \notin DOMAIN targets

\* The moves that even a datacenter out, none when no share gets closer.
NudgedAlong(order, plan, taken) == Paired(order, Nudge(Along(plan, order), taken))

\* The nodes of a plan, in the order of the ring.
Nudged(plan, ring, taken) ==
    Restrict(NudgedAlong(InOrder(DOMAIN plan, ring), plan, taken), DOMAIN plan)

(* Mutant: the two rings compared are swapped. *)
OnlyCloserSwapped(moves, cur, rfs) ==
    IF \E rf \in rfs : Spread(cur, rf) < Spread(Overlay(moves, cur), rf) THEN moves ELSE [n \in {} |-> 0]

OnlyCloser(moves, cur, rfs) ==
    IF \E rf \in rfs : Spread(Overlay(moves, cur), rf) < Spread(cur, rf) THEN moves ELSE [n \in {} |-> 0]

EvenDc(cur, others, offset, rfs) ==
    OnlyCloser(Nudged(PlanBalanced(cur, <<>>, Max(rfs), offset).moves, cur, others), cur, rfs)

Elsewhere(where, cur) == {where[n] : n \in DOMAIN where \ DOMAIN cur}

EvenMoves(where, cur, dc, known) ==
    EvenDc(cur, Elsewhere(where, cur), Offset(Dcs(DOMAIN where), dc), RfSet(known, dc))

\* One datacenter after the ones planned before it (`where`: the ring after
\* their moves), each step with the nodes that lose a range in it.
StepsOf(cur, moves, order, rfs) ==
    [i \in 1 .. Len(order) |->
        [name |-> order[i], to |-> moves[order[i]],
         loss |-> UNION {Losers(After(cur, moves, order, i - 1), After(cur, moves, order, i), rf) : rf \in rfs}]]

MovesInOrder(st, cur, moves, order, rfs) ==
    [where |-> After(st.where, moves, order, Len(order)),
     steps |-> st.steps \o StepsOf(cur, moves, order, rfs),
     ok    |-> st.ok /\ Len(order) = Cardinality(DOMAIN moves)]

Moved(st, cur, moves, rfs) == MovesInOrder(st, cur, moves, MoveOrder(cur, moves), rfs)

MovesOf(where, cur, dc, targets, known) ==
    IF targets = <<>> THEN EvenMoves(where, cur, dc, known) ELSE Wanted(where, dc, targets)

PlanIn(st, cur, dc, busy, targets, known) ==
    IF busy \cap DOMAIN cur # {} \/ Held(st.where, dc, targets) THEN [st EXCEPT !.ok = FALSE]
    ELSE Moved(st, cur, MovesOf(st.where, cur, dc, targets, known), RfSet(known, dc))

PlanDc(st, dc, busy, targets, known) ==
    IF ~st.ok \/ (targets # <<>> /\ dc \notin Dcs(DOMAIN targets)) THEN st
    ELSE PlanIn(st, OfDc(st.where, dc), dc, busy, targets, known)

\* The cleanup is of every node that may have lost a range (simple: a keyspace
\* has the SimpleStrategy).
Cleanup(steps, nodes, known, simple) ==
    IF steps = <<>> THEN {}
    ELSE IF ~known THEN {n \in nodes : \E i \in DOMAIN steps : Dc[n] = Dc[steps[i].name]}
    ELSE IF simple THEN nodes
    ELSE UNION {steps[i].loss : i \in DOMAIN steps}

Planned(plan, nodes, known, simple) ==
    [ok      |-> plan.ok /\ IsInjective(plan.where),
     steps   |-> plan.steps,
     cleanup |-> Cleanup(plan.steps, nodes, known, simple)]

\* targets: <<>> to even every datacenter out.
PlanDcs(ring, dcs, busy, targets, known) ==
    LET plan[i \in 0 .. Len(dcs)] ==
            IF i = 0 THEN [where |-> ring, steps |-> <<>>, ok |-> DOMAIN targets \subseteq DOMAIN ring]
            ELSE PlanDc(plan[i - 1], dcs[i], busy, targets, known)
    IN  plan[Len(dcs)]

MovePlan(ring, busy, targets, known, simple) ==
    Planned(PlanDcs(ring, Ascending(Dcs(DOMAIN ring)), busy, targets, known),
            DOMAIN ring, known, simple)

----------------------------------------------------------------------------
(***************************************************************************)
(* cassandra_token_add_plan, the new nodes of one datacenter; given: the   *)
(* tokens the inventory sets, free: the other new nodes, in join order.    *)
(***************************************************************************)
\* The first offset from the datacenter's own whose positions nobody holds.
FreeOffsets(own, count, taken) ==
    {o \in own .. Size \div count - 1 :
         /\ (o - own) % DcOffset = 0
         /\ ToSet(BalancedPositions(count, o)) \cap taken = {}}

Refused == [ok |-> FALSE, new |-> [n \in {} |-> 0]]
Accepted(new) == [ok |-> TRUE, new |-> new]

GivenTaken(ring, given) == Positions(given) \cap Positions(ring) # {} \/ ~IsInjective(given)

\* A ring with two nodes at a token is refused.
Checked(cur, new) == [ok |-> IsInjective(Overlay(new, cur)), new |-> new]

\* The new nodes of a ring on the tokens given and found, these moved past the
\* taken ones; refused when one has no room.
Offered(cur, given, placed, taken) ==
    IF DOMAIN placed.at # ToSet(placed.order) THEN Refused
    ELSE Checked(cur, Overlay(given, NudgedAlong(placed.order, placed.at, taken)))

\* A datacenter with no node yet: as create_cluster would.
Fresh(turn, offsets, taken) ==
    IF offsets = {} THEN Refused
    ELSE Offered(<<>>, <<>>, Placed(Paired(turn, BalancedPositions(Len(turn), Min(offsets))), turn), taken)

NewDcPlan(ring, dc, given, free, known) ==
    IF given = <<>>
    THEN Fresh(RackOrder(free),
               FreeOffsets(Offset(Dcs(DOMAIN ring) \cup {dc}, dc), Len(free), Positions(ring)),
               Positions(ring))
    ELSE Offered(<<>>, given, PlanBisect(given, RackOrder(free), Max(RfSet(known, dc))),
                 Positions(ring) \cup Positions(given))

\* No node moves: the new nodes split ranges.
BisectPlan(ring, cur, dc, given, free, known) ==
    Offered(cur, given, PlanBisect(Overlay(cur, given), RackOrder(free), Max(RfSet(known, dc))),
            Positions(ring) \cup Positions(given))

\* An even ring for the new count: the new nodes at their final tokens, the
\* moves of the others left to move_node.
KeepNew(nudged, new, cur) ==
    [ok  |-> IsInjective(Overlay(nudged, cur)) /\ \A n \in new : nudged[n] \notin Positions(cur),
     new |-> Restrict(nudged, new)]

BalancedInto(plan, cur, others) ==
    KeepNew(NudgedAlong(InOrder(DOMAIN plan.moves, cur) \o plan.new.order,
                        Overlay(plan.moves, plan.new.at), others),
            DOMAIN plan.new.at, cur)

BalancedPlan(ring, cur, dc, given, free, known) ==
    IF given # <<>> THEN Refused
    ELSE BalancedInto(PlanBalanced(cur, free, Max(RfSet(known, dc)), Offset(Dcs(DOMAIN ring), dc)),
                      cur, Positions(ring) \ Positions(cur))

AddPlan(kind, ring, dc, given, free, known) ==
    IF GivenTaken(ring, given) THEN Refused
    ELSE IF free = <<>> /\ (OfDc(ring, dc) = <<>> \/ kind = "bisect") THEN Accepted(given)
    ELSE IF OfDc(ring, dc) = <<>> THEN NewDcPlan(ring, dc, given, free, known)
    ELSE IF kind = "bisect" THEN BisectPlan(ring, OfDc(ring, dc), dc, given, free, known)
    ELSE BalancedPlan(ring, OfDc(ring, dc), dc, given, free, known)

----------------------------------------------------------------------------
(***************************************************************************)
(* cassandra_token_assign: the inventory's nodes, `given` the tokens it    *)
(* sets, `ring` the ring already running.                                  *)
(***************************************************************************)
DcPlan(here, turn, offset) ==
    IF turn = <<>> THEN here
    ELSE IF here = <<>> THEN Paired(turn, BalancedPositions(Len(turn), offset))
    ELSE Overlay(here, PlanBisect(here, turn, DefaultRf).at)

DcTokens(nodes, dc, given) ==
    DcPlan(OfDc(given, dc), RackOrder(Of({n \in nodes \ DOMAIN given : Dc[n] = dc})),
           Offset(Dcs(nodes), dc))

\* Some nodes of a datacenter have a token and not the others.
Partial(nodes, given) ==
    \E m, n \in nodes : Dc[m] = Dc[n] /\ m \in DOMAIN given /\ n \notin DOMAIN given

\* What each datacenter's plan gives its nodes.
TokensOf(nodes, given) ==
    LET plan == [dc \in Dcs(nodes) |-> DcTokens(nodes, dc, given)]
    IN  [n \in {m \in nodes : m \in DOMAIN plan[Dc[m]]} |-> plan[Dc[n]][n]]

Assigned(nodes, planned, ring) ==
    IF DOMAIN planned # nodes \/ \E n \in DOMAIN ring : planned[n] # ring[n] THEN Refused
    ELSE [ok |-> IsInjective(planned), new |-> Restrict(planned, DOMAIN planned \ DOMAIN ring)]

AssignPlan(nodes, given, ring, allowPartial) ==
    IF nodes \subseteq DOMAIN ring THEN Accepted(<<>>)
    ELSE IF (Partial(nodes, given) /\ ~allowPartial) \/ ~(DOMAIN ring \subseteq nodes) THEN Refused
    ELSE Assigned(nodes, TokensOf(nodes, given), ring)
=============================================================================
