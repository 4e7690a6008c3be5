------------------------------- MODULE Tokens -------------------------------
(***************************************************************************)
(* The arithmetic of single-token rings: plugins/module_utils/             *)
(* cassandra_tokens.py.  A ring is a function from the nodes of one        *)
(* datacenter to their positions in 0 .. Size - 1, no position twice; the  *)
(* shares are lengths, Size times the fractions of the code.  The searches *)
(* of the code (a dynamic programme, a bounded scan of the spacings) are   *)
(* stated by what they minimise, with their ties.                          *)
(***************************************************************************)
EXTENDS Integers, FiniteSets, SequencesExt

CONSTANTS
    Size,  \* positions of the partitioner's ring
    Rack   \* Rack[n]: the rack of a node, racks ordered as numbers

ASSUME SizeAssumption == Size \in Nat \ {0, 1}

\* Scores are sequences of numbers, compared as Python compares its tuples.
LexLess(s, t) ==
    \E i \in 1 .. Len(s) : s[i] < t[i] /\ \A j \in 1 .. i - 1 : s[j] = t[j]

\* What has the lowest score, among pairs of a score and what it is of (one of
\* them, whatever the scores are).
Best(scored) ==
    LET lowest == {x \in scored : \A y \in scored : ~LexLess(y[1], x[1])}
    IN  (CHOOSE x \in scored : x \in lowest \/ lowest = {})[2]

\* The union of two functions, the first one over the second.
Overlay(f, g) == [n \in DOMAIN f \cup DOMAIN g |-> IF n \in DOMAIN f THEN f[n] ELSE g[n]]

Put(cur, name, to) == [n \in DOMAIN cur \cup {name} |-> IF n = name THEN to ELSE cur[n]]

(***************************************************************************)
(* Positions and ranges.                                                   *)
(***************************************************************************)
\* The shorter way from one position to another.
Distance(p, q) == Min({(q - p) % Size, (p - q) % Size})

\* How far from its balanced position a node may stay.
Tolerance(count) == Max({1, Size \div (count * 10000)})

\* Positions of `count` nodes spaced evenly, the first one at `offset`.
BalancedPositions(count, offset) ==
    [i \in 1 .. count |-> ((i - 1) * Size) \div count + offset]

\* The elements of S in the order of their (distinct) ranks.
InOrder(S, rank) ==
    [k \in 1 .. Cardinality(S) |->
        CHOOSE x \in S : Cardinality({y \in S : rank[y] < rank[x]}) = k - 1]

Ascending(S) == InOrder(S, [x \in S |-> x])

\* The nodes of a ring in the order of their positions.
InRing(ring) == InOrder(DOMAIN ring, ring)

\* Length of the range that ends at position p and starts at the one before it
\* among ps: the whole ring when it is alone.
RangeLength(ps, p) ==
    IF ps = {p} THEN Size ELSE Min({(p - q) % Size : q \in ps \ {p}})

Positions(ring) == {ring[n] : n \in DOMAIN ring}

RacksOf(S) == {Rack[n] : n \in S}

(***************************************************************************)
(* Replicas of NetworkTopologyStrategy: from the range's end, a node of a  *)
(* rack not met yet, or, while there are more replicas than racks, of one  *)
(* already met.                                                            *)
(***************************************************************************)
\* (`far`: how far each node is from the range's end.)
FirstOfRacks(far) ==
    {n \in DOMAIN far : \A m \in DOMAIN far : far[m] < far[n] => Rack[m] # Rack[n]}

Nearest(S, far, k) == {n \in S : Cardinality({m \in S : far[m] < far[n]}) < k}

Taken(far, firsts, repeats) ==
    firsts \cup Nearest(DOMAIN far \ firsts, far, repeats)

ReplicasFrom(far, rf) ==
    Nearest(Taken(far, FirstOfRacks(far), rf - Cardinality(RacksOf(DOMAIN far))), far, rf)

Replicas(ring, pos, rf) == ReplicasFrom([n \in DOMAIN ring |-> (ring[n] - pos) % Size], rf)

\* What a node holds as primary owner, and as one of the replicas.
Primary(ring, n) == RangeLength(Positions(ring), ring[n])

Shares(ranges, nodes) ==
    [n \in nodes |-> MapThenSumSet(LAMBDA r : r[2], {r \in ranges : n \in r[3]})]

Effective(ring, rf) ==
    Shares({<<n, Primary(ring, n), Replicas(ring, ring[n], rf)>> : n \in DOMAIN ring}, DOMAIN ring)

\* The nodes that replicate a range before and no longer after.
Losers(before, after, rf) ==
    UNION {Replicas(before, p, rf) \ Replicas(after, p, rf) :
               p \in Positions(before) \cup Positions(after)}

(***************************************************************************)
(* How even a ring is: the effective shares largest first, then the        *)
(* primary ones.                                                           *)
(***************************************************************************)
Values(f) == {f[n] : n \in DOMAIN f}

LargestFirst(f) ==
    [k \in 1 .. Cardinality(DOMAIN f) |->
        CHOOSE v \in Values(f) : /\ Cardinality({n \in DOMAIN f : f[n] > v}) < k
                                 /\ Cardinality({n \in DOMAIN f : f[n] >= v}) >= k]

Primaries(ring) == [n \in DOMAIN ring |-> Primary(ring, n)]

BalanceKey(ring, rf) == LargestFirst(Effective(ring, rf)) \o LargestFirst(Primaries(ring))

LargestOnly(ring, rf) == <<Max(Values(Effective(ring, rf))), Max(Values(Primaries(ring)))>>

Width(values) == Max(values) - Min(values)

Spread(ring, rf) == Width(Values(Effective(ring, rf)))

(***************************************************************************)
(* New nodes: racks in turn, then on the positions found for them.         *)
(***************************************************************************)
\* How many nodes of its rack come before the i-th one.
Rank(new, i) == Cardinality({j \in 1 .. i - 1 : Rack[new[j]] = Rack[new[i]]})

RackOrder(new) ==
    [k \in 1 .. Len(new) |->
        new[CHOOSE i \in 1 .. Len(new) :
                k - 1 = Cardinality({j \in 1 .. Len(new) :
                            LexLess(<<Rank(new, j), Rack[new[j]]>>, <<Rank(new, i), Rack[new[i]]>>)})]]

\* The ways to give the spots to the new nodes, those of a rack in their order.
Placements(spots, new) ==
    {f \in Bijection(ToSet(new), spots) :
        \A i, j \in 1 .. Len(new) :
            i < j /\ Rack[new[i]] = Rack[new[j]] => f[new[i]] < f[new[j]]}

\* What f gives along a sequence of its arguments.
Along(f, s) == [i \in 1 .. Len(s) |-> f[s[i]]]

\* The racks met along the spots: what tells two placements apart.
RacksAlong(f) == Along(Rack, InRing(f))

\* The new nodes' positions, and the order of their list.
Placed(at, order) == [at |-> at, order |-> order]

\* The given placement is the last of those tried.
Place(base, spots, new, rf, given) ==
    IF Cardinality(RacksOf(DOMAIN base \cup ToSet(new))) < 2 THEN Placed(given, new)
    ELSE Best({<<BalanceKey(Overlay(base, f), rf) \o <<0>> \o RacksAlong(f), Placed(f, InRing(f))>> :
                   f \in Placements(spots, new)}
              \cup {<<BalanceKey(Overlay(base, given), rf) \o <<1>>, Placed(given, new)>>})

\* The function that gives the i-th value to the i-th argument.
Paired(s, values) == [n \in ToSet(s) |-> values[CHOOSE i \in 1 .. Len(s) : s[i] = n]]

\* The nodes in turn on the spots in order.
InTurn(spots, new) == Paired(new, Ascending(spots))

(***************************************************************************)
(* bisect: each new node in turn at the middle of a range, three ways.     *)
(***************************************************************************)
\* The middles of the ranges that can be split, with their lengths.
Middles(ps) ==
    {<<x[1], (x[2] - x[1] + x[1] \div 2) % Size>> :
        x \in {y \in {<<RangeLength(ps, p), p>> : p \in ps} : y[1] >= 2}}

\* The smallest is taken: of the range x split by n, by the way tried (1 the most
\* even ring, 2 its largest shares only, 3 the largest range).
Score(way, ring, n, x, rf) ==
    CASE way = 1 -> Append(BalanceKey(Put(ring, n, x[2]), rf), x[2])
      [] way = 2 -> Append(LargestOnly(Put(ring, n, x[2]), rf), x[2])
      [] OTHER   -> <<-x[1], x[2]>>

\* (A node the ring has no room left for is left out: its plan is refused.)
SplitOne(way, cur, n, middles, rf) ==
    IF middles = {} THEN cur ELSE Put(cur, n, Best({<<Score(way, cur, n, x, rf), x[2]>> : x \in middles}))

Split(way, cur, n, rf) == SplitOne(way, cur, n, Middles(Positions(cur)), rf)

BisectBy(way, ring, new, rf) ==
    LET cur[i \in 0 .. Len(new)] == IF i = 0 THEN ring ELSE Split(way, cur[i - 1], new[i], rf)
    IN  Restrict(cur[Len(new)], ToSet(new) \cap DOMAIN cur[Len(new)])

PlaceOn(found, ring, new, rf) == Place(ring, Positions(found), new, rf, found)

PlanBisect(ring, new, rf) ==
    Best({<<Append(BalanceKey(Overlay(ring, p[2].at), rf), p[1]), p[2]>> :
              p \in {<<way, PlaceOn(BisectBy(way, ring, new, rf), ring, new, rf)>> : way \in 1 .. 3}})

(***************************************************************************)
(* balanced: the ring and its new nodes evenly spaced, fewest moves first. *)
(***************************************************************************)
\* The existing positions to targets, their order round the ring kept: a first
\* target, then strictly later ones.
Assignments(count, targets) ==
    {p \in [1 .. count -> 0 .. targets - 1] :
        p[1] = 0 /\ \A i \in 1 .. count - 1 : p[i] < p[i + 1]}

\* The targets (from a rotation on) of the nodes, fewest moves first, then the
\* shortest distance, the first rotation, the earliest targets from the end.
Chosen(targets, s, p) == [i \in DOMAIN p |-> targets[1 + ((s + p[i]) % Len(targets))]]

Cost(existing, to, tol) ==
    <<Cardinality({i \in DOMAIN to : Distance(existing[i], to[i]) > tol}),
      MapThenSumSet(LAMBDA i : Distance(existing[i], to[i]), DOMAIN to)>>

Assign(existing, targets, tol) ==
    Best({<<Cost(existing, c[3], tol) \o <<c[1]>> \o Reverse(c[2]),
            [cost |-> Cost(existing, c[3], tol), to |-> c[3]]>> :
              c \in {<<s, p, Chosen(targets, s, p)>> :
                         s \in 0 .. Len(targets) - 1, p \in Assignments(Len(existing), Len(targets))}})

\* The spacings tried: the convention's, then one per node, none within tol of
\* one before it.
Apart(o, q, spacing) == Min({(o - q) % spacing, (q - o) % spacing})

WithOffset(os, o, spacing, tol) ==
    IF \A i \in DOMAIN os : Apart(o, os[i], spacing) > tol THEN Append(os, o) ELSE os

Offsets(existing, spacing, offset, tol) ==
    LET starts == Ascending({existing[i] % spacing : i \in DOMAIN existing})
        os[i \in 0 .. Len(starts)] ==
            IF i = 0 THEN <<offset % spacing>> ELSE WithOffset(os[i - 1], starts[i], spacing, tol)
    IN  os[Len(starts)]

\* At least so many moves with these targets.
AtLeast(existing, targets, tol) ==
    Cardinality({i \in DOMAIN existing :
                     \A j \in DOMAIN targets : Distance(existing[i], targets[j]) > tol})

\* An offset tried, the r-th one: its score, the targets and where each node goes.
Tried(existing, targets, found, tol, r) ==
    <<found.cost \o <<IF r = 1 THEN 0 ELSE 1, AtLeast(existing, targets, tol), r>>,
      [targets |-> targets, to |-> found.to]>>

TryOffset(existing, targets, tol, r) ==
    Tried(existing, targets, Assign(existing, targets, tol), tol, r)

BestOffset(existing, offsets, count, tol) ==
    Best({TryOffset(existing, BalancedPositions(count, offsets[r]), tol, r) : r \in DOMAIN offsets})

\* The nodes farther than the tolerance from where they are to be.
Movers(ring, to, tol) == Restrict(to, {n \in DOMAIN ring : Distance(ring[n], to[n]) > tol})

\* [moves: the nodes that move and where, new: where the new nodes go].
Balanced(ring, moves, free, turn, rf) ==
    [moves |-> moves, new |-> Place(Overlay(moves, ring), free, turn, rf, InTurn(free, turn))]

PlanOn(best, ring, order, turn, rf, tol) ==
    Balanced(ring, Movers(ring, Paired(order, best.to), tol), ToSet(best.targets) \ ToSet(best.to), turn, rf)

PlanInOrder(ring, order, new, rf, offset, tol) ==
    PlanOn(BestOffset(Along(ring, order),
                      Offsets(Along(ring, order), Size \div (Len(order) + Len(new)), offset, tol),
                      Len(order) + Len(new), tol),
           ring, order, RackOrder(new), rf, tol)

PlanBalanced(ring, new, rf, offset) ==
    PlanInOrder(ring, InRing(ring), new, rf, offset, Tolerance(Cardinality(DOMAIN ring) + Len(new)))

(***************************************************************************)
(* The order of the moves.                                                 *)
(***************************************************************************)
\* The gap between the other positions that x falls in (the first and the last
\* one are the same, round the ring).
Gap(x, others) == Cardinality({o \in others : o < x}) % Cardinality(others)

(* Mutant: the node already there is not looked at. *)
FreeAlways(pos, n, to) == pos[n] # to

Free(pos, n, to) == \A m \in DOMAIN pos \ {n} : pos[m] # to

KeepsOrderAmong(others, p, to) == others = {} \/ Gap(p, others) = Gap(to, others)

KeepsOrder(pos, n, to) == KeepsOrderAmong({pos[m] : m \in DOMAIN pos \ {n}}, pos[n], to)

\* The first of S by position (none of none).
Earliest(S, pos) == {n \in S : \A m \in S : pos[n] <= pos[m]}

\* The next move: by position, one that passes no node if there is one.
PreferKept(free, kept, pos) == Earliest(IF kept # {} THEN kept ELSE free, pos)

Ready(pos, moves, left) ==
    PreferKept({n \in left : Free(pos, n, moves[n])},
               {n \in left : Free(pos, n, moves[n]) /\ KeepsOrder(pos, n, moves[n])}, pos)

\* The ring after the first i moves of an order.
After(ring, moves, order, i) ==
    [n \in DOMAIN ring |-> IF \E j \in 1 .. i : order[j] = n THEN moves[n] ELSE ring[n]]

\* An order and the move ready after it, or as it is when they block each other.
Extended(order, ready) == IF ready = {} THEN order ELSE Append(order, CHOOSE n \in ready : TRUE)

WithNext(ring, moves, order) ==
    Extended(order, Ready(After(ring, moves, order, Len(order)), moves, DOMAIN moves \ ToSet(order)))

\* The moves in order; fewer of them than asked when they block each other.
MoveOrder(ring, moves) ==
    LET order[i \in 0 .. Cardinality(DOMAIN moves)] ==
            IF i = 0 THEN <<>> ELSE WithNext(ring, moves, order[i - 1])
    IN  order[Cardinality(DOMAIN moves)]
=============================================================================
