-------------------------- MODULE TokenMovesProofs --------------------------
(***************************************************************************)
(* Proofs about the moves of a single-token ring, for any nodes, racks,    *)
(* datacenters, replication, rings and tokens asked: the list of cleanups  *)
(* names every node that keeps data a move took from it; no node is moved  *)
(* to, or started at, a token another node has when its turn comes.        *)
(***************************************************************************)
EXTENDS TokenMoves, TLAPS, FiniteSetTheorems, SequenceTheorems, WellFoundedInduction

(***************************************************************************)
(* Induction, on a set of numbers, and what a recursion over numbers is.   *)
(***************************************************************************)
\* What holds of 0, and of each number whose predecessor it holds of.
LEMMA StepInduction ==
    ASSUME NEW N \in Nat, NEW P, 0 \in P, \A i \in 1 .. N : i - 1 \in P => i \in P
    PROVE  0 .. N \subseteq P
<1> DEFINE R == OpToRel(<, Nat)
           Left == {i \in 0 .. N : i \notin P}
<1>1. IsWellFoundedOn(R, Nat)
  BY NatLessThanWellFounded, Zenon
<1>2. \A x, y \in Nat : x < y => <<x, y>> \in R
  BY DEF OpToRel
<1>3. SUFFICES ASSUME Left # {} PROVE FALSE
  OBVIOUS
<1>4. Left \subseteq Nat
  OBVIOUS
<1> HIDE DEF R, Left
<1>5. PICK i \in Left : \A j \in Left : <<j, i>> \notin R
  BY <1>1, <1>3, <1>4, WFMin, Zenon
<1> USE DEF Left
<1>6. i # 0 /\ i - 1 \in Nat /\ i - 1 < i /\ i \in 1 .. N /\ i - 1 \in 0 .. N
  BY <1>5
<1>7. <<i - 1, i>> \in R
  BY <1>2, <1>5, <1>6
<1>8. i - 1 \in P
  BY <1>5, <1>6, <1>7
<1> QED BY <1>5, <1>6, <1>8

\* There are k numbers from 1 to k.
LEMMA FirstNumbers == \A k \in Nat : IsFiniteSet(1 .. k) /\ Cardinality(1 .. k) = k
<1> SUFFICES ASSUME NEW k \in Nat PROVE IsFiniteSet(1 .. k) /\ Cardinality(1 .. k) = k
  OBVIOUS
<1> QED BY FS_Interval

\* A sequence has finitely many elements, no more than its length.
LEMMA ElementsFinite ==
    ASSUME NEW D, NEW s \in Seq(D)
    PROVE  /\ IsFiniteSet(ToSet(s)) /\ Cardinality(ToSet(s)) \in 0 .. Len(s)
           /\ ToSet(s) \subseteq D
<1>1. s \in Surjection(1 .. Len(s), ToSet(s)) /\ ToSet(s) \subseteq D
  BY DEF Surjection, ToSet
<1>2. IsFiniteSet(1 .. Len(s)) /\ Cardinality(1 .. Len(s)) = Len(s) /\ Len(s) \in Nat
  BY FirstNumbers
<1>3. IsFiniteSet(ToSet(s)) /\ Cardinality(ToSet(s)) <= Len(s)
  BY <1>1, <1>2, FS_Surjection
<1>4. Cardinality(ToSet(s)) \in Nat
  BY <1>3, FS_CardinalityType
<1> QED BY <1>1, <1>2, <1>3, <1>4

\* The inventory is finite.
LEMMA HostsFinite == IsFiniteSet(Hosts) /\ Cardinality(Hosts) \in Nat
<1>1. IsFiniteSet(ToSet(Order)) /\ Cardinality(ToSet(Order)) \in 0 .. Len(Order)
  BY OrderAssumption, ElementsFinite
<1> QED BY <1>1, FS_CardinalityType DEF Hosts

-----------------------------------------------------------------------------
(***************************************************************************)
(* The order of the moves: each node once, to a place free by then.        *)
(***************************************************************************)
Orders(cur, moves, N) ==
    LET order[i \in 0 .. N] == IF i = 0 THEN <<>> ELSE WithNext(cur, moves, order[i - 1])
    IN  order

\* The orders, one move after the other, are what the recursion says.
LEMMA OrdersSo ==
    ASSUME NEW cur, NEW moves, NEW N \in Nat
    PROVE  Orders(cur, moves, N) =
             [i \in 0 .. N |-> IF i = 0 THEN <<>> ELSE WithNext(cur, moves, Orders(cur, moves, N)[i - 1])]
<1> DEFINE So(f, n) == f = [i \in 0 .. n |-> IF i = 0 THEN <<>> ELSE WithNext(cur, moves, f[i - 1])]
           P == {n \in 0 .. N : \E f : So(f, n)}
<1>1. 0 \in P
  <2>1. So([i \in 0 .. 0 |-> <<>>], 0)
    OBVIOUS
  <2> HIDE DEF So
  <2> QED BY <2>1
<1>2. ASSUME NEW n \in 1 .. N, n - 1 \in P PROVE n \in P
  <2>1. PICK f : So(f, n - 1)
    BY <1>2
  <2> DEFINE g == [i \in 0 .. n |-> IF i = n THEN WithNext(cur, moves, f[n - 1]) ELSE f[i]]
  <2>2. ASSUME NEW i \in 0 .. n
        PROVE  g[i] = IF i = 0 THEN <<>> ELSE WithNext(cur, moves, g[i - 1])
    <3>1. CASE i = n
      BY <3>1
    <3>2. CASE i # n
      <4>1. i \in 0 .. n - 1 /\ g[i] = f[i] /\ (i # 0 => i - 1 \in 0 .. n /\ g[i - 1] = f[i - 1])
        BY <3>2
      <4>2. f[i] = IF i = 0 THEN <<>> ELSE WithNext(cur, moves, f[i - 1])
        BY <2>1, <4>1
      <4> QED BY <4>1, <4>2
    <3> QED BY <3>1, <3>2
  <2>3. So(g, n)
    BY <2>2
  <2> HIDE DEF So
  <2> QED BY <2>3
<1>3. N \in P
  <2> HIDE DEF P
  <2>1. 0 .. N \subseteq P
    BY <1>1, <1>2, StepInduction
  <2> QED BY <2>1
<1>4. \E f : So(f, N)
  BY <1>3
<1>5. Orders(cur, moves, N) = CHOOSE f : So(f, N)
  BY DEF Orders
<1> QED BY <1>4, <1>5, Zenon

\* Each node of the order moves once, to a place no other is at when it does.
FreeInTurn(cur, moves, order) ==
    \A j \in 1 .. Len(order) :
        /\ Free(After(cur, moves, order, j - 1), order[j], moves[order[j]])
        /\ \A i \in 1 .. j - 1 : order[i] # order[j]

\* A move more, to a place free after the others.
LEMMA OneMoreInTurn ==
    ASSUME NEW cur, NEW moves, NEW S, NEW order \in Seq(S), FreeInTurn(cur, moves, order),
           NEW n \in S, n \notin ToSet(order), Free(After(cur, moves, order, Len(order)), n, moves[n])
    PROVE  FreeInTurn(cur, moves, Append(order, n))
<1> DEFINE more == Append(order, n)
<1>1. /\ Len(more) = Len(order) + 1 /\ more[Len(order) + 1] = n /\ Len(order) \in Nat
      /\ \A i \in 1 .. Len(order) : more[i] = order[i]
  OBVIOUS
<1> HIDE DEF more
<1>2. ASSUME NEW j \in 1 .. Len(order) + 1 PROVE After(cur, moves, more, j - 1) = After(cur, moves, order, j - 1)
  <2>1. \A i \in 1 .. j - 1 : more[i] = order[i]
    BY <1>1
  <2> QED BY <2>1 DEF After
<1>3. ASSUME NEW j \in 1 .. Len(order) + 1
      PROVE  /\ Free(After(cur, moves, more, j - 1), more[j], moves[more[j]])
             /\ \A i \in 1 .. j - 1 : more[i] # more[j]
  <2>1. CASE j \in 1 .. Len(order)
    <3>1. more[j] = order[j] /\ \A i \in 1 .. j - 1 : more[i] = order[i]
      BY <1>1, <2>1
    <3> QED BY <1>2, <2>1, <3>1 DEF FreeInTurn
  <2>2. CASE j = Len(order) + 1
    <3>1. \A i \in 1 .. Len(order) : order[i] # n
      BY DEF ToSet
    <3>2. j - 1 = Len(order) /\ more[j] = n
      BY <1>1, <2>2
    <3>3. After(cur, moves, more, j - 1) = After(cur, moves, order, Len(order))
      BY <1>2, <3>2
    <3> QED BY <1>1, <3>1, <3>2, <3>3
  <2> QED BY <1>1, <2>1, <2>2
<1> QED BY <1>1, <1>3 DEF FreeInTurn, more

\* The order of the moves: of nodes that move, each one free when its turn comes.
LEMMA MoveOrderFree ==
    ASSUME NEW cur, NEW moves, IsFiniteSet(DOMAIN moves)
    PROVE  /\ MoveOrder(cur, moves) \in Seq(DOMAIN moves)
           /\ FreeInTurn(cur, moves, MoveOrder(cur, moves))
<1> DEFINE N == Cardinality(DOMAIN moves)
           order == Orders(cur, moves, N)
           P == {i \in 0 .. N : order[i] \in Seq(DOMAIN moves) /\ FreeInTurn(cur, moves, order[i])}
<1>1. N \in Nat
  BY FS_CardinalityType
<1>2. order = [i \in 0 .. N |-> IF i = 0 THEN <<>> ELSE WithNext(cur, moves, order[i - 1])]
  <2> HIDE DEF N
  <2> QED BY <1>1, OrdersSo
<1>3. MoveOrder(cur, moves) = order[N]
  BY DEF MoveOrder, Orders
<1> HIDE DEF N, order
<1>4. 0 \in P
  <2>1. order[0] = <<>>
    BY <1>1, <1>2
  <2>2. order[0] \in Seq(DOMAIN moves) /\ FreeInTurn(cur, moves, order[0])
    <3> DEFINE none == order[0]
    <3>1. none \in Seq(DOMAIN moves) /\ 1 .. Len(none) = {}
      BY <2>1
    <3> HIDE DEF none
    <3>2. FreeInTurn(cur, moves, none)
      BY <3>1 DEF FreeInTurn
    <3> QED BY <3>1, <3>2 DEF none
  <2>3. 0 \in 0 .. N
    BY <1>1
  <2> QED BY <2>2, <2>3
<1>5. ASSUME NEW i \in 1 .. N, i - 1 \in P PROVE i \in P
  <2> DEFINE former == order[i - 1]
             left == DOMAIN moves \ ToSet(former)
             after == After(cur, moves, former, Len(former))
             ready == Ready(after, moves, left)
  <2>1. order[i] = WithNext(cur, moves, former) /\ former \in Seq(DOMAIN moves) /\ FreeInTurn(cur, moves, former)
    BY <1>1, <1>2, <1>5
  <2>2. ready \subseteq {n \in left : Free(after, n, moves[n])}
    <3> HIDE DEF after, left
    <3> QED BY DEF Ready, PreferKept, Earliest
  <2>3. WithNext(cur, moves, former) = Extended(former, ready)
    BY DEF WithNext
  <2> HIDE DEF former, ready
  <2>4. Extended(former, ready) \in Seq(DOMAIN moves) /\ FreeInTurn(cur, moves, Extended(former, ready))
    <3>1. CASE ready = {}
      BY <3>1, <2>1 DEF Extended
    <3>2. CASE ready # {}
      <4> DEFINE n == CHOOSE n \in ready : TRUE
      <4>1. n \in DOMAIN moves /\ n \notin ToSet(former) /\ Free(after, n, moves[n])
        BY <3>2, <2>2
      <4>2. Extended(former, ready) = Append(former, n)
        BY <3>2 DEF Extended
      <4> HIDE DEF n
      <4>3. FreeInTurn(cur, moves, Append(former, n))
        BY <2>1, <4>1, OneMoreInTurn
      <4> QED BY <4>1, <4>2, <4>3, <2>1
    <3> QED BY <3>1, <3>2
  <2> QED BY <2>1, <2>3, <2>4
<1>6. N \in P
  <2> HIDE DEF P
  <2>1. 0 .. N \subseteq P
    BY <1>1, <1>4, <1>5, StepInduction
  <2> QED BY <1>1, <2>1
<1> QED BY <1>3, <1>6

-----------------------------------------------------------------------------
(***************************************************************************)
(* A plan, seen from the ring it starts from: the ring before and after    *)
(* each of its steps, and who loses a range in it.                         *)
(***************************************************************************)
Functional(f) == f = [n \in DOMAIN f |-> f[n]]

IsSequence(s) == \E S : s \in Seq(S)

\* A sequence after another one.
LEMMA JoinedSequences ==
    ASSUME NEW s, NEW t, IsSequence(s), IsSequence(t)
    PROVE  /\ IsSequence(s \o t) /\ Len(s \o t) = Len(s) + Len(t)
           /\ Len(s) \in Nat /\ Len(t) \in Nat
           /\ \A i \in 1 .. Len(s) : (s \o t)[i] = s[i]
           /\ \A i \in 1 .. Len(t) : (s \o t)[Len(s) + i] = t[i]
<1>1. PICK S, T : s \in Seq(S) /\ t \in Seq(T)
  BY DEF IsSequence
<1>2. s \in Seq(S \cup T) /\ t \in Seq(S \cup T)
  BY <1>1, SeqMonotonic
<1>3. s \o t \in Seq(S \cup T)
  BY <1>2
<1> QED BY <1>2, <1>3 DEF IsSequence

\* What the nodes of a ring may lose when one goes to a place.
Losses(cur, name, to, rfs) ==
    UNION {Losers(cur, [cur EXCEPT ![name] = to], rf) : rf \in rfs}

LossesIn(cur, name, to) == Losses(OfDc(cur, Dc[name]), name, to, Rfs[Dc[name]])

\* R: the ring before the first step, then after each.
Tracks(R, done) ==
    \A j \in 1 .. Len(done) :
        /\ R[j] = [R[j - 1] EXCEPT ![done[j].name] = done[j].to]
        /\ LossesIn(R[j - 1], done[j].name, done[j].to) \subseteq done[j].loss

LeadsFrom(cur, st, known) ==
    /\ Functional(st.where) /\ DOMAIN st.where = DOMAIN cur
    /\ IsSequence(st.steps)
    /\ \A i \in 1 .. Len(st.steps) : st.steps[i].name \in DOMAIN cur
    /\ known => \E R : R[0] = cur /\ R[Len(st.steps)] = st.where /\ Tracks(R, st.steps)

Spares(st, busy) == \A i \in 1 .. Len(st.steps) : \A n \in busy : Dc[st.steps[i].name] # Dc[n]

\* A datacenter of the ring that some moves leave.
LEMMA OfDcAfter ==
    ASSUME NEW cur, NEW moves, NEW order, NEW i, NEW dc
    PROVE  OfDc(After(cur, moves, order, i), dc) = After(OfDc(cur, dc), moves, order, i)
BY DEF OfDc, After, Restrict

\* One move further in an order.
LEMMA NextAfter ==
    ASSUME NEW cur, NEW moves, NEW S, NEW order \in Seq(S), NEW i \in 1 .. Len(order)
    PROVE  After(cur, moves, order, i)
             = [After(cur, moves, order, i - 1) EXCEPT ![order[i]] = moves[order[i]]]
<1>1. \A n : (\E j \in 1 .. i : order[j] = n) <=> (order[i] = n \/ \E j \in 1 .. i - 1 : order[j] = n)
  OBVIOUS
<1> QED BY <1>1 DEF After

AfterEach(cur, moves, order) == [i \in 0 .. Len(order) |-> After(cur, moves, order, i)]

DcFits(where, dc, moves, order, rfs) ==
    LET own == StepsOf(OfDc(where, dc), moves, order, rfs) IN
    /\ IsSequence(own) /\ Len(own) = Len(order)
    /\ \A i \in 1 .. Len(order) : own[i].name \in DOMAIN where /\ Dc[own[i].name] = dc
    /\ After(where, moves, order, 0) = where
    /\ Rfs[dc] \subseteq rfs => Tracks(AfterEach(where, moves, order), own)

\* The steps of one datacenter, seen from the ring after the ones before it.
LEMMA StepsInDc ==
    ASSUME NEW where, Functional(where), NEW dc, NEW moves, NEW order \in Seq(DOMAIN moves), NEW rfs,
           \A n \in DOMAIN moves : n \in DOMAIN where /\ Dc[n] = dc
    PROVE  DcFits(where, dc, moves, order, rfs)
<1> DEFINE parts == StepsOf(OfDc(where, dc), moves, order, rfs)
           R == AfterEach(where, moves, order)
<1>1. Len(order) \in Nat /\ \A i \in 1 .. Len(order) : order[i] \in DOMAIN moves
  OBVIOUS
<1>2. parts = [i \in 1 .. Len(order) |-> parts[i]]
  BY DEF StepsOf
<1>3. IsSequence(parts) /\ Len(parts) = Len(order)
  <2> HIDE DEF parts
  <2> DEFINE S == {parts[i] : i \in 1 .. Len(order)}
  <2>1. parts \in Seq(S)
    BY <1>1, <1>2
  <2>2. Len(parts) = Len(order)
    BY <1>1, <1>2
  <2> QED BY <2>1, <2>2 DEF IsSequence
<1>4. ASSUME NEW i \in 1 .. Len(order)
      PROVE  /\ R[i] = [R[i - 1] EXCEPT ![parts[i].name] = parts[i].to]
             /\ Rfs[dc] \subseteq rfs =>
                  LossesIn(R[i - 1], parts[i].name, parts[i].to) \subseteq parts[i].loss
             /\ parts[i].name \in DOMAIN where /\ Dc[parts[i].name] = dc
  <2> DEFINE n == order[i]
             before == After(where, moves, order, i - 1)
             after == After(where, moves, order, i)
  <2>1. /\ parts[i].name = n /\ parts[i].to = moves[n]
        /\ parts[i].loss = UNION {Losers(After(OfDc(where, dc), moves, order, i - 1),
                                         After(OfDc(where, dc), moves, order, i), rf) : rf \in rfs}
    BY DEF StepsOf
  <2>2. n \in DOMAIN where /\ Dc[n] = dc
    BY <1>1
  <2>3. R[i] = after /\ R[i - 1] = before
    BY <1>1 DEF AfterEach
  <2>4. after = [before EXCEPT ![n] = moves[n]]
    BY NextAfter, <1>1
  <2>5. After(OfDc(where, dc), moves, order, i)
          = [After(OfDc(where, dc), moves, order, i - 1) EXCEPT ![n] = moves[n]]
    <3> DEFINE cur == OfDc(where, dc)
    <3> HIDE DEF cur
    <3>1. After(cur, moves, order, i) = [After(cur, moves, order, i - 1) EXCEPT ![n] = moves[n]]
      BY NextAfter, <1>1
    <3> QED BY <3>1 DEF cur
  <2>6. OfDc(before, dc) = After(OfDc(where, dc), moves, order, i - 1)
    BY OfDcAfter
  <2> HIDE DEF before, after, n, parts, R
  <2>7. parts[i].loss = Losses(OfDc(before, dc), n, moves[n], rfs)
    BY <2>1, <2>5, <2>6 DEF Losses
  <2>8. Rfs[dc] \subseteq rfs => LossesIn(before, n, moves[n]) \subseteq parts[i].loss
    <3>1. LossesIn(before, n, moves[n]) = Losses(OfDc(before, dc), n, moves[n], Rfs[dc])
      BY <2>2 DEF LossesIn
    <3> QED BY <2>7, <3>1 DEF Losses
  <2> QED BY <2>1, <2>2, <2>3, <2>4, <2>8
<1>5. Rfs[dc] \subseteq rfs => Tracks(R, parts)
  <2> HIDE DEF R, parts
  <2> QED BY <1>3, <1>4 DEF Tracks
<1>6. After(where, moves, order, 0) = where
  BY DEF After, Functional
<1> QED BY <1>3, <1>4, <1>5, <1>6 DEF DcFits

(***************************************************************************)
(* The plan of every datacenter, and of all.                               *)
(***************************************************************************)
\* The steps of a datacenter lead from the ring before to the ring after them.
LEMMA MovesInDc ==
    ASSUME NEW where, NEW dc, NEW targets, NEW known, DOMAIN targets \subseteq DOMAIN where
    PROVE  DOMAIN MovesOf(where, OfDc(where, dc), dc, targets, known)
             \subseteq {n \in DOMAIN where : Dc[n] = dc}
<1> DEFINE cur == OfDc(where, dc)
<1>1. DOMAIN cur = {n \in DOMAIN where : Dc[n] = dc}
  BY DEF OfDc, Restrict
<1>2. DOMAIN Wanted(where, dc, targets) \subseteq DOMAIN cur
  BY <1>1 DEF Wanted, Restrict
<1> HIDE DEF cur
<1>3. ASSUME NEW offset, NEW rf PROVE DOMAIN PlanBalanced(cur, <<>>, rf, offset).moves \subseteq DOMAIN cur
  BY DEF PlanBalanced, PlanInOrder, PlanOn, Balanced, Movers, Restrict
<1>4. ASSUME NEW plan, NEW taken PROVE DOMAIN Nudged(plan, cur, taken) = DOMAIN plan
  BY DEF Nudged, Restrict
<1>5. ASSUME NEW others, NEW offset, NEW rfs
      PROVE  DOMAIN EvenDc(cur, others, offset, rfs) \subseteq DOMAIN cur
  <2> DEFINE moves == Nudged(PlanBalanced(cur, <<>>, Max(rfs), offset).moves, cur, others)
  <2>1. DOMAIN moves \subseteq DOMAIN cur
    BY <1>3, <1>4
  <2> HIDE DEF moves
  <2>2. DOMAIN OnlyCloser(moves, cur, rfs) \subseteq DOMAIN cur
    <3>1. OnlyCloser(moves, cur, rfs) \in {moves, [n \in {} |-> 0]}
      BY DEF OnlyCloser
    <3> QED BY <2>1, <3>1
  <2> QED BY <2>2 DEF EvenDc, moves
<1>6. DOMAIN EvenMoves(where, cur, dc, known) \subseteq DOMAIN cur
  BY <1>5 DEF EvenMoves
<1> QED BY <1>1, <1>2, <1>6 DEF MovesOf, cur

\* One datacenter more: its steps lead on, and are of no busy one.
LEMMA PlanOfDc ==
    ASSUME NEW ring0, IsFiniteSet(DOMAIN ring0), NEW busy, busy \subseteq DOMAIN ring0,
           NEW targets, NEW known \in BOOLEAN, NEW dc, NEW st,
           LeadsFrom(ring0, st, known), Spares(st, busy),
           st = [where |-> st.where, steps |-> st.steps, ok |-> st.ok],
           st.ok => DOMAIN targets \subseteq DOMAIN ring0
    PROVE  LET next == PlanDc(st, dc, busy, targets, known) IN
           /\ LeadsFrom(ring0, next, known) /\ Spares(next, busy)
           /\ next = [where |-> next.where, steps |-> next.steps, ok |-> next.ok]
           /\ next.ok => DOMAIN targets \subseteq DOMAIN ring0
<1> DEFINE next == PlanDc(st, dc, busy, targets, known)
           cur == OfDc(st.where, dc)
           moves == MovesOf(st.where, cur, dc, targets, known)
           order == MoveOrder(cur, moves)
           rfs == RfSet(known, dc)
           mine == StepsOf(cur, moves, order, rfs)
           Goal == /\ LeadsFrom(ring0, next, known) /\ Spares(next, busy)
                   /\ next = [where |-> next.where, steps |-> next.steps, ok |-> next.ok]
                   /\ next.ok => DOMAIN targets \subseteq DOMAIN ring0
<1>1. CASE next = st
  <2> HIDE DEF next
  <2>1. Goal
    BY <1>1
  <2> QED BY <2>1 DEF next
<1>2. CASE next = [st EXCEPT !.ok = FALSE]
  <2> HIDE DEF next
  <2>1. next = [where |-> st.where, steps |-> st.steps, ok |-> FALSE]
    BY <1>2
  <2>2. next.where = st.where /\ next.steps = st.steps /\ ~next.ok
    BY <2>1
  <2>3. LeadsFrom(ring0, next, known) /\ Spares(next, busy)
    BY <2>2 DEF LeadsFrom, Spares
  <2> QED BY <2>1, <2>2, <2>3 DEF next
<1>3. CASE /\ st.ok /\ busy \cap DOMAIN cur = {}
           /\ next = MovesInOrder(st, cur, moves, order, rfs)
  <2>1. DOMAIN cur = {n \in DOMAIN st.where : Dc[n] = dc} /\ DOMAIN st.where = DOMAIN ring0
    BY DEF OfDc, Restrict, LeadsFrom
  <2>2. DOMAIN moves \subseteq DOMAIN cur
    <3>1. DOMAIN targets \subseteq DOMAIN st.where
      BY <1>3, <2>1
    <3> QED BY <2>1, <3>1, MovesInDc
  <2>3. order \in Seq(DOMAIN moves)
    <3>1. IsFiniteSet(DOMAIN moves)
      BY <2>1, <2>2, FS_Subset
    <3> QED BY <3>1, MoveOrderFree
  <2>4. Functional(st.where) /\ IsSequence(st.steps)
    BY DEF LeadsFrom
  <2>5. known => Rfs[dc] \subseteq rfs
    BY DEF RfSet
  <2> HIDE DEF moves, order, rfs
  <2>6. /\ IsSequence(mine) /\ Len(mine) = Len(order)
        /\ \A i \in 1 .. Len(order) : mine[i].name \in DOMAIN st.where /\ Dc[mine[i].name] = dc
        /\ After(st.where, moves, order, 0) = st.where
        /\ known => Tracks(AfterEach(st.where, moves, order), mine)
    <3>1. \A n \in DOMAIN moves : n \in DOMAIN st.where /\ Dc[n] = dc
      BY <2>1, <2>2
    <3>2. /\ IsSequence(mine) /\ Len(mine) = Len(order)
          /\ \A i \in 1 .. Len(order) : mine[i].name \in DOMAIN st.where /\ Dc[mine[i].name] = dc
          /\ After(st.where, moves, order, 0) = st.where
          /\ Rfs[dc] \subseteq rfs => Tracks(AfterEach(st.where, moves, order), mine)
      <4>1. Functional(st.where)
        BY <2>4
      <4>2. DcFits(st.where, dc, moves, order, rfs)
        BY <4>1, <3>1, <2>3, StepsInDc
      <4> QED BY <4>2 DEF DcFits
    <3> QED BY <3>2, <2>5
  <2>7. /\ next.where = After(st.where, moves, order, Len(order))
        /\ next.steps = st.steps \o mine
        /\ next = [where |-> next.where, steps |-> next.steps, ok |-> next.ok]
        /\ next.ok => st.ok
    <3> HIDE DEF next, mine
    <3> QED BY <1>3 DEF MovesInOrder, mine
  <2> HIDE DEF mine
  <2>8. /\ IsSequence(next.steps) /\ Len(next.steps) = Len(st.steps) + Len(mine)
        /\ Len(st.steps) \in Nat /\ Len(mine) \in Nat
        /\ \A i \in 1 .. Len(st.steps) : next.steps[i] = st.steps[i]
        /\ \A i \in 1 .. Len(mine) : next.steps[Len(st.steps) + i] = mine[i]
    BY <2>4, <2>6, <2>7, JoinedSequences
  <2>9. Functional(next.where) /\ DOMAIN next.where = DOMAIN ring0
    BY <2>1, <2>7 DEF After, Functional
  <2>10. ASSUME NEW i \in 1 .. Len(next.steps)
         PROVE  /\ next.steps[i].name \in DOMAIN ring0
                /\ \A n \in busy : Dc[next.steps[i].name] # Dc[n]
    <3>1. CASE i \in 1 .. Len(st.steps)
      BY <3>1, <2>8 DEF LeadsFrom, Spares
    <3>2. CASE i \notin 1 .. Len(st.steps)
      <4>1. i - Len(st.steps) \in 1 .. Len(mine) /\ Len(st.steps) + (i - Len(st.steps)) = i
        BY <3>2, <2>8
      <4>2. next.steps[i] = mine[i - Len(st.steps)]
        BY <4>1, <2>8
      <4>3. next.steps[i].name \in DOMAIN ring0 /\ Dc[next.steps[i].name] = dc
        BY <4>1, <4>2, <2>1, <2>6
      <4>4. \A n \in busy : Dc[n] # dc
        BY <1>3, <2>1
      <4> QED BY <4>3, <4>4
    <3> QED BY <3>1, <3>2
  <2>11. ASSUME known
         PROVE  \E R : R[0] = ring0 /\ R[Len(next.steps)] = next.where /\ Tracks(R, next.steps)
    <3>1. PICK R0 : R0[0] = ring0 /\ R0[Len(st.steps)] = st.where /\ Tracks(R0, st.steps)
      BY <2>11 DEF LeadsFrom
    <3> DEFINE R1 == AfterEach(st.where, moves, order)
    <3>2. R1[0] = st.where /\ R1[Len(mine)] = next.where /\ Tracks(R1, mine)
      BY <2>3, <2>6, <2>7, <2>8, <2>11 DEF AfterEach
    <3> HIDE DEF R1
    <3> DEFINE R == [i \in 0 .. Len(next.steps) |->
                       IF i <= Len(st.steps) THEN R0[i] ELSE R1[i - Len(st.steps)]]
    <3>3. R[0] = ring0 /\ R[Len(next.steps)] = next.where
      BY <2>8, <3>1, <3>2
    <3>4. ASSUME NEW i \in 1 .. Len(next.steps)
          PROVE  LET s == next.steps[i] IN
                 /\ R[i] = [R[i - 1] EXCEPT ![s.name] = s.to]
                 /\ LossesIn(R[i - 1], s.name, s.to) \subseteq s.loss
      <4>1. CASE i \in 1 .. Len(st.steps)
        <5>1. R[i] = R0[i] /\ R[i - 1] = R0[i - 1] /\ next.steps[i] = st.steps[i]
          BY <4>1, <2>8
        <5> HIDE DEF R
        <5> QED BY <3>1, <4>1, <5>1 DEF Tracks
      <4>2. CASE i \notin 1 .. Len(st.steps)
        <5> DEFINE k == i - Len(st.steps)
        <5>1. k \in 1 .. Len(mine) /\ next.steps[i] = mine[k]
          BY <4>2, <2>8
        <5>2. R[i] = R1[k] /\ R[i - 1] = R1[k - 1]
          BY <4>2, <2>8, <3>1, <3>2
        <5> HIDE DEF R, k
        <5> QED BY <3>2, <5>1, <5>2 DEF Tracks
      <4> QED BY <4>1, <4>2
    <3> HIDE DEF R
    <3>5. Tracks(R, next.steps)
      BY <3>4 DEF Tracks
    <3> QED BY <3>3, <3>5
  <2> HIDE DEF next
  <2>12. LeadsFrom(ring0, next, known)
    BY <2>8, <2>9, <2>10, <2>11 DEF LeadsFrom
  <2>13. Spares(next, busy)
    BY <2>10 DEF Spares
  <2> QED BY <2>7, <2>12, <2>13, <1>3 DEF next
<1>4. next = st \/ next = [st EXCEPT !.ok = FALSE]
      \/ (st.ok /\ busy \cap DOMAIN cur = {} /\ next = MovesInOrder(st, cur, moves, order, rfs))
  BY DEF PlanDc, PlanIn, Moved
<1> QED BY <1>1, <1>2, <1>3, <1>4

(***************************************************************************)
(* The plans of the datacenters in turn.                                   *)
(***************************************************************************)
Plans(cur, dcs, busy, targets, known) ==
    LET plan[i \in 0 .. Len(dcs)] ==
            IF i = 0 THEN [where |-> cur, steps |-> <<>>, ok |-> DOMAIN targets \subseteq DOMAIN cur]
            ELSE PlanDc(plan[i - 1], dcs[i], busy, targets, known)
    IN  plan

\* The plans, one datacenter after the other, are what the recursion says.
LEMMA PlansSo ==
    ASSUME NEW cur, NEW dcs, Len(dcs) \in Nat, NEW busy, NEW targets, NEW known
    PROVE  Plans(cur, dcs, busy, targets, known) =
             [i \in 0 .. Len(dcs) |->
                IF i = 0 THEN [where |-> cur, steps |-> <<>>, ok |-> DOMAIN targets \subseteq DOMAIN cur]
                ELSE PlanDc(Plans(cur, dcs, busy, targets, known)[i - 1], dcs[i], busy, targets, known)]
<1> DEFINE Base == [where |-> cur, steps |-> <<>>, ok |-> DOMAIN targets \subseteq DOMAIN cur]
           So(f, n) == f = [i \in 0 .. n |-> IF i = 0 THEN Base
                                             ELSE PlanDc(f[i - 1], dcs[i], busy, targets, known)]
           P == {n \in 0 .. Len(dcs) : \E f : So(f, n)}
<1> HIDE DEF Base
<1>1. 0 \in P
  <2>1. So([i \in 0 .. 0 |-> Base], 0)
    OBVIOUS
  <2> HIDE DEF So
  <2> QED BY <2>1
<1>2. ASSUME NEW n \in 1 .. Len(dcs), n - 1 \in P PROVE n \in P
  <2>1. PICK f : So(f, n - 1)
    BY <1>2
  <2> DEFINE g == [i \in 0 .. n |-> IF i = n THEN PlanDc(f[n - 1], dcs[n], busy, targets, known) ELSE f[i]]
  <2>2. ASSUME NEW i \in 0 .. n
        PROVE  g[i] = IF i = 0 THEN Base ELSE PlanDc(g[i - 1], dcs[i], busy, targets, known)
    <3>1. CASE i = n
      BY <3>1
    <3>2. CASE i # n
      <4>1. i \in 0 .. n - 1 /\ g[i] = f[i] /\ (i # 0 => i - 1 \in 0 .. n /\ g[i - 1] = f[i - 1])
        BY <3>2
      <4>2. f[i] = IF i = 0 THEN Base ELSE PlanDc(f[i - 1], dcs[i], busy, targets, known)
        BY <2>1, <4>1
      <4> QED BY <4>1, <4>2
    <3> QED BY <3>1, <3>2
  <2>3. So(g, n)
    BY <2>2
  <2> HIDE DEF So
  <2> QED BY <2>3
<1>3. Len(dcs) \in P
  <2> HIDE DEF P
  <2>1. 0 .. Len(dcs) \subseteq P
    BY <1>1, <1>2, StepInduction
  <2> QED BY <2>1
<1>4. \E f : So(f, Len(dcs))
  BY <1>3
<1>5. Plans(cur, dcs, busy, targets, known) = CHOOSE f : So(f, Len(dcs))
  BY DEF Plans, Base
<1>6. So(Plans(cur, dcs, busy, targets, known), Len(dcs))
  BY <1>4, <1>5, Zenon
<1> QED BY <1>6 DEF Base

\* There are not more datacenters than nodes.
LEMMA DcsFinite ==
    ASSUME NEW S, IsFiniteSet(S)
    PROVE  IsFiniteSet(Dcs(S))
<1> DEFINE f == [n \in S |-> Dc[n]]
<1>1. f \in Surjection(S, Dcs(S))
  BY DEF Surjection, Dcs
<1> HIDE DEF f
<1> QED BY <1>1, FS_Surjection, Zenon

\* The plans of datacenters in turn lead from the ring to the ring planned.
LEMMA PlanOfDcs ==
    ASSUME NEW cur, Functional(cur), IsFiniteSet(DOMAIN cur), NEW busy, busy \subseteq DOMAIN cur,
           NEW targets, NEW known \in BOOLEAN, NEW dcs, Len(dcs) \in Nat
    PROVE  LET plan == PlanDcs(cur, dcs, busy, targets, known) IN
           LeadsFrom(cur, plan, known) /\ Spares(plan, busy)
<1> DEFINE plan == Plans(cur, dcs, busy, targets, known)
           Base == [where |-> cur, steps |-> <<>>, ok |-> DOMAIN targets \subseteq DOMAIN cur]
           Good(st) == /\ LeadsFrom(cur, st, known) /\ Spares(st, busy)
                       /\ st = [where |-> st.where, steps |-> st.steps, ok |-> st.ok]
                       /\ st.ok => DOMAIN targets \subseteq DOMAIN cur
           P == {i \in 0 .. Len(dcs) : Good(plan[i])}
<1>1. plan = [i \in 0 .. Len(dcs) |-> IF i = 0 THEN Base
                                      ELSE PlanDc(plan[i - 1], dcs[i], busy, targets, known)]
  BY PlansSo
<1>2. PlanDcs(cur, dcs, busy, targets, known) = plan[Len(dcs)]
  BY DEF PlanDcs, Plans
<1> HIDE DEF plan
<1>3. Good(Base)
  <2>1. /\ Base.where = cur /\ Base.steps = <<>> /\ Len(Base.steps) = 0
        /\ Base.ok = (DOMAIN targets \subseteq DOMAIN cur)
    OBVIOUS
  <2>2. IsSequence(Base.steps)
    <3>1. <<>> \in Seq({})
      OBVIOUS
    <3> QED BY <3>1 DEF IsSequence
  <2>3. \E R : R[0] = cur /\ R[Len(Base.steps)] = Base.where /\ Tracks(R, Base.steps)
    <3> DEFINE R == [i \in {0} |-> cur]
    <3>1. R[0] = cur /\ R[Len(Base.steps)] = Base.where /\ Tracks(R, Base.steps)
      BY <2>1 DEF Tracks
    <3> QED BY <3>1
  <2>4. Base = [where |-> Base.where, steps |-> Base.steps, ok |-> Base.ok]
    OBVIOUS
  <2> HIDE DEF Base
  <2>5. LeadsFrom(cur, Base, known)
    BY <2>1, <2>2, <2>3 DEF LeadsFrom
  <2>6. Spares(Base, busy)
    BY <2>1 DEF Spares
  <2> QED BY <2>1, <2>4, <2>5, <2>6
<1>4. 0 \in P
  BY <1>1, <1>3
<1>5. ASSUME NEW i \in 1 .. Len(dcs), i - 1 \in P PROVE i \in P
  <2>1. plan[i] = PlanDc(plan[i - 1], dcs[i], busy, targets, known) /\ Good(plan[i - 1])
    BY <1>1, <1>5
  <2>2. Good(PlanDc(plan[i - 1], dcs[i], busy, targets, known))
    BY <2>1, PlanOfDc
  <2> HIDE DEF Good
  <2> QED BY <2>1, <2>2
<1>6. Len(dcs) \in P
  <2> HIDE DEF P
  <2>1. 0 .. Len(dcs) \subseteq P
    BY <1>4, <1>5, StepInduction
  <2> QED BY <2>1
<1> QED BY <1>2, <1>6

\* What a run's plan says of the ring it was made from.
PlanFits(cur, plan, busy, known) ==
    /\ IsSequence(plan.steps)
    /\ \A i \in 1 .. Len(plan.steps) :
          plan.steps[i].name \in DOMAIN cur /\ \A n \in busy : Dc[plan.steps[i].name] # Dc[n]
    /\ known => \E R : R[0] = cur /\ Tracks(R, plan.steps)

\* The plan of move_node fits the ring.
LEMMA PlanOfMoves ==
    ASSUME NEW cur, Functional(cur), IsFiniteSet(DOMAIN cur), NEW busy, busy \subseteq DOMAIN cur,
           NEW targets, NEW known \in BOOLEAN
    PROVE  PlanFits(cur, MovePlan(cur, busy, targets, known, simple), busy, known)
<1> DEFINE dcs == Ascending(Dcs(DOMAIN cur))
           inner == PlanDcs(cur, dcs, busy, targets, known)
           plan == MovePlan(cur, busy, targets, known, simple)
<1>1. Len(dcs) \in Nat
  <2>1. Cardinality(Dcs(DOMAIN cur)) \in Nat
    BY DcsFinite, FS_CardinalityType
  <2> QED BY <2>1 DEF Ascending, InOrder
<1>2. plan.steps = inner.steps
  BY DEF MovePlan, Planned
<1> HIDE DEF dcs, plan
<1>3. LeadsFrom(cur, inner, known) /\ Spares(inner, busy)
  BY <1>1, PlanOfDcs
<1> HIDE DEF inner
<1>4. PlanFits(cur, plan, busy, known)
  BY <1>2, <1>3 DEF LeadsFrom, Spares, PlanFits
<1> QED BY <1>4 DEF plan

-----------------------------------------------------------------------------
(***************************************************************************)
(* The invariant: whoever loses a range to a move under way is listed.     *)
(***************************************************************************)
Moving == pc \in {"record", "moves", "follow"}

RingSo == IsFiniteSet(DOMAIN ring) /\ Functional(ring)

MovingSo ==
    /\ Functional(moving) /\ DOMAIN moving \subseteq DOMAIN ring
    /\ \A m, n \in DOMAIN moving : m = n
    /\ \A n \in DOMAIN moving :
          /\ moving[n].dead \in BOOLEAN
          /\ moving[n] = [to   |-> moving[n].to, dead |-> moving[n].dead,
                       even |-> moving[n].even, read |-> moving[n].read]

\* A move that may still end: whom it takes a range from is listed (of a keyspace
\* with the SimpleStrategy, if its run had read the keyspaces), and the steps of
\* the run are of other datacenters, or it is the first of them.
LossListed ==
    \A n \in DOMAIN moving : ~moving[n].dead =>
        /\ IF moving[n].read THEN simple => DOMAIN ring \subseteq record
           ELSE {m \in DOMAIN ring : Dc[m] = Dc[n]} \subseteq record
        /\ LossesIn(ring, n, moving[n].to) \subseteq record
        /\ pc \in {"record", "moves"} => \A i \in 1 .. Len(steps) : Dc[steps[i].name] # Dc[n]
        /\ pc = "follow" => n = Head(steps).name /\ moving[n].to = Head(steps).to

\* The ring is where the steps left start from, or the first is made.
OnTrack ==
    \E R : /\ Tracks(R, steps)
           /\ ring = R[0] \/ (pc = "follow" /\ ring = R[1])

StepsSo ==
    Moving =>
        /\ IsSequence(steps) /\ (pc = "follow" => steps # <<>>)
        /\ \A i \in 1 .. Len(steps) : steps[i].name \in DOMAIN ring
        /\ simple /\ run.known => DOMAIN ring \subseteq cleanup
        /\ IF run.known THEN OnTrack
           ELSE \A i \in 1 .. Len(steps) :
                   {n \in DOMAIN ring : Dc[n] = Dc[steps[i].name]} \subseteq cleanup
        /\ pc # "record" => cleanup \subseteq record

\* What is listed of the run's hosts is still to be cleaned up, but for what no
\* move can be taking from them.
CleanSo ==
    pc = "cleanup" => \/ record \cap run.limit \subseteq cleanup
                      \/ DOMAIN moving = {} /\ (lost \ unread) \cap run.limit \subseteq cleanup

ListInv == RingSo /\ MovingSo /\ LossListed /\ StepsSo /\ CleanSo /\ lost \ unread \subseteq record

-----------------------------------------------------------------------------
\* Before any run.
LEMMA ListInit == Init => ListInv
<1> SUFFICES ASSUME Init PROVE ListInv
  OBVIOUS
<1>1. RingSo
  <2>1. DOMAIN ring \subseteq Hosts /\ Functional(ring)
    BY RingsAssumption DEF Init, Functional
  <2> QED BY <2>1, HostsFinite, FS_Subset DEF RingSo
<1>2. DOMAIN moving = {} /\ Functional(moving)
  BY DEF Init, Nothing, Functional
<1> QED BY <1>1, <1>2 DEF Init, ListInv, MovingSo, LossListed, StepsSo, Moving, CleanSo

\* A step that leaves no run under way, or one that starts nodes.
LEMMA ListQuiet ==
    ASSUME ListInv, pc' \in {"idle", "start"}, UNCHANGED <<ring, moving, simple, lost, unread>>,
           record \subseteq record'
    PROVE  ListInv'
<1>1. RingSo' /\ MovingSo'
  BY DEF ListInv, RingSo, MovingSo, Functional
<1>2. LossListed'
  BY DEF ListInv, LossListed
<1>3. StepsSo' /\ CleanSo' /\ (lost \ unread \subseteq record)'
  BY DEF ListInv, StepsSo, Moving, CleanSo
<1> QED BY <1>1, <1>2, <1>3 DEF ListInv

\* A node starts.
LEMMA ListJoin ==
    ASSUME ListInv, Join
    PROVE  ListInv'
<1>1. CASE moving # Nothing \/ Head(steps).to \in Positions(ring)
  BY <1>1, ListQuiet DEF Join, Over
<1>2. CASE moving = Nothing /\ Head(steps).to \notin Positions(ring)
  <2>1. /\ ring' = Put(ring, Head(steps).name, Head(steps).to)
        /\ UNCHANGED <<pc, moving, record, lost, unread>> /\ pc = "start"
    BY <1>2 DEF Join
  <2>2. DOMAIN ring' = DOMAIN ring \cup {Head(steps).name} /\ Functional(ring')
    BY <2>1 DEF Put, Functional
  <2>3. IsFiniteSet(DOMAIN ring')
    BY <2>2, FS_AddElement DEF ListInv, RingSo
  <2>4. DOMAIN moving = {} /\ Functional(moving)
    BY <1>2 DEF Nothing, Functional
  <2>5. RingSo' /\ MovingSo' /\ LossListed'
    BY <2>1, <2>2, <2>3, <2>4 DEF RingSo, MovingSo, LossListed, Functional
  <2>6. StepsSo' /\ CleanSo' /\ (lost \ unread \subseteq record)'
    BY <2>1 DEF ListInv, StepsSo, Moving, CleanSo
  <2> QED BY <2>5, <2>6 DEF ListInv
<1> QED BY <1>1, <1>2

\* A run of move_node starts from the ring as it is.
LEMMA ListMove ==
    ASSUME ListInv, NEW targets \in Targets, NEW known \in BOOLEAN, Move(targets, known)
    PROVE  ListInv'
<1>1. PICK limit \in Limits, mode \in Modes, plan \in {MovePlan(ring, DOMAIN moving, targets, known, simple)} :
         /\ run' = [kind |-> "move", targets |-> targets, limit |-> limit, mode |-> mode,
                    known |-> known, calm |-> moving = Nothing]
         /\ steps' = plan.steps
         /\ cleanup' = IF plan.steps = <<>> THEN ToClean(limit, {}) ELSE plan.cleanup
         /\ pc' = IF plan.steps = <<>> THEN "cleanup" ELSE "record"
  BY DEF Move
<1>2. UNCHANGED <<ring, moving, record, simple, lost, unread>>
  BY DEF Move
<1>3. run'.limit = limit /\ run'.known = known
  BY <1>1
<1>4. PlanFits(ring, plan, DOMAIN moving, known)
  BY PlanOfMoves DEF ListInv, RingSo, MovingSo
<1>5. plan.steps # <<>> =>
        plan.cleanup = IF ~known THEN {n \in DOMAIN ring : \E i \in DOMAIN plan.steps :
                                                             Dc[n] = Dc[plan.steps[i].name]}
                       ELSE IF simple THEN DOMAIN ring
                       ELSE UNION {plan.steps[i].loss : i \in DOMAIN plan.steps}
  <2> DEFINE inner == PlanDcs(ring, Ascending(Dcs(DOMAIN ring)), DOMAIN moving, targets, known)
  <2>1. plan = Planned(inner, DOMAIN ring, known, simple)
    BY DEF MovePlan
  <2> HIDE DEF inner
  <2>2. plan.cleanup = Cleanup(plan.steps, DOMAIN ring, known, simple)
    BY <2>1 DEF Planned
  <2> QED BY <2>2 DEF Cleanup
<1>6. IsSequence(plan.steps) => DOMAIN plan.steps = 1 .. Len(plan.steps)
  BY DEF IsSequence
<1> HIDE DEF PlanFits
<1>7. RingSo' /\ MovingSo' /\ (lost \ unread \subseteq record)'
  BY <1>2 DEF ListInv, RingSo, MovingSo, Functional
<1>8. LossListed'
  <2>1. pc' # "follow" /\ (pc' \in {"record", "moves"} => steps' = plan.steps)
    BY <1>1
  <2>2. \A i \in 1 .. Len(plan.steps) : \A n \in DOMAIN moving : Dc[plan.steps[i].name] # Dc[n]
    BY <1>4 DEF PlanFits
  <2> QED BY <1>2, <2>1, <2>2 DEF ListInv, LossListed
<1>9. CASE plan.steps = <<>>
  <2>1. pc' = "cleanup" /\ cleanup' = record \cap limit
    BY <1>1, <1>9 DEF ToClean
  <2>2. StepsSo' /\ CleanSo'
    BY <1>2, <1>3, <2>1 DEF StepsSo, Moving, CleanSo
  <2> QED BY <1>7, <1>8, <2>2 DEF ListInv
<1>10. CASE plan.steps # <<>>
  <2>1. pc' = "record" /\ cleanup' = plan.cleanup /\ steps' = plan.steps
    BY <1>1, <1>10
  <2>2. simple /\ known => DOMAIN ring \subseteq plan.cleanup
    BY <1>2, <1>5, <1>10
  <2>3. ASSUME known PROVE OnTrack'
    <3>1. PICK R : R[0] = ring /\ Tracks(R, plan.steps)
      BY <1>4, <2>3 DEF PlanFits
    <3> QED BY <3>1, <1>2, <2>1 DEF OnTrack
  <2>4. ASSUME ~known
        PROVE  \A i \in 1 .. Len(plan.steps) :
                  {n \in DOMAIN ring : Dc[n] = Dc[plan.steps[i].name]} \subseteq plan.cleanup
    BY <1>4, <1>5, <1>6, <1>10, <2>4 DEF PlanFits
  <2>5. IsSequence(plan.steps) /\ \A i \in 1 .. Len(plan.steps) : plan.steps[i].name \in DOMAIN ring
    BY <1>4 DEF PlanFits
  <2>6. StepsSo'
    BY <1>2, <1>3, <2>1, <2>2, <2>3, <2>4, <2>5 DEF StepsSo, Moving
  <2>7. CleanSo'
    BY <2>1 DEF CleanSo
  <2> QED BY <1>7, <1>8, <2>6, <2>7 DEF ListInv
<1> QED BY <1>9, <1>10

\* The cleanups of a plan are listed.
LEMMA ListRecord ==
    ASSUME ListInv, RecordCleanups
    PROVE  ListInv'
<1> USE DEF RecordCleanups
<1>1. RingSo' /\ MovingSo' /\ (lost \ unread \subseteq record)'
  BY DEF ListInv, RingSo, MovingSo, Functional
<1>2. LossListed'
  BY DEF ListInv, LossListed
<1>3. StepsSo' /\ CleanSo'
  <2>1. OnTrack => OnTrack'
    BY DEF OnTrack
  <2> QED BY <2>1 DEF ListInv, StepsSo, Moving, CleanSo
<1> QED BY <1>1, <1>2, <1>3 DEF ListInv

\* One step done: the ring is where the others start from.
LEMMA NextOnTrack ==
    ASSUME RingSo, IsSequence(steps), steps # <<>>, OnTrack, ring[Head(steps).name] = Head(steps).to,
           steps' = Tail(steps), UNCHANGED ring, pc' # "follow"
    PROVE  OnTrack'
<1>1. PICK R : Tracks(R, steps) /\ (ring = R[0] \/ ring = R[1])
  BY DEF OnTrack
<1>2. PICK S : steps \in Seq(S)
  BY DEF IsSequence
<1>3. /\ Len(steps) \in Nat /\ 1 \in 1 .. Len(steps) /\ Head(steps) = steps[1]
      /\ Len(Tail(steps)) = Len(steps) - 1
      /\ \A i \in 1 .. Len(steps) - 1 : Tail(steps)[i] = steps[i + 1]
  BY <1>2
<1>4. R[1] = [R[0] EXCEPT ![steps[1].name] = steps[1].to]
  <2>1. R[1] = [R[1 - 1] EXCEPT ![steps[1].name] = steps[1].to]
    BY <1>1, <1>3 DEF Tracks
  <2> QED BY <2>1
<1>5. ring = R[1]
  <2>1. CASE ring = R[0]
    BY <2>1, <1>3, <1>4 DEF RingSo, Functional
  <2> QED BY <1>1, <2>1
<1> DEFINE R1 == [i \in 0 .. Len(steps) - 1 |-> R[i + 1]]
<1>6. ring = R1[0]
  BY <1>3, <1>5
<1>7. ASSUME NEW j \in 1 .. Len(Tail(steps))
      PROVE  LET s == Tail(steps)[j] IN
             /\ R1[j] = [R1[j - 1] EXCEPT ![s.name] = s.to]
             /\ LossesIn(R1[j - 1], s.name, s.to) \subseteq s.loss
  <2>1. /\ j + 1 \in 1 .. Len(steps) /\ Tail(steps)[j] = steps[j + 1]
        /\ R1[j] = R[j + 1] /\ R1[j - 1] = R[(j + 1) - 1]
    BY <1>3
  <2> HIDE DEF R1
  <2> QED BY <2>1, <1>1 DEF Tracks
<1> HIDE DEF R1
<1>8. Tracks(R1, Tail(steps))
  BY <1>7 DEF Tracks
<1> QED BY <1>6, <1>8 DEF OnTrack

\* The steps after the first one.
LEMMA TailOfSteps ==
    ASSUME NEW s, IsSequence(s), s # <<>>
    PROVE  /\ IsSequence(Tail(s)) /\ Len(Tail(s)) = Len(s) - 1 /\ Len(s) \in Nat \ {0}
           /\ Head(s) = s[1]
           /\ \A i \in 1 .. Len(Tail(s)) : i + 1 \in 1 .. Len(s) /\ Tail(s)[i] = s[i + 1]
<1>1. PICK S : s \in Seq(S)
  BY DEF IsSequence
<1>2. Tail(s) \in Seq(S)
  BY <1>1
<1> QED BY <1>1, <1>2 DEF IsSequence

\* The node is where the step takes it: the run goes on with the next one.
LEMMA ListNext ==
    ASSUME ListInv, Moving, steps # <<>>, ring[Head(steps).name] = Head(steps).to,
           steps' = Tail(steps), pc' = "moves", pc # "record",
           UNCHANGED <<ring, moving, simple, lost, unread, run, cleanup>>, record \subseteq record',
           \A n \in DOMAIN moving : moving[n].dead
    PROVE  ListInv'
<1>1. RingSo' /\ MovingSo' /\ (lost \ unread \subseteq record)' /\ LossListed'
  BY DEF ListInv, RingSo, MovingSo, Functional, LossListed
<1>2. IsSequence(steps) /\ RingSo
  BY DEF ListInv, StepsSo
<1>3. run.known => OnTrack'
  BY <1>2, NextOnTrack DEF ListInv, StepsSo
<1>4. StepsSo'
  <2>1. /\ IsSequence(steps')
        /\ \A i \in 1 .. Len(steps') : i + 1 \in 1 .. Len(steps) /\ steps'[i] = steps[i + 1]
    BY <1>2, TailOfSteps
  <2> QED BY <1>3, <2>1 DEF ListInv, StepsSo, Moving
<1>5. CleanSo'
  BY DEF CleanSo
<1> QED BY <1>1, <1>4, <1>5 DEF ListInv

\* What one node may lose is in its datacenter.
LEMMA LossesThere ==
    ASSUME NEW cur, NEW name, NEW to
    PROVE  LossesIn(cur, name, to) \subseteq {n \in DOMAIN cur : Dc[n] = Dc[name]}
<1> DEFINE before == OfDc(cur, Dc[name])
<1>1. DOMAIN before = {n \in DOMAIN cur : Dc[n] = Dc[name]}
  BY DEF OfDc, Restrict
<1> HIDE DEF before
<1>2. ASSUME NEW after, NEW rf PROVE Losers(before, after, rf) \subseteq DOMAIN before
  <2>1. ASSUME NEW p PROVE Replicas(before, p, rf) \subseteq DOMAIN before
    BY DEF Replicas, ReplicasFrom, Nearest, Taken, FirstOfRacks
  <2> QED BY <2>1 DEF Losers
<1>3. LossesIn(cur, name, to) = Losses(before, name, to, Rfs[Dc[name]])
  BY DEF LossesIn, before
<1>4. Losses(before, name, to, Rfs[Dc[name]]) \subseteq DOMAIN before
  BY <1>2 DEF Losses
<1> QED BY <1>1, <1>3, <1>4

\* The move that begins: whoever loses a range to it is listed by now.
LEMMA FirstListed ==
    ASSUME ListInv, pc = "moves", steps # <<>>
    PROVE  LET step == Head(steps) IN
           /\ step.name \in DOMAIN ring
           /\ IF run.known THEN simple => DOMAIN ring \subseteq record
              ELSE {m \in DOMAIN ring : Dc[m] = Dc[step.name]} \subseteq record
           /\ LossesIn(ring, step.name, step.to) \subseteq record \cup step.loss
<1>1. IsSequence(steps) /\ Moving /\ StepsSo
  BY DEF ListInv, StepsSo, Moving
<1>2. Head(steps) = steps[1] /\ 1 \in 1 .. Len(steps)
  BY <1>1, TailOfSteps
<1>3. CASE run.known
  <2>1. PICK R : Tracks(R, steps) /\ ring = R[0]
    BY <1>1, <1>3 DEF StepsSo, OnTrack
  <2>2. LossesIn(R[1 - 1], steps[1].name, steps[1].to) \subseteq steps[1].loss
    BY <1>2, <2>1 DEF Tracks
  <2>3. LossesIn(ring, steps[1].name, steps[1].to) \subseteq steps[1].loss
    BY <2>1, <2>2
  <2> QED BY <1>1, <1>2, <1>3, <2>3 DEF StepsSo
<1>4. CASE ~run.known
  <2>1. {n \in DOMAIN ring : Dc[n] = Dc[steps[1].name]} \subseteq record
    BY <1>1, <1>2, <1>4 DEF StepsSo
  <2>2. LossesIn(ring, steps[1].name, steps[1].to) \subseteq record
    BY <2>1, LossesThere
  <2> QED BY <1>1, <1>2, <1>4, <2>1, <2>2 DEF StepsSo
<1> QED BY <1>3, <1>4

\* A move begins, or the run goes on or stops.
LEMMA ListBegin ==
    ASSUME ListInv, BeginMove
    PROVE  ListInv'
<1> DEFINE step == Head(steps)
<1>1. CASE ~Healthy({})
  BY <1>1, ListQuiet DEF BeginMove, Over
<1>2. CASE Healthy({}) /\ ring[step.name] = step.to
  <2>1. \A n \in DOMAIN moving : moving[n].dead
    BY <1>2 DEF Healthy, Nothing
  <2>2. /\ pc = "moves" /\ steps # <<>> /\ steps' = Tail(steps)
        /\ UNCHANGED <<ring, moving, simple, lost, unread, run, cleanup, pc>>
        /\ record \subseteq record'
    BY <1>2 DEF BeginMove
  <2> QED BY <1>2, <2>1, <2>2, ListNext DEF Moving
<1>3. CASE Healthy({}) /\ ring[step.name] # step.to /\ step.to \in Positions(ring)
  BY <1>3, ListQuiet DEF BeginMove, Over
<1>4. CASE Healthy({}) /\ ring[step.name] # step.to /\ step.to \notin Positions(ring)
  <2> DEFINE going == [to |-> step.to, dead |-> FALSE, even |-> run.targets = <<>>,
                    read |-> run.known]
  <2>1. /\ pc = "moves" /\ steps # <<>> /\ pc' = "follow"
        /\ moving' = [n \in {step.name} |-> going]
        /\ record' = record \cup step.loss
        /\ UNCHANGED <<ring, simple, lost, unread, run, steps, cleanup>>
    BY <1>4 DEF BeginMove
  <2>2. /\ step.name \in DOMAIN ring
        /\ IF going.read THEN simple => DOMAIN ring \subseteq record
           ELSE {m \in DOMAIN ring : Dc[m] = Dc[step.name]} \subseteq record
        /\ LossesIn(ring, step.name, step.to) \subseteq record'
    BY <2>1, FirstListed
  <2>3. DOMAIN moving' = {step.name} /\ moving'[step.name] = going
    BY <2>1
  <2>4. going.to = step.to /\ going.dead = FALSE
        /\ going = [to |-> going.to, dead |-> going.dead, even |-> going.even, read |-> going.read]
    OBVIOUS
  <2> HIDE DEF going
  <2>5. RingSo' /\ (lost \ unread \subseteq record)'
    BY <2>1 DEF ListInv, RingSo, Functional
  <2>6. MovingSo'
    BY <2>1, <2>2, <2>3, <2>4 DEF MovingSo, Functional
  <2>7. LossListed'
    BY <2>1, <2>2, <2>3, <2>4 DEF LossListed
  <2>8. OnTrack => OnTrack'
    BY <2>1 DEF OnTrack
  <2>9. StepsSo'
    BY <2>1, <2>8 DEF ListInv, StepsSo, Moving
  <2>10. CleanSo'
    BY <2>1 DEF CleanSo
  <2> QED BY <2>5, <2>6, <2>7, <2>9, <2>10 DEF ListInv
<1> QED BY <1>1, <1>2, <1>3, <1>4

\* The job of a move ended.
LEMMA ListFollowed ==
    ASSUME ListInv, Followed
    PROVE  ListInv'
<1>1. CASE ring[Head(steps).name] = Head(steps).to
  <2>1. \A n \in DOMAIN moving : moving[n].dead
    BY DEF Followed, ListInv, LossListed, MovingSo
  <2>2. /\ pc = "follow" /\ steps # <<>> /\ steps' = Tail(steps) /\ pc' = "moves"
        /\ UNCHANGED <<ring, moving, simple, lost, unread, run, cleanup, record>>
    BY <1>1 DEF Followed, ListInv, StepsSo, Moving
  <2> QED BY <1>1, <2>1, <2>2, ListNext DEF Moving
<1>2. CASE ring[Head(steps).name] # Head(steps).to
  BY <1>2, ListQuiet DEF Followed, Over
<1> QED BY <1>1, <1>2

\* A batch is cleaned up, the list forgets the hosts of the run.
LEMMA ListClean ==
    ASSUME ListInv, AllMoved \/ CleanBatch \/ Forget
    PROVE  ListInv'
<1>1. CASE AllMoved
  <2>1. /\ pc' = "cleanup" /\ record \cap run.limit \subseteq cleanup'
        /\ UNCHANGED <<ring, moving, simple, lost, unread, record, run>>
    BY <1>1 DEF AllMoved, ToClean
  <2> QED BY <2>1 DEF ListInv, RingSo, MovingSo, LossListed, StepsSo, Moving, CleanSo, Functional
<1>2. CASE CleanBatch
  <2>1. CASE ~Healthy({})
    BY <1>2, <2>1, ListQuiet DEF CleanBatch, Over
  <2>2. CASE Healthy({})
    <3> DEFINE batch == IF run.mode = "all" THEN cleanup ELSE {Head(Of(cleanup))}
    <3>1. /\ pc = "cleanup" /\ pc' = "cleanup" /\ lost' = lost \ batch /\ unread' = unread \ batch /\ cleanup' = cleanup \ batch
          /\ UNCHANGED <<ring, moving, simple, record, run>>
      BY <1>2, <2>2 DEF CleanBatch
    <3>2. DOMAIN moving = {}
      BY <2>2 DEF Healthy, Nothing
    <3> HIDE DEF batch
    <3>3. (lost \ unread) \cap run.limit \subseteq cleanup
      BY <3>1 DEF ListInv, CleanSo
    <3> QED BY <3>1, <3>2, <3>3 DEF ListInv, RingSo, MovingSo, LossListed, StepsSo, Moving, CleanSo, Functional
  <2> QED BY <2>1, <2>2
<1>3. CASE Forget
  <2>1. /\ pc = "cleanup" /\ pc' = "idle" /\ record' = record \ run.limit /\ cleanup = {}
        /\ UNCHANGED <<ring, moving, simple, lost, unread>>
    BY <1>3 DEF Forget, Over
  <2>2. CASE record \cap run.limit \subseteq cleanup
    <3>1. record' = record
      BY <2>1, <2>2
    <3> QED BY <2>1, <3>1, ListQuiet
  <2>3. CASE DOMAIN moving = {} /\ (lost \ unread) \cap run.limit \subseteq cleanup
    <3>1. lost \ unread \subseteq record'
      BY <2>1, <2>3 DEF ListInv
    <3> QED BY <2>1, <2>3, <3>1 DEF ListInv, RingSo, MovingSo, LossListed, StepsSo, Moving, CleanSo, Functional
  <2> QED BY <2>1, <2>2, <2>3 DEF ListInv, CleanSo
<1> QED BY <1>1, <1>2, <1>3

\* A move ends: the steps left are from where the ring is now.
LEMMA TrackedOn ==
    ASSUME ListInv, Moving, run.known, NEW n \in DOMAIN moving, ~moving[n].dead,
           ring' = [ring EXCEPT ![n] = moving[n].to], UNCHANGED <<pc, steps>>
    PROVE  OnTrack'
<1> DEFINE to == moving[n].to
<1>1. IsSequence(steps) /\ (pc = "follow" => steps # <<>>)
  BY DEF ListInv, StepsSo
<1>2. PICK R : Tracks(R, steps) /\ (ring = R[0] \/ (pc = "follow" /\ ring = R[1]))
  BY DEF ListInv, StepsSo, OnTrack
<1>3. CASE pc = "follow"
  <2>1. n = steps[1].name /\ to = steps[1].to /\ 1 \in 1 .. Len(steps)
    BY <1>1, <1>3, TailOfSteps DEF ListInv, LossListed
  <2>2. R[1] = [R[1 - 1] EXCEPT ![n] = to]
    BY <1>2, <2>1 DEF Tracks
  <2>3. R[1] = [R[0] EXCEPT ![n] = to]
    BY <2>2
  <2> HIDE DEF to
  <2>4. ring' = R[1]
    <3>1. ring' = [ring EXCEPT ![n] = to]
      BY DEF to
    <3>2. CASE ring = R[0]
      BY <2>3, <3>1, <3>2
    <3>3. CASE ring = R[1]
      BY <2>3, <3>1, <3>3
    <3> QED BY <1>2, <3>2, <3>3
  <2> QED BY <1>2, <1>3, <2>4 DEF OnTrack
<1>4. CASE pc # "follow"
  <2>1. pc \in {"record", "moves"} /\ ring = R[0]
    BY <1>2, <1>4 DEF Moving
  <2>2. \A i \in 1 .. Len(steps) : Dc[steps[i].name] # Dc[n]
    BY <2>1 DEF ListInv, LossListed
  <2> HIDE DEF to
  <2> DEFINE R1 == [i \in 0 .. Len(steps) |-> [R[i] EXCEPT ![n] = to]]
  <2>3. Len(steps) \in Nat
    BY <1>1 DEF IsSequence
  <2>4. ring' = R1[0]
    BY <2>1, <2>3 DEF to
  <2>5. ASSUME NEW j \in 1 .. Len(steps)
        PROVE  LET s == steps[j] IN
               /\ R1[j] = [R1[j - 1] EXCEPT ![s.name] = s.to]
               /\ LossesIn(R1[j - 1], s.name, s.to) \subseteq s.loss
    <3> DEFINE s == steps[j]
    <3>1. /\ R[j] = [R[j - 1] EXCEPT ![s.name] = s.to]
          /\ LossesIn(R[j - 1], s.name, s.to) \subseteq s.loss
      BY <1>2 DEF Tracks
    <3>2. R1[j] = [R[j] EXCEPT ![n] = to] /\ R1[j - 1] = [R[j - 1] EXCEPT ![n] = to]
      BY <2>3
    <3>3. Dc[s.name] # Dc[n] /\ s.name # n
      BY <2>2
    <3> HIDE DEF s, R1
    <3>4. R1[j] = [R1[j - 1] EXCEPT ![s.name] = s.to]
      BY <3>1, <3>2, <3>3
    <3>5. LossesIn(R1[j - 1], s.name, s.to) = LossesIn(R[j - 1], s.name, s.to)
      <4>1. OfDc(R1[j - 1], Dc[s.name]) = OfDc(R[j - 1], Dc[s.name])
        <5> DEFINE cur == R[j - 1]
                   dc == Dc[s.name]
        <5>1. dc # Dc[n] /\ R1[j - 1] = [cur EXCEPT ![n] = to]
          BY <3>2, <3>3
        <5> HIDE DEF cur, dc
        <5>2. OfDc([cur EXCEPT ![n] = to], dc) = OfDc(cur, dc)
          BY <5>1 DEF OfDc, Restrict
        <5> QED BY <5>1, <5>2 DEF cur, dc
      <4> QED BY <4>1 DEF LossesIn
    <3> QED BY <3>1, <3>4, <3>5 DEF s
  <2> HIDE DEF R1
  <2>6. Tracks(R1, steps)
    BY <2>5 DEF Tracks
  <2> QED BY <2>4, <2>6 DEF OnTrack
<1> QED BY <1>3, <1>4

\* nodetool move ends: those it takes a range from are listed.
LEMMA ListEnds ==
    ASSUME ListInv, NEW n \in DOMAIN moving, MoveEnds(n)
    PROVE  ListInv'
<1> DEFINE to == moving[n].to
           taken == IF simple THEN DOMAIN ring ELSE LossesIn(ring, n, to)
<1>1. /\ ~moving[n].dead
      /\ ring' = [ring EXCEPT ![n] = to]
      /\ moving' = Restrict(moving, DOMAIN moving \ {n})
      /\ UNCHANGED <<pc, run, steps, cleanup, record, simple>>
  BY DEF MoveEnds
<1>2. lost' = lost \cup taken
  BY DEF MoveEnds, LossesIn, Losses
<1>11. unread' = unread \cup IF simple /\ ~moving[n].read
                           THEN {m \in DOMAIN ring \ record : Dc[m] # Dc[n]} ELSE {}
  BY DEF MoveEnds
<1>3. taken \subseteq record \cup unread'
  BY <1>1, <1>11 DEF ListInv, LossListed
<1>4. DOMAIN moving' = {} /\ Functional(moving')
  BY <1>1 DEF Restrict, Functional, ListInv, MovingSo
<1>5. DOMAIN ring' = DOMAIN ring /\ Functional(ring')
  BY <1>1 DEF Functional
<1> HIDE DEF taken, to
<1>6. RingSo' /\ MovingSo' /\ LossListed'
  BY <1>4, <1>5 DEF ListInv, RingSo, MovingSo, LossListed, Functional
<1>7. (lost \ unread \subseteq record)'
  BY <1>1, <1>2, <1>3, <1>11 DEF ListInv
<1>8. Moving /\ run.known => OnTrack'
  BY <1>1, TrackedOn DEF to
<1>9. StepsSo'
  BY <1>1, <1>5, <1>8 DEF ListInv, StepsSo, Moving
<1>10. CleanSo'
  <2>1. CASE record \cap run.limit \subseteq cleanup
    BY <1>1, <2>1 DEF CleanSo
  <2>2. CASE pc # "cleanup"
    BY <1>1, <2>2 DEF CleanSo
  <2> QED BY <2>1, <2>2 DEF ListInv, CleanSo
<1> QED BY <1>6, <1>7, <1>9, <1>10 DEF ListInv

\* A move fails, or its node is restarted.
LEMMA ListStops ==
    ASSUME ListInv, NEW n \in DOMAIN moving, MoveFails(n) \/ Restarted(n)
    PROVE  ListInv'
<1>1. UNCHANGED <<ring, pc, run, steps, cleanup, record, simple, lost, unread>>
  BY DEF MoveFails, Restarted
<1>2. OnTrack => OnTrack'
  BY <1>1 DEF OnTrack
<1>3. RingSo' /\ StepsSo' /\ (lost \ unread \subseteq record)'
  BY <1>1, <1>2 DEF ListInv, RingSo, StepsSo, Moving, Functional
<1>4. CASE MoveFails(n)
  <2>1. moving' = [moving EXCEPT ![n] = [to   |-> moving[n].to, dead |-> TRUE,
                                         even |-> moving[n].even, read |-> moving[n].read]]
    <3>1. moving' = [moving EXCEPT ![n] = [moving[n] EXCEPT !.dead = TRUE]]
      BY <1>4 DEF MoveFails
    <3> DEFINE yes == TRUE
    <3> HIDE DEF yes
    <3>2. PICK to, dead, even, read :
             moving[n] = [to |-> to, dead |-> dead, even |-> even, read |-> read]
      BY DEF ListInv, MovingSo
    <3>3. [moving[n] EXCEPT !.dead = yes] = [to |-> to, dead |-> yes, even |-> even, read |-> read]
      BY <3>2
    <3>4. moving[n].to = to /\ moving[n].even = even /\ moving[n].read = read
      BY <3>2
    <3> QED BY <3>1, <3>3, <3>4 DEF yes
  <2>2. /\ DOMAIN moving' = DOMAIN moving /\ Functional(moving')
        /\ moving'[n] = [to   |-> moving[n].to, dead |-> TRUE,
                         even |-> moving[n].even, read |-> moving[n].read]
    BY <2>1 DEF ListInv, MovingSo, Functional
  <2>3. \A m \in DOMAIN moving : m = n
    BY DEF ListInv, MovingSo
  <2>4. moving'[n].dead = TRUE
        /\ moving'[n] = [to   |-> moving'[n].to, dead |-> moving'[n].dead,
                         even |-> moving'[n].even, read |-> moving'[n].read]
        /\ moving'[n].read = moving[n].read
    BY <2>2
  <2>5. MovingSo' /\ LossListed'
    BY <1>1, <2>2, <2>3, <2>4 DEF ListInv, MovingSo, LossListed
  <2>6. CleanSo'
    BY <1>1, <2>2 DEF ListInv, CleanSo
  <2> QED BY <1>3, <2>5, <2>6 DEF ListInv
<1>5. CASE Restarted(n)
  <2>1. DOMAIN moving' = {} /\ Functional(moving')
    BY <1>5 DEF Restarted, Restrict, Functional, ListInv, MovingSo
  <2>2. MovingSo' /\ LossListed'
    BY <1>1, <2>1 DEF MovingSo, LossListed
  <2>3. CleanSo'
    BY <1>1, <2>1 DEF ListInv, CleanSo
  <2> QED BY <1>3, <2>2, <2>3 DEF ListInv
<1> QED BY <1>4, <1>5

\* Every step keeps the list.
LEMMA ListStep == ListInv /\ [Next]_vars => ListInv'
<1> SUFFICES ASSUME ListInv, [Next]_vars PROVE ListInv'
  OBVIOUS
<1>1. ASSUME NEW given \in Givens, NEW partial \in BOOLEAN, Create(given, partial) PROVE ListInv'
  BY <1>1, ListQuiet DEF Create, StartNodes
<1>2. ASSUME NEW how \in {"bisect", "balanced"}, NEW new \in Additions, NEW given \in Givens,
             NEW known \in BOOLEAN, Add(how, new, given, known)
      PROVE  ListInv'
  BY <1>2, ListQuiet DEF Add, StartNodes
<1>3. CASE Join
  BY <1>3, ListJoin
<1>4. CASE AllStarted \/ TakeOut
  BY <1>4, ListQuiet DEF AllStarted, TakeOut, Over
<1>5. ASSUME NEW targets \in Targets, NEW known \in BOOLEAN, Move(targets, known) PROVE ListInv'
  BY <1>5, ListMove
<1>6. CASE RecordCleanups
  BY <1>6, ListRecord
<1>7. CASE BeginMove
  BY <1>7, ListBegin
<1>8. CASE NoRoom \/ CleanupFails \/ CleanupLeft \/ Interrupt
  BY <1>8, ListQuiet DEF NoRoom, CleanupFails, CleanupLeft, Interrupt, Over
<1>9. CASE Followed
  BY <1>9, ListFollowed
<1>10. CASE AllMoved \/ CleanBatch \/ Forget
  BY <1>10, ListClean
<1>11. ASSUME NEW n \in DOMAIN moving, MoveEnds(n) PROVE ListInv'
  BY <1>11, ListEnds
<1>12. ASSUME NEW n \in DOMAIN moving, MoveFails(n) \/ Restarted(n) PROVE ListInv'
  BY <1>12, ListStops
<1>13. CASE UNCHANGED vars
  <2>1. UNCHANGED <<ring, moving, pc, run, steps, cleanup, record, simple, lost, unread>>
    BY <1>13 DEF vars
  <2>2. OnTrack => OnTrack'
    BY <2>1 DEF OnTrack
  <2>3. RingSo' /\ MovingSo' /\ LossListed' /\ CleanSo' /\ (lost \ unread \subseteq record)'
    BY <2>1 DEF ListInv, RingSo, MovingSo, LossListed, CleanSo, Functional
  <2>4. StepsSo'
    BY <2>1, <2>2 DEF ListInv, StepsSo, Moving
  <2> QED BY <2>3, <2>4 DEF ListInv
<1> QED BY <1>1, <1>2, <1>3, <1>4, <1>5, <1>6, <1>7, <1>8, <1>9, <1>10, <1>11, <1>12, <1>13 DEF Next

\* A node that keeps data a move took from it stays on the list of move_node's
\* cleanups (progress.yml, cassandra_hosts-move.cleanup) until it is cleaned up,
\* whatever run is interrupted, fails or is limited to some hosts, for any plans,
\* the keyspaces read or not: but for the nodes of another datacenter, of a
\* keyspace with the SimpleStrategy no run had read (unread).
THEOREM CleanupsAreListed == Spec => []CleanupsKept
<1>1. ListInv => CleanupsKept
  BY DEF ListInv, CleanupsKept
<1> QED BY ListInit, ListStep, <1>1, PTL DEF Spec

-----------------------------------------------------------------------------
(***************************************************************************)
(* Orders, as places in a line, and the position past those taken.         *)
(***************************************************************************)
(***************************************************************************)
(* The orders, and the positions moved on past the ones taken.             *)
(***************************************************************************)
\* Some number is the least of a set.
LEMMA LeastNumber ==
    ASSUME NEW S, S \subseteq Nat, S # {}
    PROVE  Min(S) \in S /\ \A x \in S : Min(S) <= x
<1> DEFINE R == OpToRel(<, Nat)
<1>1. IsWellFoundedOn(R, Nat)
  BY NatLessThanWellFounded, Zenon
<1>2. \A x, y \in Nat : x < y => <<x, y>> \in R
  BY DEF OpToRel
<1> HIDE DEF R
<1>3. PICK k \in S : \A x \in S : <<x, k>> \notin R
  <2>1. S \subseteq Nat /\ S # {}
    OBVIOUS
  <2> QED BY <1>1, <2>1, WFMin, Zenon
<1>4. ASSUME NEW x \in S PROVE k <= x
  <2>1. x \in Nat /\ k \in Nat /\ ~(x < k)
    BY <1>2, <1>3
  <2> QED BY <2>1
<1>5. Min(S) = CHOOSE x \in S : \A y \in S : x =< y
  BY DEF Min
<1> QED BY <1>3, <1>4, <1>5

\* The place of each element of S in a strict order: how many come before it.
PlaceIn(S, before) == [x \in S |-> Cardinality({y \in S : <<y, x>> \in before})]

\* The elements have places of their own, the first numbers.
LEMMA PlacesInOrder ==
    ASSUME NEW S, IsFiniteSet(S), NEW before,
           \A x \in S : <<x, x>> \notin before,
           \A x, y \in S : x = y \/ <<x, y>> \in before \/ <<y, x>> \in before,
           \A x, y, z \in S : <<x, y>> \in before /\ <<y, z>> \in before => <<x, z>> \in before
    PROVE  /\ PlaceIn(S, before) \in Injection(S, 0 .. Cardinality(S) - 1)
           /\ PlaceIn(S, before) \in Surjection(S, 0 .. Cardinality(S) - 1)
<1> DEFINE N == Cardinality(S)
           Below(x) == {y \in S : <<y, x>> \in before}
           place == PlaceIn(S, before)
<1>1. N \in Nat
  BY FS_CardinalityType
<1>2. ASSUME NEW x \in S PROVE IsFiniteSet(Below(x)) /\ Cardinality(Below(x)) \in 0 .. N - 1
  <2>1. Below(x) \subseteq S \ {x}
    OBVIOUS
  <2>2. IsFiniteSet(S \ {x}) /\ Cardinality(S \ {x}) = N - 1
    BY FS_RemoveElement
  <2> HIDE DEF Below, N
  <2>3. IsFiniteSet(Below(x)) /\ Cardinality(Below(x)) <= N - 1
    BY <2>1, <2>2, FS_Subset
  <2>4. Cardinality(Below(x)) \in Nat
    BY <2>3, FS_CardinalityType
  <2> QED BY <1>1, <2>3, <2>4
<1>3. place = [x \in S |-> Cardinality(Below(x))]
  BY DEF PlaceIn
<1> HIDE DEF place
<1>4. ASSUME NEW x \in S, NEW y \in S, <<x, y>> \in before PROVE place[x] < place[y]
  <2>1. Below(x) \cup {x} \subseteq Below(y) /\ x \notin Below(x)
    BY <1>4
  <2>2. IsFiniteSet(Below(x)) /\ IsFiniteSet(Below(y))
    BY <1>2
  <2>a. place[x] = Cardinality(Below(x)) /\ place[y] = Cardinality(Below(y))
    BY <1>3
  <2> HIDE DEF Below
  <2>3. IsFiniteSet(Below(x) \cup {x}) /\ Cardinality(Below(x) \cup {x}) = Cardinality(Below(x)) + 1
    BY <2>1, <2>2, FS_AddElement
  <2>4. Cardinality(Below(x) \cup {x}) <= Cardinality(Below(y))
    BY <2>1, <2>2, FS_Subset
  <2>5. Cardinality(Below(x)) \in Nat /\ Cardinality(Below(y)) \in Nat
    BY <2>2, FS_CardinalityType
  <2> QED BY <2>a, <2>3, <2>4, <2>5
<1>5. place \in [S -> 0 .. N - 1]
  <2> HIDE DEF Below
  <2> QED BY <1>2, <1>3
<1>6. place \in Injection(S, 0 .. N - 1)
  <2>1. ASSUME NEW x \in S, NEW y \in S, place[x] = place[y] PROVE x = y
    <3>1. place[x] \in Int /\ place[y] \in Int
      BY <1>5
    <3>2. <<x, y>> \notin before /\ <<y, x>> \notin before
      BY <1>4, <2>1, <3>1
    <3> QED BY <3>2
  <2>2. IsInjective(place)
    BY <1>5, <2>1 DEF IsInjective
  <2> QED BY <1>5, <2>2 DEF Injection
<1>7. IsFiniteSet(0 .. N - 1) /\ Cardinality(0 .. N - 1) = N
  <2> HIDE DEF N
  <2> QED BY <1>1, FS_Interval
<1>8. place \in Surjection(S, 0 .. N - 1)
  BY <1>6, <1>7, FS_Injection
<1> QED BY <1>6, <1>8 DEF place

\* An order lists each element once.
LEMMA InOrderLists ==
    ASSUME NEW S, IsFiniteSet(S), NEW rank, \A x \in S : rank[x] \in Int,
           \A x, y \in S : rank[x] = rank[y] => x = y
    PROVE  LET s == InOrder(S, rank) IN
           /\ s \in Seq(S) /\ Len(s) = Cardinality(S)
           /\ \A x \in S : \E i \in 1 .. Len(s) : s[i] = x
           /\ \A i, j \in 1 .. Len(s) : s[i] = s[j] => i = j
<1> DEFINE N == Cardinality(S)
           before == {x \in S \X S : rank[x[1]] < rank[x[2]]}
           place == PlaceIn(S, before)
           s == InOrder(S, rank)
<1>1. N \in Nat
  BY FS_CardinalityType
<1>2. \A x, y \in S : <<x, y>> \in before <=> rank[x] < rank[y]
  OBVIOUS
<1>3. ASSUME NEW x \in S PROVE place[x] = Cardinality({y \in S : rank[y] < rank[x]})
  <2>1. {y \in S : rank[y] < rank[x]} = {y \in S : <<y, x>> \in before}
    BY <1>2
  <2> HIDE DEF before
  <2> QED BY <2>1 DEF PlaceIn
<1> HIDE DEF before
<1>4. place \in Injection(S, 0 .. N - 1) /\ place \in Surjection(S, 0 .. N - 1)
  <2>1. \A x \in S : <<x, x>> \notin before
    BY <1>2
  <2>2. ASSUME NEW x \in S, NEW y \in S, x # y PROVE <<x, y>> \in before \/ <<y, x>> \in before
    <3>1. rank[x] \in Int /\ rank[y] \in Int /\ rank[x] # rank[y]
      BY <2>2
    <3>2. rank[x] < rank[y] \/ rank[y] < rank[x]
      BY <3>1
    <3> QED BY <1>2, <3>2
  <2>3. ASSUME NEW x \in S, NEW y \in S, NEW z \in S, <<x, y>> \in before, <<y, z>> \in before
        PROVE  <<x, z>> \in before
    <3>1. rank[x] < rank[y] /\ rank[y] < rank[z]
      BY <1>2, <2>3
    <3>2. rank[x] \in Int /\ rank[y] \in Int /\ rank[z] \in Int
      OBVIOUS
    <3>3. rank[x] < rank[z]
      BY <3>1, <3>2
    <3> QED BY <1>2, <3>3
  <2> QED BY <2>1, <2>2, <2>3, PlacesInOrder
<1> HIDE DEF place
<1>5. place \in [S -> 0 .. N - 1] /\ \A x, y \in S : place[x] = place[y] => x = y
  BY <1>4 DEF Injection, IsInjective
<1>8. ASSUME NEW k \in 1 .. N
      PROVE  s[k] \in S /\ place[s[k]] = k - 1
  <2>1. s[k] = CHOOSE x \in S : Cardinality({y \in S : rank[y] < rank[x]}) = k - 1
    BY DEF InOrder
  <2>2. k - 1 \in 0 .. N - 1
    BY <1>1
  <2>3. PICK x \in S : place[x] = k - 1
    BY <1>4, <2>2 DEF Surjection
  <2> HIDE DEF s
  <2> QED BY <1>3, <2>1, <2>3
<1>9. s = [k \in 1 .. N |-> s[k]]
  <2> DEFINE c(k) == CHOOSE x \in S : Cardinality({y \in S : rank[y] < rank[x]}) = k - 1
  <2>1. s = [k \in 1 .. N |-> c(k)]
    BY DEF InOrder
  <2> HIDE DEF c, s
  <2> QED BY <2>1
<1> HIDE DEF s
<1>10. s \in Seq(S) /\ Len(s) = N
  BY <1>1, <1>8, <1>9
<1>11. ASSUME NEW x \in S PROVE \E i \in 1 .. N : s[i] = x
  <2>1. place[x] + 1 \in 1 .. N /\ (place[x] + 1) - 1 = place[x]
    BY <1>1, <1>5
  <2>2. s[place[x] + 1] \in S /\ place[s[place[x] + 1]] = place[x]
    BY <1>8, <2>1
  <2> QED BY <1>5, <2>1, <2>2
<1>12. ASSUME NEW i \in 1 .. N, NEW j \in 1 .. N, s[i] = s[j] PROVE i = j
  <2>1. i - 1 = j - 1
    BY <1>8, <1>12
  <2> QED BY <2>1
<1> QED BY <1>10, <1>11, <1>12 DEF s

\* Numbers closer than the ring is long are at different positions.
LEMMA Positioned ==
    /\ \A a \in Int : a % Size \in 0 .. Size - 1
    /\ \A a, b \in Int : a < b /\ b - a < Size => a % Size # b % Size
<1>1. \A a \in Int : a % Size \in 0 .. Size - 1
  BY SizeAssumption
<1>2. ASSUME NEW a \in Int, NEW b \in Int, a < b, b - a < Size, a % Size = b % Size PROVE FALSE
  <2> DEFINE q == a \div Size
             r == b \div Size
  <2>1. q \in Int /\ r \in Int /\ a % Size = a - Size * q /\ b % Size = b - Size * r
    <3>1. \A x, y \in Int : y > 0 => x \div y \in Int /\ x % y = x - y * (x \div y)
      OBVIOUS
    <3> QED BY <3>1, SizeAssumption
  <2> HIDE DEF q, r
  <2>2. b - a = Size * (r - q) /\ r - q \in Int
    BY <1>2, <2>1, SizeAssumption
  <2>3. r - q <= 0 => Size * (r - q) <= 0
    BY <2>1, SizeAssumption
  <2>4. r - q >= 1 => Size * (r - q) >= Size
    BY <2>1, SizeAssumption
  <2> QED BY <1>2, <2>2, <2>3, <2>4, SizeAssumption
<1> QED BY <1>1, <1>2

\* The first position not held, from p on.
LEMMA PastFree ==
    ASSUME NEW held, IsFiniteSet(held), Cardinality(held) < Size, NEW p \in Int
    PROVE  Past(held, p) \in (0 .. Size - 1) \ held
<1> DEFINE C == Cardinality(held)
           K == {k \in 0 .. C : (p + k) % Size \notin held}
           at == [k \in 0 .. C |-> (p + k) % Size]
<1>1. C \in Nat
  BY FS_CardinalityType
<1>2. K # {}
  <2>1. SUFFICES ASSUME K = {} PROVE FALSE
    OBVIOUS
  <2>2. at \in [0 .. C -> held]
    BY <2>1
  <2>3. IsFiniteSet(0 .. C) /\ Cardinality(0 .. C) = C + 1
    <3> HIDE DEF C
    <3> QED BY <1>1, FS_Interval
  <2> HIDE DEF at, K
  <2>4. PICK i, j \in 0 .. C : i # j /\ at[i] = at[j]
    BY <1>1, <2>2, <2>3, FS_PigeonHole
  <2>5. at[i] = (p + i) % Size /\ at[j] = (p + j) % Size
    BY DEF at
  <2>6. p + i \in Int /\ p + j \in Int /\ (p + i) - (p + j) < Size /\ (p + j) - (p + i) < Size
    BY <1>1, SizeAssumption DEF C
  <2>7. p + i < p + j \/ p + j < p + i
    BY <2>4
  <2> QED BY <2>4, <2>5, <2>6, <2>7, Positioned
<1>3. Min(K) \in K
  <2>1. K \subseteq Nat
    BY <1>1
  <2> HIDE DEF K
  <2> QED BY <1>2, <2>1, LeastNumber
<1>4. Past(held, p) = (p + Min(K)) % Size
  BY DEF Past
<1>5. Min(K) \in Int /\ (p + Min(K)) % Size \notin held
  BY <1>1, <1>3
<1> HIDE DEF K
<1> QED BY <1>4, <1>5, Positioned

-----------------------------------------------------------------------------
(***************************************************************************)
(* Positions nudged past the ones taken, and lists of nodes nudged.        *)
(***************************************************************************)
Nudges(spots, taken, N) ==
    LET out[i \in 0 .. N] == IF i = 0 THEN <<>> ELSE WithSpot(out[i - 1], spots[i], taken)
    IN  out

\* The positions nudged so far are what the recursion says.
LEMMA NudgesSo ==
    ASSUME NEW spots, NEW taken, NEW N \in Nat
    PROVE  Nudges(spots, taken, N) =
             [i \in 0 .. N |-> IF i = 0 THEN <<>> ELSE WithSpot(Nudges(spots, taken, N)[i - 1], spots[i], taken)]
<1> DEFINE So(f, n) == f = [i \in 0 .. n |-> IF i = 0 THEN <<>> ELSE WithSpot(f[i - 1], spots[i], taken)]
           P == {n \in 0 .. N : \E f : So(f, n)}
<1>1. 0 \in P
  <2>1. So([i \in 0 .. 0 |-> <<>>], 0)
    OBVIOUS
  <2> HIDE DEF So
  <2> QED BY <2>1
<1>2. ASSUME NEW n \in 1 .. N, n - 1 \in P PROVE n \in P
  <2>1. PICK f : So(f, n - 1)
    BY <1>2
  <2> DEFINE g == [i \in 0 .. n |-> IF i = n THEN WithSpot(f[n - 1], spots[n], taken) ELSE f[i]]
  <2>2. ASSUME NEW i \in 0 .. n
        PROVE  g[i] = IF i = 0 THEN <<>> ELSE WithSpot(g[i - 1], spots[i], taken)
    <3>1. CASE i = n
      BY <3>1
    <3>2. CASE i # n
      <4>1. i \in 0 .. n - 1 /\ g[i] = f[i] /\ (i # 0 => i - 1 \in 0 .. n /\ g[i - 1] = f[i - 1])
        BY <3>2
      <4>2. f[i] = IF i = 0 THEN <<>> ELSE WithSpot(f[i - 1], spots[i], taken)
        BY <2>1, <4>1
      <4> QED BY <4>1, <4>2
    <3> QED BY <3>1, <3>2
  <2>3. So(g, n)
    BY <2>2
  <2> HIDE DEF So
  <2> QED BY <2>3
<1>3. N \in P
  <2> HIDE DEF P
  <2>1. 0 .. N \subseteq P
    BY <1>1, <1>2, StepInduction
  <2> QED BY <2>1
<1>4. \E f : So(f, N)
  BY <1>3
<1>5. Nudges(spots, taken, N) = CHOOSE f : So(f, N)
  BY DEF Nudges
<1>6. So(Nudges(spots, taken, N), N)
  <2> HIDE DEF So
  <2> QED BY <1>4, <1>5, Zenon
<1> QED BY <1>6

\* What is nudged is free: there is room for every position.
LEMMA NudgeFree ==
    ASSUME NEW spots, Len(spots) \in Nat, \A i \in 1 .. Len(spots) : spots[i] \in Int,
           NEW taken, IsFiniteSet(taken), Cardinality(taken) + Len(spots) <= Size
    PROVE  /\ Nudge(spots, taken) \in Seq(0 .. Size - 1)
           /\ Len(Nudge(spots, taken)) = Len(spots)
           /\ \A i \in 1 .. Len(spots) : Nudge(spots, taken)[i] \notin taken
<1> DEFINE N == Len(spots)
           out == Nudges(spots, taken, N)
           Fit(so, i) == so \in Seq(0 .. Size - 1) /\ Len(so) = i /\ \A j \in 1 .. i : so[j] \notin taken
           P == {i \in 0 .. N : Fit(out[i], i)}
<1>a. N \in Nat
  OBVIOUS
<1>b. N = Len(spots)
  OBVIOUS
<1>1. out = [i \in 0 .. N |-> IF i = 0 THEN <<>> ELSE WithSpot(out[i - 1], spots[i], taken)]
  <2> HIDE DEF N
  <2> QED BY <1>a, NudgesSo
<1>2. Nudge(spots, taken) = out[N]
  BY DEF Nudge, Nudges
<1> HIDE DEF out, N
<1>3. 0 \in P
  BY <1>a, <1>1
<1>4. ASSUME NEW i \in 1 .. N, i - 1 \in P PROVE i \in P
  <2> DEFINE so == out[i - 1]
             p == Past(taken \cup ToSet(so), spots[i])
  <2>0. i \in Nat /\ i - 1 \in Nat /\ i >= 1 /\ i <= N /\ i \in 0 .. N /\ spots[i] \in Int
    BY <1>a, <1>b
  <2>1. Fit(so, i - 1)
    BY <1>4
  <2>2. out[i] = Append(so, p)
    <3>1. i # 0
      BY <2>0
    <3>2. out[i] = WithSpot(out[i - 1], spots[i], taken)
      BY <1>1, <2>0, <3>1
    <3> QED BY <3>2 DEF WithSpot
  <2>3. IsFiniteSet(ToSet(so)) /\ Cardinality(ToSet(so)) <= i - 1
    <3>1. so \in Surjection(1 .. i - 1, ToSet(so))
      BY <2>1 DEF Surjection, ToSet
    <3>2. IsFiniteSet(1 .. i - 1) /\ Cardinality(1 .. i - 1) = i - 1
      BY <2>0, FirstNumbers
    <3> QED BY <3>1, <3>2, FS_Surjection
  <2> HIDE DEF so
  <2>4. IsFiniteSet(taken \cup ToSet(so)) /\ Cardinality(taken \cup ToSet(so)) < Size
    <3>1. /\ IsFiniteSet(taken \cup ToSet(so))
          /\ Cardinality(taken \cup ToSet(so))
               = Cardinality(taken) + Cardinality(ToSet(so)) - Cardinality(taken \cap ToSet(so))
      BY <2>3, FS_Union
    <3>2. IsFiniteSet(taken \cap ToSet(so))
      BY FS_Intersection
    <3>3. /\ Cardinality(taken) \in Nat /\ Cardinality(ToSet(so)) \in Nat
          /\ Cardinality(taken \cap ToSet(so)) \in Nat
      BY <2>3, <3>2, FS_CardinalityType
    <3> QED BY <1>b, <2>0, <2>3, <3>1, <3>3, SizeAssumption
  <2>5. p \in 0 .. Size - 1 /\ p \notin taken
    <3> DEFINE held == taken \cup ToSet(so)
    <3>1. IsFiniteSet(held) /\ Cardinality(held) < Size
      BY <2>4
    <3> HIDE DEF held
    <3>2. Past(held, spots[i]) \in (0 .. Size - 1) \ held
      BY <2>0, <3>1, PastFree
    <3> QED BY <3>2 DEF held
  <2> HIDE DEF p
  <2>6. Fit(Append(so, p), i)
    <3>1. Append(so, p) \in Seq(0 .. Size - 1) /\ Len(Append(so, p)) = i
      BY <2>1, <2>5
    <3>2. ASSUME NEW j \in 1 .. i PROVE Append(so, p)[j] \notin taken
      <4>1. CASE j = i
        BY <2>1, <2>5, <4>1
      <4>2. CASE j # i
        <5>1. j \in 1 .. i - 1 /\ Append(so, p)[j] = so[j]
          BY <2>1, <4>2
        <5> QED BY <2>1, <5>1
      <4> QED BY <4>1, <4>2
    <3> QED BY <3>1, <3>2
  <2> QED BY <2>0, <2>2, <2>6
<1>5. N \in P
  <2> HIDE DEF P
  <2>1. 0 .. N \subseteq P
    BY <1>a, <1>3, <1>4, StepInduction
  <2> QED BY <1>a, <2>1
<1> QED BY <1>a, <1>b, <1>2, <1>5

\* What is paired with an element of a sequence is at its place.
LEMMA PairedAt ==
    ASSUME NEW s, DOMAIN s = 1 .. Len(s), NEW values, NEW n \in ToSet(s)
    PROVE  \E i \in 1 .. Len(s) : s[i] = n /\ Paired(s, values)[n] = values[i]
<1>1. \E i \in 1 .. Len(s) : s[i] = n
  BY DEF ToSet
<1> DEFINE i == CHOOSE i \in 1 .. Len(s) : s[i] = n
<1>2. i \in 1 .. Len(s) /\ s[i] = n
  BY <1>1
<1>3. Paired(s, values)[n] = values[i]
  BY DEF Paired
<1> HIDE DEF i
<1> QED BY <1>2, <1>3

\* The nodes of a list, nudged, are at free positions.
LEMMA NudgedAlongFree ==
    ASSUME NEW D, NEW order \in Seq(D), NEW plan, \A n \in ToSet(order) : plan[n] \in Int,
           NEW taken, IsFiniteSet(taken), Cardinality(taken) + Len(order) <= Size
    PROVE  /\ NudgedAlong(order, plan, taken) \in [ToSet(order) -> 0 .. Size - 1]
           /\ \A n \in ToSet(order) : NudgedAlong(order, plan, taken)[n] \notin taken
<1> DEFINE spots == Along(plan, order)
           free == Nudge(spots, taken)
<1>1. order = [i \in 1 .. Len(order) |-> order[i]] /\ Len(order) \in Nat
  OBVIOUS
<1>2. spots = [i \in 1 .. Len(order) |-> plan[order[i]]] /\ \A i \in 1 .. Len(order) : plan[order[i]] \in Int
  BY <1>1 DEF Along, ToSet
<1>3. spots \in Seq(Int) /\ Len(spots) = Len(order)
  <2> HIDE DEF spots
  <2> QED BY <1>1, <1>2
<1> HIDE DEF spots
<1>4. free \in Seq(0 .. Size - 1) /\ Len(free) = Len(order) /\ \A i \in 1 .. Len(order) : free[i] \notin taken
  BY <1>1, <1>3, NudgeFree
<1>5. NudgedAlong(order, plan, taken) = Paired(order, free)
  BY DEF NudgedAlong, spots
<1> HIDE DEF free
<1>6. ASSUME NEW n \in ToSet(order)
      PROVE  Paired(order, free)[n] \in 0 .. Size - 1 /\ Paired(order, free)[n] \notin taken
  <2>1. PICK i \in 1 .. Len(order) : order[i] = n /\ Paired(order, free)[n] = free[i]
    BY <1>1, PairedAt
  <2>2. i \in 1 .. Len(free)
    BY <1>4
  <2>3. free[i] \in 0 .. Size - 1
    BY <1>4, <2>2, ElementOfSeq
  <2> QED BY <1>4, <2>1, <2>3
<1>7. Paired(order, free) = [n \in ToSet(order) |-> Paired(order, free)[n]]
  <2> DEFINE at(n) == free[CHOOSE i \in 1 .. Len(order) : order[i] = n]
  <2>1. Paired(order, free) = [n \in ToSet(order) |-> at(n)]
    BY DEF Paired
  <2> HIDE DEF at
  <2> QED BY <2>1
<1> QED BY <1>5, <1>6, <1>7

-----------------------------------------------------------------------------
(***************************************************************************)
(* A plan of moves: where each step goes is free when its turn comes.      *)
(***************************************************************************)
\* A ring: some nodes of the inventory at positions of their own.
IsRing(cur) ==
    /\ DOMAIN cur \subseteq Hosts
    /\ \A n \in DOMAIN cur : cur[n] \in Int
    /\ \A m, n \in DOMAIN cur : cur[m] = cur[n] => m = n

\* Whoever stands where a step goes has moved away before it, and no two steps
\* are of one node or go to one place.
WayFree(cur, way) ==
    \A j \in 1 .. Len(way) :
        /\ \A m \in DOMAIN cur \ {way[j].name} :
               cur[m] = way[j].to => \E i \in 1 .. j - 1 : way[i].name = m
        /\ \A i \in 1 .. j - 1 : way[i].name # way[j].name /\ way[i].to # way[j].to

\* The datacenters planned so far (done): where the ring is after their steps.
LeadsFree(cur, st, done) ==
    /\ WayFree(cur, st.steps)
    /\ \A n \in DOMAIN cur : st.where[n] = cur[n] \/ \E i \in 1 .. Len(st.steps) : st.steps[i].name = n
    /\ \A i \in 1 .. Len(st.steps) :
          /\ st.steps[i].name \in DOMAIN cur /\ Dc[st.steps[i].name] \in done
          /\ st.steps[i].to \in Int
          /\ st.where[st.steps[i].name] = st.steps[i].to

\* The moves of a datacenter go where no node of another one is.
MovesApart(where, dc, moves) ==
    /\ DOMAIN moves \subseteq {n \in DOMAIN where : Dc[n] = dc}
    /\ \A n \in DOMAIN moves :
          moves[n] \in Int /\ \A m \in DOMAIN where : Dc[m] # dc => where[m] # moves[n]

\* The steps of a datacenter more are free from where the others leave the ring.
LEMMA WayOfDc ==
    ASSUME NEW cur, NEW done, NEW dc, dc \notin done, NEW st, NEW next, NEW rfs, NEW moves,
           LeadsFree(cur, st, done), DOMAIN st.where = DOMAIN cur, IsSequence(st.steps),
           MovesApart(st.where, dc, moves), IsFiniteSet(DOMAIN moves),
           NEW order, order = MoveOrder(OfDc(st.where, dc), moves),
           next = MovesInOrder(st, OfDc(st.where, dc), moves, order, rfs)
    PROVE  LeadsFree(cur, next, done \cup {dc})
<1> DEFINE here == OfDc(st.where, dc)
           mine == StepsOf(here, moves, order, rfs)
           M == Len(st.steps)
           K == Len(order)
<1>1. order \in Seq(DOMAIN moves) /\ FreeInTurn(here, moves, order)
  BY MoveOrderFree
<1>2. /\ DOMAIN here = {n \in DOMAIN cur : Dc[n] = dc}
      /\ \A n \in DOMAIN here : here[n] = st.where[n]
  BY DEF OfDc, Restrict
<1>3. next.where = After(st.where, moves, order, K) /\ next.steps = st.steps \o mine
  BY DEF MovesInOrder
<1> HIDE DEF here
<1>4. ASSUME NEW k \in 1 .. K PROVE mine[k].name = order[k] /\ mine[k].to = moves[order[k]]
  BY DEF StepsOf
<1>5. IsSequence(mine) /\ Len(mine) = K
  <2>1. mine = [k \in 1 .. K |-> mine[k]]
    BY DEF StepsOf
  <2> HIDE DEF mine
  <2> DEFINE S == {mine[k] : k \in 1 .. K}
  <2>2. mine \in Seq(S) /\ Len(mine) = K
    BY <1>1, <2>1
  <2> QED BY <2>2 DEF IsSequence
<1> HIDE DEF mine
<1>6. /\ Len(next.steps) = M + K /\ M \in Nat /\ K \in Nat
      /\ \A i \in 1 .. M : next.steps[i] = st.steps[i]
      /\ \A k \in 1 .. K : next.steps[M + k] = mine[k]
  <2> DEFINE first == st.steps
  <2> HIDE DEF first
  <2>1. /\ Len(first \o mine) = Len(first) + Len(mine)
        /\ Len(first) \in Nat /\ Len(mine) \in Nat
        /\ \A i \in 1 .. Len(first) : (first \o mine)[i] = first[i]
        /\ \A i \in 1 .. Len(mine) : (first \o mine)[Len(first) + i] = mine[i]
    <3>1. IsSequence(first)
      BY DEF first
    <3> QED BY <1>5, <3>1, JoinedSequences
  <2>2. next.steps = first \o mine
    BY <1>3 DEF first
  <2> QED BY <1>5, <2>1, <2>2 DEF first
<1>a. M \in Nat /\ K \in Nat
  BY <1>6
<1>b. M = Len(st.steps) /\ K = Len(order)
  OBVIOUS
<1> HIDE DEF M, K
<1>7. ASSUME NEW k \in 1 .. K
      PROVE  /\ order[k] \in DOMAIN moves /\ order[k] \in DOMAIN cur /\ Dc[order[k]] = dc
             /\ moves[order[k]] \in Int
             /\ \A m \in DOMAIN cur : Dc[m] # dc => st.where[m] # moves[order[k]]
  <2>1. order[k] \in DOMAIN moves
    BY <1>1, <1>b
  <2> QED BY <2>1 DEF MovesApart
<1>8. ASSUME NEW m \in DOMAIN cur, Dc[m] = dc PROVE st.where[m] = cur[m] /\ m \in DOMAIN here /\ here[m] = cur[m]
  BY <1>2, <1>8 DEF LeadsFree
<1>9. ASSUME NEW j \in 1 .. M + K
      PROVE  LET s == next.steps[j] IN
             /\ \A m \in DOMAIN cur \ {s.name} : cur[m] = s.to => \E i \in 1 .. j - 1 : next.steps[i].name = m
             /\ \A i \in 1 .. j - 1 : next.steps[i].name # s.name /\ next.steps[i].to # s.to
             /\ s.name \in DOMAIN cur /\ Dc[s.name] \in done \cup {dc} /\ s.to \in Int
             /\ next.where[s.name] = s.to
  <2>1. CASE j \in 1 .. M
    <3>1. \A i \in 1 .. j : i \in 1 .. M /\ next.steps[i] = st.steps[i]
      BY <1>6, <2>1
    <3> DEFINE s == st.steps[j]
    <3>2. next.steps[j] = s
      BY <3>1
    <3>3. /\ \A m \in DOMAIN cur \ {s.name} : cur[m] = s.to => \E i \in 1 .. j - 1 : st.steps[i].name = m
          /\ \A i \in 1 .. j - 1 : st.steps[i].name # s.name /\ st.steps[i].to # s.to
          /\ s.name \in DOMAIN cur /\ Dc[s.name] \in done /\ s.to \in Int /\ st.where[s.name] = s.to
      BY <1>b, <2>1 DEF LeadsFree, WayFree
    <3>4. next.where[s.name] = s.to
      <4>1. \A k \in 1 .. K : order[k] # s.name
        BY <1>7, <3>3
      <4> HIDE DEF s
      <4> QED BY <1>3, <3>3, <4>1 DEF After
    <3> HIDE DEF s
    <3>5. \A m \in DOMAIN cur \ {s.name} : cur[m] = s.to => \E i \in 1 .. j - 1 : next.steps[i].name = m
      BY <3>1, <3>3
    <3>6. \A i \in 1 .. j - 1 : next.steps[i].name # s.name /\ next.steps[i].to # s.to
      BY <3>1, <3>3
    <3> QED BY <3>2, <3>3, <3>4, <3>5, <3>6
  <2>2. CASE j \notin 1 .. M
    <3> DEFINE k == j - M
               n == order[k]
               to == moves[n]
    <3>1. k \in 1 .. K /\ j = M + k
      BY <1>a, <2>2
    <3>2. next.steps[j].name = n /\ next.steps[j].to = to
      BY <1>4, <1>6, <3>1
    <3>3. \A l \in 1 .. K : next.steps[M + l].name = order[l] /\ next.steps[M + l].to = moves[order[l]]
      BY <1>4, <1>6
    <3>4. Free(After(here, moves, order, k - 1), n, to) /\ \A l \in 1 .. k - 1 : order[l] # n
      BY <1>1, <1>b, <3>1 DEF FreeInTurn
    <3>5. n \in DOMAIN cur /\ Dc[n] = dc /\ to \in Int /\ \A m \in DOMAIN cur : Dc[m] # dc => st.where[m] # to
      BY <1>7, <3>1
    <3> HIDE DEF k, n, to
    <3>6. ASSUME NEW m \in DOMAIN cur \ {n}, cur[m] = to
          PROVE  \E i \in 1 .. j - 1 : next.steps[i].name = m
      <4>1. CASE Dc[m] # dc
        <5>1. st.where[m] # cur[m]
          BY <3>5, <3>6, <4>1
        <5>2. PICK i \in 1 .. M : st.steps[i].name = m
          BY <1>b, <5>1 DEF LeadsFree
        <5> QED BY <1>6, <3>1, <5>2
      <4>2. CASE Dc[m] = dc
        <5>1. m \in DOMAIN here /\ here[m] = cur[m]
          BY <1>8, <4>2
        <5>2. After(here, moves, order, k - 1)[m] # to
          BY <3>4, <3>6, <5>1 DEF Free, After
        <5>3. PICK l \in 1 .. k - 1 : order[l] = m
          BY <3>6, <5>1, <5>2 DEF After
        <5>4. M + l \in 1 .. j - 1 /\ l \in 1 .. K
          BY <1>6, <3>1
        <5> QED BY <3>3, <5>3, <5>4
      <4> QED BY <4>1, <4>2
    <3>7. ASSUME NEW i \in 1 .. j - 1
          PROVE  next.steps[i].name # n /\ next.steps[i].to # to
      <4>1. CASE i \in 1 .. M
        <5> DEFINE s == st.steps[i]
        <5>1. next.steps[i] = s /\ s.name \in DOMAIN cur /\ Dc[s.name] \in done /\ st.where[s.name] = s.to
          BY <1>6, <1>b, <4>1 DEF LeadsFree
        <5> HIDE DEF s
        <5>2. Dc[s.name] # dc
          BY <5>1
        <5>3. s.to # to
          BY <3>5, <5>1, <5>2
        <5>4. s.name # n
          BY <3>5, <5>2
        <5> QED BY <5>1, <5>3, <5>4
      <4>2. CASE i \notin 1 .. M
        <5> DEFINE l == i - M
        <5>1. l \in 1 .. k - 1 /\ l \in 1 .. K /\ i = M + l
          BY <1>6, <3>1, <4>2
        <5>2. next.steps[i].name = order[l] /\ next.steps[i].to = moves[order[l]]
          BY <3>3, <5>1
        <5>3. order[l] \in DOMAIN cur /\ Dc[order[l]] = dc /\ order[l] # n
          BY <1>7, <3>4, <5>1
        <5> HIDE DEF l
        <5>4. After(here, moves, order, k - 1)[order[l]] = moves[order[l]]
          BY <1>2, <5>1, <5>3 DEF After
        <5>5. moves[order[l]] # to
          BY <1>2, <3>4, <5>3, <5>4 DEF Free, After
        <5> QED BY <5>2, <5>3, <5>5
      <4> QED BY <4>1, <4>2
    <3>8. next.where[n] = to
      <4>1. \E l \in 1 .. K : order[l] = n
        BY <3>1 DEF n
      <4> QED BY <1>3, <3>5, <4>1 DEF After, to
    <3> QED BY <3>2, <3>5, <3>6, <3>7, <3>8
  <2> QED BY <2>1, <2>2
<1>10. ASSUME NEW n \in DOMAIN cur
       PROVE  next.where[n] = cur[n] \/ \E i \in 1 .. M + K : next.steps[i].name = n
  <2>1. CASE \E k \in 1 .. K : order[k] = n
    <3>1. PICK k \in 1 .. K : order[k] = n
      BY <2>1
    <3>2. M + k \in 1 .. M + K /\ next.steps[M + k].name = n
      BY <1>4, <1>6, <1>a, <3>1
    <3> QED BY <3>2
  <2>2. CASE \A k \in 1 .. K : order[k] # n
    <3>1. next.where[n] = st.where[n]
      BY <1>3, <2>2 DEF After
    <3>2. CASE \E i \in 1 .. M : st.steps[i].name = n
      <4>1. PICK i \in 1 .. M : st.steps[i].name = n
        BY <3>2
      <4>2. i \in 1 .. M + K /\ next.steps[i].name = n
        BY <1>6, <1>a, <4>1
      <4> QED BY <4>2
    <3>3. CASE st.where[n] = cur[n]
      BY <3>1, <3>3
    <3> QED BY <1>b, <3>2, <3>3 DEF LeadsFree
  <2> QED BY <2>1, <2>2
<1>11. WayFree(cur, next.steps)
  BY <1>6, <1>9 DEF WayFree
<1> QED BY <1>6, <1>9, <1>10, <1>11 DEF LeadsFree

-----------------------------------------------------------------------------
(***************************************************************************)
(* Scores and lists: what is chosen, and what is spaced evenly.            *)
(***************************************************************************)
\* What is chosen by its score is one of those scored.
LEMMA BestOne ==
    ASSUME NEW scored, scored # {}
    PROVE  \E x \in scored : Best(scored) = x[2]
<1> DEFINE lowest == {x \in scored : \A y \in scored : ~LexLess(y[1], x[1])}
           one == CHOOSE x \in scored : x \in lowest \/ lowest = {}
<1>1. \E x \in scored : x \in lowest \/ lowest = {}
  OBVIOUS
<1>2. Best(scored) = one[2]
  BY DEF Best
<1> HIDE DEF lowest
<1>3. one \in scored
  BY <1>1
<1> QED BY <1>2, <1>3

\* A quotient is larger when the dividend is by the divisor or more.
LEMMA QuotientGrows ==
    ASSUME NEW a \in Int, NEW b \in Int, NEW c \in Nat \ {0}, b >= a + c
    PROVE  a \div c \in Int /\ b \div c \in Int /\ a \div c < b \div c
<1> DEFINE q == a \div c
           r == b \div c
           m == a % c
           l == b % c
<1>1. q \in Int /\ m = a - c * q /\ m \in 0 .. c - 1 /\ r \in Int /\ l = b - c * r /\ l \in 0 .. c - 1
  <2>1. \A x, y \in Int : y > 0 => /\ x \div y \in Int /\ x % y = x - y * (x \div y)
                                   /\ x % y \in 0 .. y - 1
    OBVIOUS
  <2> QED BY <2>1
<1> HIDE DEF q, r, m, l
<1>2. c * q \in Int /\ c * r \in Int
  BY <1>1
<1>3. r <= q => c * r <= c * q
  BY <1>1
<1>4. q < r
  BY <1>1, <1>2, <1>3
<1> QED BY <1>1, <1>4 DEF q, r

\* Balanced positions are apart from one another.
LEMMA PositionsApart ==
    ASSUME NEW count \in Nat \ {0}, NEW offset \in Int
    PROVE  LET s == BalancedPositions(count, offset) IN
           /\ s \in Seq(Int) /\ Len(s) = count
           /\ count <= Size => \A i, j \in 1 .. count : i < j => s[i] < s[j]
<1> DEFINE s == BalancedPositions(count, offset)
<1>1. ASSUME NEW i \in 1 .. count PROVE s[i] \in Int /\ s[i] = ((i - 1) * Size) \div count + offset
  <2>1. s[i] = ((i - 1) * Size) \div count + offset
    BY DEF BalancedPositions
  <2>2. (i - 1) * Size \in Int
    BY SizeAssumption
  <2>3. ((i - 1) * Size) \div count \in Int
    BY <2>2
  <2> HIDE DEF s
  <2> QED BY <2>1, <2>3
<1>2. s = [i \in 1 .. count |-> s[i]]
  <2>1. s = [i \in 1 .. count |-> ((i - 1) * Size) \div count + offset]
    BY DEF BalancedPositions
  <2> HIDE DEF s
  <2> QED BY <1>1, <2>1
<1> HIDE DEF s
<1>3. s \in Seq(Int) /\ Len(s) = count
  BY <1>1, <1>2
<1>4. ASSUME count <= Size, NEW i \in 1 .. count, NEW j \in 1 .. count, i < j PROVE s[i] < s[j]
  <2> DEFINE a == (i - 1) * Size
             b == (j - 1) * Size
  <2>1. a \in Int /\ b \in Int
    BY SizeAssumption
  <2>2. b - a = (j - i) * Size /\ (j - i) * Size >= Size
    BY <1>4, SizeAssumption
  <2>3. b >= a + count
    BY <1>4, <2>1, <2>2, SizeAssumption
  <2>4. s[i] = a \div count + offset /\ s[j] = b \div count + offset
    BY <1>1
  <2> HIDE DEF a, b
  <2>5. a \div count \in Int /\ b \div count \in Int /\ a \div count < b \div count
    BY <2>1, <2>3, QuotientGrows
  <2> QED BY <2>4, <2>5
<1> QED BY <1>3, <1>4 DEF s

\* The numbers of a set in increasing order.
LEMMA AscendingLists ==
    ASSUME NEW S, IsFiniteSet(S), S \subseteq Int
    PROVE  LET s == Ascending(S) IN
           /\ s \in Seq(S) /\ Len(s) = Cardinality(S) /\ Len(s) \in Nat
           /\ \A x \in S : \E i \in 1 .. Len(s) : s[i] = x
           /\ \A i, j \in 1 .. Len(s) : s[i] = s[j] => i = j
<1> DEFINE rank == [x \in S |-> x]
<1>1. \A x \in S : rank[x] \in Int
  OBVIOUS
<1>2. \A x, y \in S : rank[x] = rank[y] => x = y
  OBVIOUS
<1>3. Ascending(S) = InOrder(S, rank)
  BY DEF Ascending
<1> HIDE DEF rank
<1>4. Cardinality(S) \in Nat
  BY FS_CardinalityType
<1> DEFINE s == InOrder(S, rank)
<1>5. /\ s \in Seq(S) /\ Len(s) = Cardinality(S)
      /\ \A x \in S : \E i \in 1 .. Len(s) : s[i] = x
      /\ \A i, j \in 1 .. Len(s) : s[i] = s[j] => i = j
  BY <1>1, <1>2, InOrderLists
<1> HIDE DEF s
<1> QED BY <1>3, <1>4, <1>5 DEF s

\* What a function gives along a sequence of its arguments.
LEMMA AlongSeq ==
    ASSUME NEW f, NEW order, Len(order) \in Nat, \A i \in 1 .. Len(order) : f[order[i]] \in Int
    PROVE  /\ Along(f, order) \in Seq(Int) /\ Len(Along(f, order)) = Len(order)
           /\ \A i \in 1 .. Len(order) : Along(f, order)[i] = f[order[i]]
<1> DEFINE s == Along(f, order)
<1>1. s = [i \in 1 .. Len(order) |-> f[order[i]]]
  BY DEF Along
<1> HIDE DEF s
<1>2. s \in Seq(Int) /\ Len(s) = Len(order)
  BY <1>1
<1> QED BY <1>1, <1>2 DEF s

\* The nodes of a ring in its order.
LEMMA InRingLists ==
    ASSUME NEW cur, IsRing(cur)
    PROVE  LET s == InRing(cur) IN
           /\ s \in Seq(DOMAIN cur) /\ Len(s) = Cardinality(DOMAIN cur)
           /\ ToSet(s) = DOMAIN cur
           /\ Len(s) \in 0 .. Cardinality(Hosts) /\ IsFiniteSet(DOMAIN cur)
<1>1. IsFiniteSet(DOMAIN cur) /\ Cardinality(DOMAIN cur) \in 0 .. Cardinality(Hosts)
  BY HostsFinite, FS_Subset, FS_CardinalityType DEF IsRing
<1>2. /\ InRing(cur) \in Seq(DOMAIN cur) /\ Len(InRing(cur)) = Cardinality(DOMAIN cur)
      /\ \A x \in DOMAIN cur : \E i \in 1 .. Len(InRing(cur)) : InRing(cur)[i] = x
  BY <1>1, InOrderLists DEF IsRing, InRing
<1>3. ToSet(InRing(cur)) = DOMAIN cur
  <2> DEFINE s == InRing(cur)
  <2>1. s \in Seq(DOMAIN cur) /\ \A x \in DOMAIN cur : \E i \in 1 .. Len(s) : s[i] = x
    BY <1>2
  <2> HIDE DEF s
  <2>2. DOMAIN s = 1 .. Len(s) /\ \A i \in DOMAIN s : s[i] \in DOMAIN cur
    BY <2>1
  <2>3. ToSet(s) = DOMAIN cur
    BY <2>1, <2>2 DEF ToSet
  <2> QED BY <2>3 DEF s
<1> QED BY <1>1, <1>2, <1>3

-----------------------------------------------------------------------------
(***************************************************************************)
(* balanced: the offsets tried, and where they send the nodes.             *)
(***************************************************************************)
(***************************************************************************)
(* The spacings tried are numbers.                                         *)
(***************************************************************************)
Spacings(starts, first, spacing, tol, N) ==
    LET os[i \in 0 .. N] == IF i = 0 THEN <<first>> ELSE WithOffset(os[i - 1], starts[i], spacing, tol)
    IN  os

\* The offsets kept so far are what the recursion says.
LEMMA SpacingsSo ==
    ASSUME NEW starts, NEW first, NEW spacing, NEW tol, NEW N \in Nat
    PROVE  Spacings(starts, first, spacing, tol, N) =
             [i \in 0 .. N |-> IF i = 0 THEN <<first>>
                               ELSE WithOffset(Spacings(starts, first, spacing, tol, N)[i - 1],
                                               starts[i], spacing, tol)]
<1> DEFINE So(f, n) == f = [i \in 0 .. n |-> IF i = 0 THEN <<first>>
                                             ELSE WithOffset(f[i - 1], starts[i], spacing, tol)]
           P == {n \in 0 .. N : \E f : So(f, n)}
<1>1. 0 \in P
  <2>1. So([i \in 0 .. 0 |-> <<first>>], 0)
    OBVIOUS
  <2> HIDE DEF So
  <2> QED BY <2>1
<1>2. ASSUME NEW n \in 1 .. N, n - 1 \in P PROVE n \in P
  <2>1. PICK f : So(f, n - 1)
    BY <1>2
  <2> DEFINE g == [i \in 0 .. n |-> IF i = n THEN WithOffset(f[n - 1], starts[n], spacing, tol) ELSE f[i]]
  <2>2. ASSUME NEW i \in 0 .. n
        PROVE  g[i] = IF i = 0 THEN <<first>> ELSE WithOffset(g[i - 1], starts[i], spacing, tol)
    <3>1. CASE i = n
      BY <3>1
    <3>2. CASE i # n
      <4>1. i \in 0 .. n - 1 /\ g[i] = f[i] /\ (i # 0 => i - 1 \in 0 .. n /\ g[i - 1] = f[i - 1])
        BY <3>2
      <4>2. f[i] = IF i = 0 THEN <<first>> ELSE WithOffset(f[i - 1], starts[i], spacing, tol)
        BY <2>1, <4>1
      <4> QED BY <4>1, <4>2
    <3> QED BY <3>1, <3>2
  <2>3. So(g, n)
    BY <2>2
  <2> HIDE DEF So
  <2> QED BY <2>3
<1>3. N \in P
  <2> HIDE DEF P
  <2>1. 0 .. N \subseteq P
    BY <1>1, <1>2, StepInduction
  <2> QED BY <2>1
<1>4. \E f : So(f, N)
  BY <1>3
<1>5. Spacings(starts, first, spacing, tol, N) = CHOOSE f : So(f, N)
  BY DEF Spacings
<1>6. So(Spacings(starts, first, spacing, tol, N), N)
  <2> HIDE DEF So
  <2> QED BY <1>4, <1>5, Zenon
<1> QED BY <1>6

\* At least one offset is tried, each of them a number.
LEMMA OffsetsTried ==
    ASSUME NEW existing, existing \in Seq(Int), NEW spacing \in Nat \ {0}, NEW offset \in Int, NEW tol
    PROVE  Offsets(existing, spacing, offset, tol) \in Seq(Int)
           /\ Len(Offsets(existing, spacing, offset, tol)) \in Nat \ {0}
<1> DEFINE S == {existing[i] % spacing : i \in DOMAIN existing}
           starts == Ascending(S)
           N == Len(starts)
           first == offset % spacing
           os == Spacings(starts, first, spacing, tol, N)
           Fit(so) == so \in Seq(Int) /\ Len(so) \in Nat \ {0}
           P == {i \in 0 .. N : Fit(os[i])}
<1>1. \A x, y \in Int : y > 0 => x % y \in Int
  OBVIOUS
<1>2. IsFiniteSet(S) /\ S \subseteq Int
  <2> DEFINE f == [i \in 1 .. Len(existing) |-> existing[i] % spacing]
  <2>a. DOMAIN existing = 1 .. Len(existing)
    OBVIOUS
  <2>1. f \in Surjection(1 .. Len(existing), S)
    BY <2>a DEF Surjection
  <2>2. IsFiniteSet(1 .. Len(existing))
    BY FirstNumbers
  <2>3. \A i \in DOMAIN existing : existing[i] \in Int
    OBVIOUS
  <2>4. S \subseteq Int
    BY <1>1, <2>3
  <2> HIDE DEF f, S
  <2> QED BY <2>1, <2>2, <2>4, FS_Surjection
<1>3. Offsets(existing, spacing, offset, tol) = os[N]
  BY DEF Offsets, Spacings
<1>4. first \in Int
  BY <1>1
<1> HIDE DEF S, first
<1>5. starts \in Seq(Int) /\ N \in Nat
  <2>1. starts \in Seq(S) /\ Len(starts) \in Nat
    BY <1>2, AscendingLists
  <2> HIDE DEF starts
  <2>2. starts \in Seq(Int)
    BY <1>2, <2>1, SeqMonotonic
  <2> QED BY <2>1, <2>2
<1>6. N = Len(starts)
  OBVIOUS
<1> HIDE DEF starts, N
<1>7. os = [i \in 0 .. N |-> IF i = 0 THEN <<first>> ELSE WithOffset(os[i - 1], starts[i], spacing, tol)]
  BY <1>5, SpacingsSo
<1> HIDE DEF os
<1>8. 0 \in P
  <2>1. os[0] = <<first>> /\ 0 \in 0 .. N
    BY <1>5, <1>7
  <2>2. Fit(<<first>>)
    BY <1>4
  <2> HIDE DEF Fit
  <2> QED BY <2>1, <2>2
<1>9. ASSUME NEW i \in 1 .. N, i - 1 \in P PROVE i \in P
  <2> DEFINE so == os[i - 1]
  <2>1. i \in 0 .. N /\ i # 0 /\ Fit(so) /\ starts[i] \in Int
    BY <1>5, <1>6, <1>9
  <2>2. os[i] = WithOffset(so, starts[i], spacing, tol)
    BY <1>7, <2>1
  <2> HIDE DEF so
  <2>3. Fit(Append(so, starts[i]))
    BY <2>1
  <2> HIDE DEF Fit
  <2>4. Fit(WithOffset(so, starts[i], spacing, tol))
    BY <2>1, <2>3 DEF WithOffset
  <2> QED BY <2>1, <2>2, <2>4
<1>10. Fit(os[N])
  <2> HIDE DEF P
  <2>1. 0 .. N \subseteq P
    BY <1>5, <1>8, <1>9, StepInduction
  <2>2. N \in P
    BY <1>5, <2>1
  <2> QED BY <2>2 DEF P
<1> QED BY <1>3, <1>10

(***************************************************************************)
(* The nodes of an even ring go to its positions.                          *)
(***************************************************************************)
\* Each node of the ring is assigned to one of the targets.
LEMMA AssignedTo ==
    ASSUME NEW existing, Len(existing) \in Nat \ {0}, NEW targets, targets \in Seq(Int),
           Len(existing) <= Len(targets), NEW tol
    PROVE  Assign(existing, targets, tol).to \in [1 .. Len(existing) -> ToSet(targets)]
<1> DEFINE m == Len(existing)
           t == Len(targets)
           tried == {<<s, p, Chosen(targets, s, p)>> : s \in 0 .. t - 1, p \in Assignments(m, t)}
           CostOf(c) == Cost(existing, c[3], tol) \o <<c[1]>> \o Reverse(c[2])
           scored == {<<CostOf(c), [cost |-> Cost(existing, c[3], tol), to |-> c[3]]>> : c \in tried}
           p0 == [i \in 1 .. m |-> i - 1]
<1>a. m \in Nat \ {0} /\ t \in Nat /\ m <= t
  OBVIOUS
<1>b. DOMAIN targets = 1 .. t
  OBVIOUS
<1>c. m = Len(existing) /\ t = Len(targets)
  OBVIOUS
<1> HIDE DEF m, t
<1>1. p0 \in Assignments(m, t)
  BY <1>a DEF Assignments
<1>2. scored # {}
  <2>1. 0 \in 0 .. t - 1
    BY <1>a
  <2> HIDE DEF p0
  <2>2. <<0, p0, Chosen(targets, 0, p0)>> \in tried
    BY <1>1, <2>1
  <2> HIDE DEF tried
  <2> QED BY <2>2
<1>3. Assign(existing, targets, tol) = Best(scored)
  BY <1>c DEF Assign
<1>4. PICK c \in tried : Best(scored).to = c[3]
  <2> HIDE DEF tried
  <2>1. ASSUME NEW x \in scored PROVE \E c \in tried : x[2].to = c[3]
    <3> HIDE DEF CostOf
    <3>1. PICK c \in tried : x = <<CostOf(c), [cost |-> Cost(existing, c[3], tol), to |-> c[3]]>>
      OBVIOUS
    <3>2. x[2] = [cost |-> Cost(existing, c[3], tol), to |-> c[3]]
      BY <3>1
    <3> QED BY <3>2
  <2> HIDE DEF scored
  <2>2. PICK x \in scored : Best(scored) = x[2]
    BY <1>2, BestOne
  <2> QED BY <2>1, <2>2
<1>5. PICK s \in 0 .. t - 1, p \in Assignments(m, t) : c[3] = Chosen(targets, s, p)
  <2>1. PICK s \in 0 .. t - 1, p \in Assignments(m, t) : c = <<s, p, Chosen(targets, s, p)>>
    OBVIOUS
  <2> QED BY <2>1
<1>d. p \in [1 .. m -> 0 .. t - 1]
  BY DEF Assignments
<1>6. ASSUME NEW i \in 1 .. m PROVE targets[1 + ((s + p[i]) % t)] \in ToSet(targets)
  <2> DEFINE a == s + p[i]
  <2>1. a \in Int
    <3>1. p[i] \in 0 .. t - 1
      BY <1>d
    <3> QED BY <3>1
  <2> HIDE DEF a
  <2>2. \A x, y \in Int : y > 0 => x % y \in 0 .. y - 1
    OBVIOUS
  <2>3. a % t \in 0 .. t - 1
    <3>1. t \in Int /\ t > 0
      BY <1>a
    <3> QED BY <2>1, <2>2, <3>1
  <2>4. 1 + (a % t) \in 1 .. t
    BY <1>a, <2>3
  <2> QED BY <1>b, <2>4 DEF ToSet, a
<1>7. Chosen(targets, s, p) = [i \in 1 .. m |-> targets[1 + ((s + p[i]) % t)]]
  BY <1>c, <1>d DEF Chosen
<1>8. Chosen(targets, s, p) \in [1 .. m -> ToSet(targets)]
  BY <1>6, <1>7
<1> HIDE DEF scored
<1> QED BY <1>3, <1>4, <1>5, <1>8, <1>c

\* So it is by the best offset, the targets evenly spaced from it.
LEMMA BestOffsetFits ==
    ASSUME NEW existing, Len(existing) \in Nat \ {0}, NEW offsets, offsets \in Seq(Int),
           Len(offsets) \in Nat \ {0}, NEW count \in Nat, Len(existing) <= count, NEW tol
    PROVE  LET best == BestOffset(existing, offsets, count, tol) IN
           /\ \E o \in Int : best.targets = BalancedPositions(count, o)
           /\ best.to \in [1 .. Len(existing) -> ToSet(best.targets)]
<1> DEFINE Found(r) == TryOffset(existing, BalancedPositions(count, offsets[r]), tol, r)
           scored == {Found(r) : r \in DOMAIN offsets}
<1>1. scored # {}
  <2>1. 1 \in DOMAIN offsets
    OBVIOUS
  <2> HIDE DEF Found
  <2> QED BY <2>1
<1>2. BestOffset(existing, offsets, count, tol) = Best(scored)
  BY DEF BestOffset
<1>3. PICK x \in scored : Best(scored) = x[2]
  BY <1>1, BestOne
<1> HIDE DEF Found
<1>4. PICK r \in DOMAIN offsets : x = Found(r)
  OBVIOUS
<1> HIDE DEF scored
<1> DEFINE targets == BalancedPositions(count, offsets[r])
<1>5. x[2] = [targets |-> targets, to |-> Assign(existing, targets, tol).to]
  <2>1. x = Tried(existing, targets, Assign(existing, targets, tol), tol, r)
    BY <1>4 DEF Found, TryOffset
  <2> QED BY <2>1 DEF Tried
<1>6. offsets[r] \in Int
  OBVIOUS
<1>7. targets \in Seq(Int) /\ Len(targets) = count
  BY <1>6, PositionsApart
<1> HIDE DEF targets
<1>8. Assign(existing, targets, tol).to \in [1 .. Len(existing) -> ToSet(targets)]
  BY <1>7, AssignedTo
<1> QED BY <1>2, <1>3, <1>5, <1>6, <1>8 DEF targets

-----------------------------------------------------------------------------
(***************************************************************************)
(* The new nodes, racks in turn.                                           *)
(***************************************************************************)
\* Pairs, compared as scores are.
LEMMA PairsOrdered ==
    ASSUME NEW a \in Int, NEW b \in Int, NEW c \in Int, NEW d \in Int
    PROVE  LexLess(<<a, b>>, <<c, d>>) <=> (a < c \/ (a = c /\ b < d))
<1> DEFINE s == <<a, b>>
           t == <<c, d>>
<1>1. Len(s) = 2 /\ s[1] = a /\ s[2] = b /\ t[1] = c /\ t[2] = d
  OBVIOUS
<1> HIDE DEF s, t
<1>2. LexLess(s, t) <=> \E i \in 1 .. 2 : s[i] < t[i] /\ \A j \in 1 .. i - 1 : s[j] = t[j]
  BY <1>1 DEF LexLess
<1>3. (\E i \in 1 .. 2 : s[i] < t[i] /\ \A j \in 1 .. i - 1 : s[j] = t[j])
        <=> (s[1] < t[1] \/ (s[2] < t[2] /\ s[1] = t[1]))
  <2>1. \A i \in 1 .. 2 : i = 1 \/ i = 2
    OBVIOUS
  <2>2. 1 .. 1 - 1 = {} /\ 1 .. 2 - 1 = {1} /\ 1 \in 1 .. 2 /\ 2 \in 1 .. 2
    OBVIOUS
  <2> QED BY <2>1, <2>2
<1>4. LexLess(s, t) <=> (s[1] < t[1] \/ (s[1] = t[1] /\ s[2] < t[2]))
  BY <1>2, <1>3
<1> QED BY <1>1, <1>4 DEF s, t

\* The new nodes, racks in turn, are as many as they were.
LEMMA RackOrderFits ==
    ASSUME NEW new, new \in Seq(Hosts)
    PROVE  RackOrder(new) \in Seq(ToSet(new)) /\ Len(RackOrder(new)) = Len(new)
<1> DEFINE N == Len(new)
           I == 1 .. N
           rack(i) == Rack[new[i]]
           rank(i) == Rank(new, i)
           before == {x \in I \X I : LexLess(<<rank(x[1]), rack(x[1])>>, <<rank(x[2]), rack(x[2])>>)}
<1>1. N \in Nat /\ IsFiniteSet(I) /\ Cardinality(I) = N
  BY FirstNumbers
<1>2. \A i \in I : new[i] \in ToSet(new) /\ rack(i) \in Int
  BY NamesAssumption DEF ToSet
<1>3. ASSUME NEW i \in I
      PROVE  /\ rank(i) \in Nat
             /\ \A j \in I : i < j /\ rack(i) = rack(j) => rank(i) < rank(j)
  <2> DEFINE Of1(k) == {j \in 1 .. k - 1 : rack(j) = rack(k)}
  <2>1. ASSUME NEW k \in I PROVE rank(k) = Cardinality(Of1(k)) /\ IsFiniteSet(Of1(k))
    <3>1. rank(k) = Cardinality(Of1(k))
      BY DEF Rank
    <3>2. Of1(k) \subseteq I
      BY <1>1
    <3> HIDE DEF Of1, rank
    <3> QED BY <1>1, <3>1, <3>2, FS_Subset
  <2>2. rank(i) \in Nat
    BY <2>1, FS_CardinalityType
  <2>3. ASSUME NEW j \in I, i < j, rack(i) = rack(j) PROVE rank(i) < rank(j)
    <3>1. Of1(i) \cup {i} \subseteq Of1(j) /\ i \notin Of1(i)
      BY <1>1, <2>3
    <3>2. IsFiniteSet(Of1(i)) /\ IsFiniteSet(Of1(j)) /\ rank(i) = Cardinality(Of1(i)) /\ rank(j) = Cardinality(Of1(j))
      BY <2>1
    <3> HIDE DEF Of1, rank
    <3>3. IsFiniteSet(Of1(i) \cup {i}) /\ Cardinality(Of1(i) \cup {i}) = Cardinality(Of1(i)) + 1
      BY <3>1, <3>2, FS_AddElement
    <3>4. Cardinality(Of1(i) \cup {i}) <= Cardinality(Of1(j))
      BY <3>1, <3>2, FS_Subset
    <3>5. Cardinality(Of1(i)) \in Nat /\ Cardinality(Of1(j)) \in Nat
      BY <3>2, FS_CardinalityType
    <3> QED BY <3>2, <3>3, <3>4, <3>5
  <2> QED BY <2>2, <2>3
<1>4. RackOrder(new) = [k \in I |-> new[CHOOSE i \in I :
          k - 1 = Cardinality({j \in I : LexLess(<<rank(j), rack(j)>>, <<rank(i), rack(i)>>)})]]
  BY DEF RackOrder
<1> HIDE DEF N, I, rack, rank
<1>5. ASSUME NEW i \in I, NEW j \in I
      PROVE  <<i, j>> \in before <=> (rank(i) < rank(j) \/ (rank(i) = rank(j) /\ rack(i) < rack(j)))
  <2>1. rank(i) \in Int /\ rank(j) \in Int /\ rack(i) \in Int /\ rack(j) \in Int
    BY <1>2, <1>3
  <2>2. <<i, j>> \in before <=> LexLess(<<rank(i), rack(i)>>, <<rank(j), rack(j)>>)
    OBVIOUS
  <2> HIDE DEF before
  <2> QED BY <2>1, <2>2, PairsOrdered
<1>6. ASSUME NEW i \in I PROVE {j \in I : LexLess(<<rank(j), rack(j)>>, <<rank(i), rack(i)>>)} = {j \in I : <<j, i>> \in before}
  OBVIOUS
<1> HIDE DEF before
<1>7. PlaceIn(I, before) \in Surjection(I, 0 .. N - 1)
  <2>1. ASSUME NEW i \in I PROVE <<i, i>> \notin before
    <3>1. rank(i) \in Int /\ rack(i) \in Int
      BY <1>2, <1>3
    <3> QED BY <1>5, <3>1
  <2>2. ASSUME NEW i \in I, NEW j \in I, i # j PROVE <<i, j>> \in before \/ <<j, i>> \in before
    <3>1. rank(i) \in Int /\ rack(i) \in Int /\ rank(j) \in Int /\ rack(j) \in Int
      BY <1>2, <1>3
    <3>2. i < j \/ j < i
      BY <1>1, <2>2 DEF I
    <3>3. rank(i) # rank(j) \/ rack(i) # rack(j)
      BY <1>3, <3>1, <3>2
    <3> QED BY <1>5, <3>1, <3>3
  <2>3. ASSUME NEW i \in I, NEW j \in I, NEW k \in I, <<i, j>> \in before, <<j, k>> \in before
        PROVE  <<i, k>> \in before
    <3>1. /\ rank(i) \in Int /\ rack(i) \in Int /\ rank(j) \in Int /\ rack(j) \in Int
          /\ rank(k) \in Int /\ rack(k) \in Int
      BY <1>2, <1>3
    <3>2. /\ rank(i) < rank(j) \/ (rank(i) = rank(j) /\ rack(i) < rack(j))
          /\ rank(j) < rank(k) \/ (rank(j) = rank(k) /\ rack(j) < rack(k))
      BY <1>5, <2>3
    <3>3. rank(i) < rank(k) \/ (rank(i) = rank(k) /\ rack(i) < rack(k))
      BY <3>1, <3>2
    <3> QED BY <1>5, <3>3
  <2> QED BY <1>1, <2>1, <2>2, <2>3, PlacesInOrder
<1> DEFINE At(k) == CHOOSE i \in I : k - 1 = Cardinality({j \in I : <<j, i>> \in before})
<1>8. ASSUME NEW k \in I PROVE At(k) \in I
  <2>1. k - 1 \in 0 .. N - 1
    BY <1>1 DEF I
  <2>2. PICK i \in I : PlaceIn(I, before)[i] = k - 1
    BY <1>7, <2>1 DEF Surjection
  <2>3. k - 1 = Cardinality({j \in I : <<j, i>> \in before})
    BY <2>2 DEF PlaceIn
  <2> QED BY <2>3
<1>9. RackOrder(new) = [k \in I |-> new[At(k)]]
  <2>1. \A i \in I : {j \in I : LexLess(<<rank(j), rack(j)>>, <<rank(i), rack(i)>>)} = {j \in I : <<j, i>> \in before}
    BY <1>6
  <2>2. ASSUME NEW k \in I
        PROVE  (CHOOSE i \in I : k - 1 = Cardinality({j \in I : LexLess(<<rank(j), rack(j)>>, <<rank(i), rack(i)>>)})) = At(k)
    BY <2>1, Zenon
  <2> HIDE DEF At
  <2> QED BY <1>4, <2>2, Zenon
<1> HIDE DEF At
<1>10. \A k \in I : new[At(k)] \in ToSet(new)
  BY <1>2, <1>8
<1>11. RackOrder(new) \in Seq(ToSet(new)) /\ Len(RackOrder(new)) = N
  BY <1>1, <1>9, <1>10 DEF I
<1> QED BY <1>11 DEF N

-----------------------------------------------------------------------------
(***************************************************************************)
(* bisect: the middles of ranges.                                          *)
(***************************************************************************)
Numbers(f) == \A n \in DOMAIN f : f[n] \in Int

\* A placement: nodes of the inventory, in order, and positions for nodes.
PlacedSo(p) ==
    /\ Numbers(p.at)
    /\ p.order \in Seq(Hosts) /\ Len(p.order) <= Cardinality(Hosts)

\* Positions over positions.
LEMMA NumbersOver ==
    ASSUME NEW f, NEW g, Numbers(f), Numbers(g)
    PROVE  Numbers(Overlay(f, g))
BY DEF Numbers, Overlay

\* New nodes are placed on the spots or as given.
LEMMA PlaceFits ==
    ASSUME NEW base, NEW spots, spots \subseteq Int, NEW new, new \in Seq(Hosts),
           Len(new) <= Cardinality(Hosts), NEW rf, NEW given, Numbers(given)
    PROVE  LET p == Place(base, spots, new, rf, given) IN
           PlacedSo(p) /\ (DOMAIN given = ToSet(new) => DOMAIN p.at = ToSet(p.order))
<1> DEFINE p == Place(base, spots, new, rf, given)
           KeyOf(f) == BalanceKey(Overlay(base, f), rf) \o <<0>> \o RacksAlong(f)
           scored == {<<KeyOf(f), Placed(f, InRing(f))>> : f \in Placements(spots, new)}
                     \cup {<<BalanceKey(Overlay(base, given), rf) \o <<1>>, Placed(given, new)>>}
           So(q) == PlacedSo(q) /\ (DOMAIN given = ToSet(new) => DOMAIN q.at = ToSet(q.order))
<1>1. So(Placed(given, new))
  BY DEF PlacedSo, Placed
<1>2. ASSUME NEW f \in Placements(spots, new) PROVE So(Placed(f, InRing(f)))
  <2>1. f \in [ToSet(new) -> spots] /\ IsInjective(f)
    BY DEF Placements, Bijection, Injection
  <2>2. ToSet(new) \subseteq Hosts
    BY ElementsFinite
  <2>3. IsRing(f) /\ Numbers(f)
    BY <2>1, <2>2 DEF IsRing, IsInjective, Numbers
  <2>4. /\ InRing(f) \in Seq(DOMAIN f) /\ ToSet(InRing(f)) = DOMAIN f
        /\ Len(InRing(f)) \in 0 .. Cardinality(Hosts)
    BY <2>3, InRingLists
  <2>5. InRing(f) \in Seq(Hosts)
    BY <2>1, <2>2, <2>4, SeqMonotonic
  <2>6. Placed(f, InRing(f)).at = f /\ Placed(f, InRing(f)).order = InRing(f)
    BY DEF Placed
  <2> DEFINE q == Placed(f, InRing(f))
  <2> HIDE DEF q
  <2>7. So(q)
    BY <2>3, <2>4, <2>5, <2>6, HostsFinite DEF PlacedSo, q
  <2> QED BY <2>7 DEF q
<1>3. p = Placed(given, new) \/ p = Best(scored)
  BY DEF Place
<1> HIDE DEF KeyOf, So
<1>4. ASSUME NEW x \in scored PROVE So(x[2])
  BY <1>1, <1>2
<1>5. scored # {}
  OBVIOUS
<1> HIDE DEF scored
<1>6. So(Best(scored))
  BY <1>4, <1>5, BestOne
<1> HIDE DEF p
<1>7. So(p)
  BY <1>1, <1>3, <1>6
<1> QED BY <1>7 DEF So, p

(***************************************************************************)
(* bisect: the middles are numbers.                                        *)
(***************************************************************************)
\* How long a range is.
LEMMA RangeIsNumber ==
    ASSUME NEW ps, ps \subseteq Int, NEW p \in ps
    PROVE  RangeLength(ps, p) \in Int
<1>1. CASE ps = {p}
  BY <1>1, SizeAssumption DEF RangeLength
<1>2. CASE ps # {p}
  <2> DEFINE S == {(p - q) % Size : q \in ps \ {p}}
  <2>1. S \subseteq Nat
    <3>1. ASSUME NEW q \in ps \ {p} PROVE (p - q) % Size \in Nat
      <4>1. p - q \in Int
        OBVIOUS
      <4>2. (p - q) % Size \in 0 .. Size - 1
        BY <4>1, Positioned
      <4> QED BY <4>2, SizeAssumption
    <3> QED BY <3>1
  <2>2. S # {}
    BY <1>2
  <2>3. RangeLength(ps, p) = Min(S)
    BY <1>2 DEF RangeLength
  <2> HIDE DEF S
  <2>4. Min(S) \in S
    BY <2>1, <2>2, LeastNumber
  <2>5. Min(S) \in Nat
    BY <2>1, <2>4
  <2> QED BY <2>3, <2>5
<1> QED BY <1>1, <1>2

\* Where a range is split.
LEMMA MiddlesAreNumbers ==
    ASSUME NEW ps, ps \subseteq Int
    PROVE  \A x \in Middles(ps) : x[2] \in Int
<1> DEFINE pairs == {y \in {<<RangeLength(ps, p), p>> : p \in ps} : y[1] >= 2}
<1>1. Middles(ps) = {<<x[1], (x[2] - x[1] + x[1] \div 2) % Size>> : x \in pairs}
  BY DEF Middles
<1>2. ASSUME NEW x \in pairs PROVE (x[2] - x[1] + x[1] \div 2) % Size \in Int
  <2>1. PICK p \in ps : x = <<RangeLength(ps, p), p>>
    OBVIOUS
  <2>2. x[1] \in Int /\ x[2] \in Int
    BY <2>1, RangeIsNumber
  <2> HIDE DEF pairs
  <2> DEFINE a == x[2] - x[1] + x[1] \div 2
  <2>3. a \in Int
    <3>1. x[1] \div 2 \in Int
      BY <2>2
    <3> QED BY <2>2, <3>1
  <2> HIDE DEF a
  <2>4. a % Size \in 0 .. Size - 1
    BY <2>3, Positioned
  <2>5. a % Size \in Int
    BY <2>4
  <2> QED BY <2>5 DEF a
<1> HIDE DEF pairs
<1> QED BY <1>1, <1>2

\* The ring with a node more, in the middle of a range.
LEMMA SplitIsNumbers ==
    ASSUME NEW way, NEW cur, Numbers(cur), NEW n, NEW rf
    PROVE  Numbers(Split(way, cur, n, rf))
<1> DEFINE ms == Middles(Positions(cur))
           ScoreOf(x) == Score(way, cur, n, x, rf)
           scored == {<<ScoreOf(x), x[2]>> : x \in ms}
<1>1. Positions(cur) \subseteq Int
  BY DEF Positions, Numbers
<1>2. \A x \in ms : x[2] \in Int
  BY <1>1, MiddlesAreNumbers
<1> HIDE DEF ms, ScoreOf
<1>3. CASE ms = {}
  <2>1. Split(way, cur, n, rf) = cur
    BY <1>3 DEF Split, SplitOne, ms
  <2> QED BY <2>1
<1>4. CASE ms # {}
  <2>1. Split(way, cur, n, rf) = Put(cur, n, Best(scored))
    BY <1>4 DEF Split, SplitOne, ms, ScoreOf
  <2>2. scored # {} /\ \A y \in scored : y[2] \in Int
    <3>1. PICK x \in ms : TRUE
      BY <1>4
    <3>2. <<ScoreOf(x), x[2]>> \in scored
      OBVIOUS
    <3>3. ASSUME NEW y \in scored PROVE y[2] \in Int
      <4>1. PICK z \in ms : y = <<ScoreOf(z), z[2]>>
        OBVIOUS
      <4> QED BY <1>2, <4>1
    <3> QED BY <3>2, <3>3
  <2> HIDE DEF scored
  <2>3. Best(scored) \in Int
    BY <2>2, BestOne
  <2>4. Numbers(Put(cur, n, Best(scored)))
    BY <2>3 DEF Put, Numbers
  <2> QED BY <2>1, <2>4
<1> QED BY <1>3, <1>4

Splits(way, base, new, rf, N) ==
    LET cur[i \in 0 .. N] == IF i = 0 THEN base ELSE Split(way, cur[i - 1], new[i], rf)
    IN  cur

\* The rings of bisect, a node more each, are what the recursion says.
LEMMA SplitsSo ==
    ASSUME NEW way, NEW base, NEW new, NEW rf, NEW N \in Nat
    PROVE  Splits(way, base, new, rf, N) =
             [i \in 0 .. N |-> IF i = 0 THEN base
                               ELSE Split(way, Splits(way, base, new, rf, N)[i - 1], new[i], rf)]
<1> DEFINE So(f, n) == f = [i \in 0 .. n |-> IF i = 0 THEN base ELSE Split(way, f[i - 1], new[i], rf)]
           P == {n \in 0 .. N : \E f : So(f, n)}
<1>1. 0 \in P
  <2>1. So([i \in 0 .. 0 |-> base], 0)
    OBVIOUS
  <2> HIDE DEF So
  <2> QED BY <2>1
<1>2. ASSUME NEW n \in 1 .. N, n - 1 \in P PROVE n \in P
  <2>1. PICK f : So(f, n - 1)
    BY <1>2
  <2> DEFINE g == [i \in 0 .. n |-> IF i = n THEN Split(way, f[n - 1], new[n], rf) ELSE f[i]]
  <2>2. ASSUME NEW i \in 0 .. n
        PROVE  g[i] = IF i = 0 THEN base ELSE Split(way, g[i - 1], new[i], rf)
    <3>1. CASE i = n
      BY <3>1
    <3>2. CASE i # n
      <4>1. i \in 0 .. n - 1 /\ g[i] = f[i] /\ (i # 0 => i - 1 \in 0 .. n /\ g[i - 1] = f[i - 1])
        BY <3>2
      <4>2. f[i] = IF i = 0 THEN base ELSE Split(way, f[i - 1], new[i], rf)
        BY <2>1, <4>1
      <4> QED BY <4>1, <4>2
    <3> QED BY <3>1, <3>2
  <2>3. So(g, n)
    BY <2>2
  <2> HIDE DEF So
  <2> QED BY <2>3
<1>3. N \in P
  <2> HIDE DEF P
  <2>1. 0 .. N \subseteq P
    BY <1>1, <1>2, StepInduction
  <2> QED BY <2>1
<1>4. \E f : So(f, N)
  BY <1>3
<1>5. Splits(way, base, new, rf, N) = CHOOSE f : So(f, N)
  BY DEF Splits
<1>6. So(Splits(way, base, new, rf, N), N)
  <2> HIDE DEF So
  <2> QED BY <1>4, <1>5, Zenon
<1> QED BY <1>6

\* The positions bisect finds, each of the three ways.
LEMMA BisectByIsNumbers ==
    ASSUME NEW way, NEW base, Numbers(base), NEW new, Len(new) \in Nat, NEW rf
    PROVE  Numbers(BisectBy(way, base, new, rf))
<1> DEFINE N == Len(new)
           cur == Splits(way, base, new, rf, N)
           P == {i \in 0 .. N : Numbers(cur[i])}
<1>1. cur = [i \in 0 .. N |-> IF i = 0 THEN base ELSE Split(way, cur[i - 1], new[i], rf)]
  BY SplitsSo
<1>2. BisectBy(way, base, new, rf) = Restrict(cur[N], ToSet(new) \cap DOMAIN cur[N])
  BY DEF BisectBy, Splits
<1>3. N \in Nat
  OBVIOUS
<1> HIDE DEF cur, N
<1>4. 0 \in P
  BY <1>1, <1>3
<1>5. ASSUME NEW i \in 1 .. N, i - 1 \in P PROVE i \in P
  <2>1. cur[i] = Split(way, cur[i - 1], new[i], rf) /\ Numbers(cur[i - 1])
    BY <1>1, <1>3, <1>5
  <2> QED BY <2>1, SplitIsNumbers
<1>6. Numbers(cur[N])
  <2> HIDE DEF P
  <2>1. 0 .. N \subseteq P
    BY <1>3, <1>4, <1>5, StepInduction
  <2>2. N \in P
    BY <1>3, <2>1
  <2> QED BY <2>2 DEF P
<1>7. Numbers(Restrict(cur[N], ToSet(new) \cap DOMAIN cur[N]))
  BY <1>6 DEF Numbers, Restrict
<1> QED BY <1>2, <1>7

\* bisect: the nodes of the inventory, at positions.
LEMMA PlanBisectFits ==
    ASSUME NEW base, Numbers(base), NEW new, new \in Seq(Hosts), Len(new) <= Cardinality(Hosts), NEW rf
    PROVE  PlacedSo(PlanBisect(base, new, rf))
<1> DEFINE found(way) == BisectBy(way, base, new, rf)
           placing(way) == PlaceOn(found(way), base, new, rf)
           tried == {<<way, placing(way)>> : way \in 1 .. 3}
           scored == {<<Append(BalanceKey(Overlay(base, p[2].at), rf), p[1]), p[2]>> : p \in tried}
<1>1. ASSUME NEW way \in 1 .. 3 PROVE PlacedSo(placing(way))
  <2>1. Numbers(found(way))
    BY BisectByIsNumbers
  <2> HIDE DEF found
  <2>2. Positions(found(way)) \subseteq Int
    BY <2>1 DEF Numbers, Positions
  <2>3. PlacedSo(Place(base, Positions(found(way)), new, rf, found(way)))
    BY <2>1, <2>2, PlaceFits
  <2> QED BY <2>3 DEF PlaceOn
<1>2. PlanBisect(base, new, rf) = Best(scored)
  BY DEF PlanBisect
<1> HIDE DEF placing
<1>3. ASSUME NEW p \in tried PROVE PlacedSo(p[2])
  BY <1>1
<1>4. tried # {}
  <2>1. 1 \in 1 .. 3
    OBVIOUS
  <2> QED BY <2>1
<1> HIDE DEF tried
<1> DEFINE ScoreOf(p) == Append(BalanceKey(Overlay(base, p[2].at), rf), p[1])
<1>5. scored # {} /\ \A x \in scored : PlacedSo(x[2])
  <2> HIDE DEF ScoreOf
  <2>0. scored = {<<ScoreOf(p), p[2]>> : p \in tried}
    BY DEF ScoreOf
  <2> HIDE DEF scored
  <2>1. PICK p \in tried : TRUE
    BY <1>4
  <2>2. <<ScoreOf(p), p[2]>> \in scored
    BY <2>0
  <2>3. ASSUME NEW x \in scored PROVE PlacedSo(x[2])
    <3>1. PICK q \in tried : x = <<ScoreOf(q), q[2]>>
      BY <2>0
    <3>2. x[2] = q[2]
      BY <3>1
    <3> QED BY <1>3, <3>2
  <2> QED BY <2>2, <2>3
<1> HIDE DEF scored
<1> QED BY <1>2, <1>5, BestOne

-----------------------------------------------------------------------------
(***************************************************************************)
(* balanced: the moves, and the spots left to the new nodes.               *)
(***************************************************************************)
\* The ring has room for so many nodes.
LEMMA SpacingIsNumber ==
    ASSUME NEW c \in Nat \ {0}, c <= Size
    PROVE  Size \div c \in Nat \ {0}
<1> DEFINE q == Size \div c
           m == Size % c
<1>1. q \in Int /\ m = Size - c * q /\ m \in 0 .. c - 1
  <2>1. \A x, y \in Int : y > 0 => /\ x \div y \in Int /\ x % y = x - y * (x \div y)
                                   /\ x % y \in 0 .. y - 1
    OBVIOUS
  <2> QED BY <2>1, SizeAssumption
<1> HIDE DEF q, m
<1>2. q <= 0 => c * q <= 0
  BY <1>1
<1>3. c * q \in Int
  BY <1>1
<1>4. q > 0
  BY <1>1, <1>2, <1>3, SizeAssumption
<1> QED BY <1>1, <1>4 DEF q

\* What is left of the positions once the nodes have theirs is as many as the new.
LEMMA SpotsLeft ==
    ASSUME NEW targets, targets \in Seq(Int), NEW m \in Nat, NEW to, to \in [1 .. m -> ToSet(targets)],
           \A i, j \in 1 .. Len(targets) : i < j => targets[i] < targets[j]
    PROVE  LET free == ToSet(targets) \ ToSet(to) IN
           free \subseteq Int /\ IsFiniteSet(free) /\ Cardinality(free) \in Nat
           /\ Cardinality(free) >= Len(targets) - m
<1> DEFINE all == ToSet(targets)
           used == ToSet(to)
           t == Len(targets)
<1>1. t \in Nat /\ DOMAIN targets = 1 .. t /\ \A i \in 1 .. t : targets[i] \in Int
  OBVIOUS
<1>2. IsFiniteSet(1 .. t) /\ Cardinality(1 .. t) = t
  BY <1>1, FirstNumbers
<1>3. targets \in Surjection(1 .. t, all)
  BY <1>1 DEF Surjection, ToSet
<1>4. targets \in Injection(1 .. t, all)
  <2>1. ASSUME NEW i \in 1 .. t, NEW j \in 1 .. t, targets[i] = targets[j] PROVE i = j
    <3>1. i < j \/ j < i \/ i = j
      BY <1>1
    <3>2. targets[i] \in Int
      BY <1>1
    <3> QED BY <2>1, <3>1, <3>2
  <2>2. IsInjective(targets)
    BY <1>1, <2>1 DEF IsInjective
  <2> QED BY <1>3, <2>2 DEF Injection, Surjection
<1>5. IsFiniteSet(all) /\ Cardinality(all) = t
  <2> HIDE DEF t, all
  <2> QED BY <1>2, <1>3, <1>4, FS_Surjection
<1>6. IsFiniteSet(used) /\ Cardinality(used) <= m
  <2>1. to \in Surjection(1 .. m, used)
    BY DEF Surjection, ToSet
  <2>2. IsFiniteSet(1 .. m) /\ Cardinality(1 .. m) = m
    BY FirstNumbers
  <2> HIDE DEF used
  <2> QED BY <2>1, <2>2, FS_Surjection
<1>7. all \subseteq Int
  BY ElementsFinite
<1>8. t = Len(targets)
  OBVIOUS
<1> DEFINE free == all \ used
<1> HIDE DEF all, used, t
<1>9. IsFiniteSet(free) /\ Cardinality(free) = Cardinality(all) - Cardinality(all \cap used)
  BY <1>5, FS_Difference
<1>10. IsFiniteSet(all \cap used) /\ Cardinality(all \cap used) <= Cardinality(used)
  BY <1>6, FS_Subset
<1>11. /\ Cardinality(free) \in Nat /\ Cardinality(all \cap used) \in Nat
       /\ Cardinality(used) \in Nat
  BY <1>6, <1>9, <1>10, FS_CardinalityType
<1>12. Cardinality(free) >= t - m
  BY <1>1, <1>5, <1>6, <1>9, <1>10, <1>11
<1>13. free \subseteq Int
  BY <1>7
<1> HIDE DEF free
<1> QED BY <1>8, <1>9, <1>11, <1>12, <1>13 DEF free, all, used

\* The new nodes in turn, each on a spot.
LEMMA InTurnIsNumbers ==
    ASSUME NEW spots, spots \subseteq Int, IsFiniteSet(spots), NEW D, NEW turn, turn \in Seq(D),
           Len(turn) <= Cardinality(spots)
    PROVE  Numbers(InTurn(spots, turn)) /\ DOMAIN InTurn(spots, turn) = ToSet(turn)
<1> DEFINE up == Ascending(spots)
<1>1. up \in Seq(spots) /\ Len(up) = Cardinality(spots) /\ Len(up) \in Nat
  BY AscendingLists
<1>2. InTurn(spots, turn) = Paired(turn, up)
  BY DEF InTurn
<1> HIDE DEF up
<1>3. DOMAIN Paired(turn, up) = ToSet(turn)
  BY DEF Paired
<1>4. ASSUME NEW n \in ToSet(turn) PROVE Paired(turn, up)[n] \in Int
  <2>1. PICK i \in 1 .. Len(turn) : Paired(turn, up)[n] = up[i]
    BY PairedAt
  <2>2. i \in 1 .. Len(up)
    BY <1>1
  <2>3. up[i] \in spots
    BY <1>1, <2>2, ElementOfSeq
  <2> QED BY <2>1, <2>3
<1> QED BY <1>2, <1>3, <1>4 DEF Numbers

\* balanced: the moves are of the ring's nodes, the rest of the new ones.
LEMMA BalancedFits ==
    ASSUME NEW cur, IsRing(cur), DOMAIN cur # {}, NEW new, new \in Seq(Hosts),
           Len(new) <= Cardinality(Hosts), NEW rf, NEW offset \in Int
    PROVE  LET plan == PlanBalanced(cur, new, rf, offset) IN
           /\ DOMAIN plan.moves \subseteq DOMAIN cur /\ Numbers(plan.moves)
           /\ PlacedSo(plan.new) /\ DOMAIN plan.new.at = ToSet(plan.new.order)
<1> DEFINE order == InRing(cur)
           tol == Tolerance(Cardinality(DOMAIN cur) + Len(new))
           existing == Along(cur, order)
           m == Len(order)
           count == m + Len(new)
           offsets == Offsets(existing, Size \div count, offset, tol)
           best == BestOffset(existing, offsets, count, tol)
           turn == RackOrder(new)
           moves == Movers(cur, Paired(order, best.to), tol)
           free == ToSet(best.targets) \ ToSet(best.to)
           plan == PlanBalanced(cur, new, rf, offset)
<1>1. /\ order \in Seq(DOMAIN cur) /\ ToSet(order) = DOMAIN cur
      /\ m \in Nat \ {0} /\ m <= Cardinality(Hosts)
  <2>1. /\ order \in Seq(DOMAIN cur) /\ ToSet(order) = DOMAIN cur
        /\ Len(order) \in 0 .. Cardinality(Hosts) /\ IsFiniteSet(DOMAIN cur)
    BY InRingLists
  <2> HIDE DEF order
  <2>2. Len(order) # 0
    BY <2>1 DEF ToSet
  <2> QED BY <2>1, <2>2, HostsFinite
<1>2. plan = PlanOn(best, cur, order, turn, rf, tol)
  BY DEF PlanBalanced, PlanInOrder
<1>3. plan = [moves |-> moves, new |-> Place(Overlay(moves, cur), free, turn, rf, InTurn(free, turn))]
  <2> HIDE DEF order, best, turn, tol, plan
  <2> QED BY <1>2 DEF PlanOn, Balanced
<1> HIDE DEF plan, tol
<1>4. turn \in Seq(Hosts) /\ Len(turn) = Len(new)
  <2>1. turn \in Seq(ToSet(new)) /\ Len(turn) = Len(new) /\ ToSet(new) \subseteq Hosts
    BY RackOrderFits, ElementsFinite
  <2> HIDE DEF turn
  <2> QED BY <2>1, SeqMonotonic
<1> HIDE DEF order, turn
<1>5. existing \in Seq(Int) /\ Len(existing) = m
  <2>1. \A i \in 1 .. Len(order) : cur[order[i]] \in Int
    BY <1>1 DEF IsRing
  <2> QED BY <1>1, <2>1, AlongSeq
<1>6. Len(new) \in Nat
  OBVIOUS
<1>7. count \in Nat \ {0} /\ m <= count /\ count <= Size
  BY <1>1, <1>6, HostsFinite, RoomAssumption, SizeAssumption
<1>8. count - m = Len(new)
  BY <1>1, <1>6
<1>9. m = Len(order)
  OBVIOUS
<1> HIDE DEF existing, m, count
<1>10. offsets \in Seq(Int) /\ Len(offsets) \in Nat \ {0}
  <2>1. Size \div count \in Nat \ {0}
    BY <1>7, SpacingIsNumber
  <2> QED BY <1>5, <2>1, OffsetsTried
<1> HIDE DEF offsets
<1>11. (\E o \in Int : best.targets = BalancedPositions(count, o)) /\ best.to \in [1 .. m -> ToSet(best.targets)]
  <2>1. Len(existing) \in Nat \ {0} /\ Len(existing) <= count /\ count \in Nat
    BY <1>1, <1>5, <1>7
  <2>2. /\ \E o \in Int : best.targets = BalancedPositions(count, o)
        /\ best.to \in [1 .. Len(existing) -> ToSet(best.targets)]
    BY <1>10, <2>1, BestOffsetFits
  <2> HIDE DEF best
  <2> QED BY <1>5, <2>2
<1> DEFINE targets == best.targets
           to == best.to
<1>12. /\ targets \in Seq(Int) /\ Len(targets) = count
       /\ \A i, j \in 1 .. Len(targets) : i < j => targets[i] < targets[j]
  <2>1. PICK o \in Int : targets = BalancedPositions(count, o)
    BY <1>11
  <2> HIDE DEF targets
  <2>2. /\ BalancedPositions(count, o) \in Seq(Int) /\ Len(BalancedPositions(count, o)) = count
        /\ \A i, j \in 1 .. count : i < j => BalancedPositions(count, o)[i] < BalancedPositions(count, o)[j]
    BY <1>7, PositionsApart
  <2> QED BY <2>1, <2>2
<1>13. to \in [1 .. m -> ToSet(targets)] /\ m \in Nat
  BY <1>1, <1>11
<1>14. moves = Movers(cur, Paired(order, to), tol) /\ free = ToSet(targets) \ ToSet(to)
  OBVIOUS
<1> HIDE DEF best, targets, to, moves, free
<1>15. free \subseteq Int /\ IsFiniteSet(free) /\ Len(turn) <= Cardinality(free)
  <2>1. /\ free \subseteq Int /\ IsFiniteSet(free) /\ Cardinality(free) \in Nat
        /\ Cardinality(free) >= Len(targets) - m
    BY <1>12, <1>13, <1>14, SpotsLeft
  <2> QED BY <1>4, <1>8, <1>12, <2>1
<1>16. DOMAIN moves \subseteq DOMAIN cur /\ Numbers(moves)
  <2>1. DOMAIN moves \subseteq DOMAIN cur /\ \A n \in DOMAIN moves : moves[n] = Paired(order, to)[n]
    BY <1>14 DEF Movers, Restrict
  <2>2. ASSUME NEW n \in DOMAIN cur PROVE Paired(order, to)[n] \in Int
    <3>1. PICK i \in 1 .. Len(order) : Paired(order, to)[n] = to[i]
      <4>1. DOMAIN order = 1 .. Len(order) /\ n \in ToSet(order)
        BY <1>1
      <4> QED BY <4>1, PairedAt
    <3>2. to[i] \in ToSet(targets)
      BY <1>9, <1>13
    <3>3. ToSet(targets) \subseteq Int
      BY <1>12, ElementsFinite
    <3> QED BY <3>1, <3>2, <3>3
  <2> QED BY <2>1, <2>2 DEF Numbers
<1> DEFINE given == InTurn(free, turn)
           place == Place(Overlay(moves, cur), free, turn, rf, given)
<1>17. Numbers(given) /\ DOMAIN given = ToSet(turn)
  BY <1>4, <1>15, InTurnIsNumbers
<1> HIDE DEF given
<1>18. Len(turn) <= Cardinality(Hosts)
  BY <1>4
<1>19. PlacedSo(place) /\ DOMAIN place.at = ToSet(place.order)
  BY <1>4, <1>15, <1>17, <1>18, PlaceFits
<1>20. plan.moves = moves /\ plan.new = place
  BY <1>3 DEF given
<1> HIDE DEF place
<1> QED BY <1>16, <1>19, <1>20 DEF plan

-----------------------------------------------------------------------------
(***************************************************************************)
(* The moves that even a datacenter out, or that are asked for.            *)
(***************************************************************************)
\* What a function gives on a finite set.
LEMMA ValuesFinite ==
    ASSUME NEW f, NEW S, IsFiniteSet(S)
    PROVE  /\ IsFiniteSet({f[x] : x \in S})
           /\ Cardinality({f[x] : x \in S}) \in 0 .. Cardinality(S)
<1> DEFINE T == {f[x] : x \in S}
           g == [x \in S |-> f[x]]
<1>1. g \in Surjection(S, T)
  BY DEF Surjection
<1> HIDE DEF T, g
<1>2. IsFiniteSet(T) /\ Cardinality(T) <= Cardinality(S)
  BY <1>1, FS_Surjection
<1>3. Cardinality(T) \in Nat /\ Cardinality(S) \in Nat
  BY <1>2, FS_CardinalityType
<1> QED BY <1>2, <1>3 DEF T

\* How far from the start a datacenter begins.
LEMMA OffsetIsNumber ==
    ASSUME NEW dcs, IsFiniteSet(dcs), NEW dc
    PROVE  Offset(dcs, dc) \in Nat
<1> DEFINE S == {d \in dcs : d < dc}
<1>1. IsFiniteSet(S)
  BY FS_Subset
<1> HIDE DEF S
<1>2. Cardinality(S) \in Nat
  BY <1>1, FS_CardinalityType
<1>3. Cardinality(S) * DcOffset \in Nat
  BY <1>2, NamesAssumption
<1> QED BY <1>3 DEF Offset, S

\* The moves that even a datacenter out go where no node of the others is.
LEMMA EvenMovesApart ==
    ASSUME NEW where, DOMAIN where \subseteq Hosts, NEW dc, dc \in Dcs(DOMAIN where),
           IsRing(OfDc(where, dc)), NEW known
    PROVE  MovesApart(where, dc, EvenMoves(where, OfDc(where, dc), dc, known))
<1> DEFINE cur == OfDc(where, dc)
           taken == Elsewhere(where, cur)
           offset == Offset(Dcs(DOMAIN where), dc)
           rfs == RfSet(known, dc)
           plan == PlanBalanced(cur, <<>>, Max(rfs), offset).moves
           order == InOrder(DOMAIN plan, cur)
           nudged == NudgedAlong(order, plan, taken)
           moves == Nudged(plan, cur, taken)
<1>1. DOMAIN cur = {n \in DOMAIN where : Dc[n] = dc} /\ DOMAIN cur # {}
  BY DEF OfDc, Restrict, Dcs
<1>2. IsFiniteSet(DOMAIN where) /\ IsFiniteSet(DOMAIN cur)
      /\ Cardinality(DOMAIN where) \in 0 .. Cardinality(Hosts)
  <2>1. DOMAIN cur \subseteq DOMAIN where
    BY <1>1
  <2>2. IsFiniteSet(DOMAIN where) /\ Cardinality(DOMAIN where) <= Cardinality(Hosts)
    BY HostsFinite, FS_Subset
  <2> HIDE DEF cur
  <2>3. IsFiniteSet(DOMAIN cur)
    BY <2>1, <2>2, FS_Subset
  <2> QED BY <2>2, <2>3, HostsFinite, FS_CardinalityType
<1>3. offset \in Nat
  BY <1>2, DcsFinite, OffsetIsNumber
<1>4. EvenMoves(where, cur, dc, known) = OnlyCloser(moves, cur, rfs)
  BY DEF EvenMoves, EvenDc
<1>5. IsRing(cur)
  OBVIOUS
<1>6. IsFiniteSet(taken) /\ Cardinality(taken) \in 0 .. Cardinality(Hosts)
  <2> DEFINE S == DOMAIN where \ DOMAIN cur
  <2>1. S \subseteq DOMAIN where
    OBVIOUS
  <2>2. taken = {where[n] : n \in S}
    BY DEF Elsewhere
  <2> HIDE DEF S, taken
  <2>3. IsFiniteSet(S) /\ Cardinality(S) <= Cardinality(DOMAIN where) /\ Cardinality(S) \in Nat
    BY <1>2, <2>1, FS_Subset, FS_CardinalityType
  <2>4. IsFiniteSet(taken) /\ Cardinality(taken) \in 0 .. Cardinality(S)
    BY <2>2, <2>3, ValuesFinite
  <2> QED BY <1>2, <2>3, <2>4, HostsFinite
<1>7. \A m \in DOMAIN where : Dc[m] # dc => where[m] \in taken
  BY <1>1 DEF Elsewhere
<1> HIDE DEF cur, taken, offset, rfs
<1>8. DOMAIN plan \subseteq DOMAIN cur /\ Numbers(plan)
  <2>1. <<>> \in Seq(Hosts) /\ Len(<<>>) <= Cardinality(Hosts) /\ offset \in Int
    BY <1>3, HostsFinite
  <2> QED BY <1>1, <1>5, <2>1, BalancedFits
<1> HIDE DEF plan
<1>9. IsFiniteSet(DOMAIN plan) /\ Cardinality(DOMAIN plan) \in 0 .. Cardinality(Hosts)
  <2>1. DOMAIN plan \subseteq Hosts
    BY <1>5, <1>8 DEF IsRing
  <2> QED BY <2>1, HostsFinite, FS_Subset, FS_CardinalityType
<1>10. /\ order \in Seq(DOMAIN plan) /\ Len(order) = Cardinality(DOMAIN plan)
       /\ ToSet(order) = DOMAIN plan
  <2>1. /\ order \in Seq(DOMAIN plan) /\ Len(order) = Cardinality(DOMAIN plan)
        /\ \A n \in DOMAIN plan : \E i \in 1 .. Len(order) : order[i] = n
    BY <1>5, <1>8, <1>9, InOrderLists DEF IsRing
  <2> HIDE DEF order
  <2>2. DOMAIN order = 1 .. Len(order) /\ \A i \in DOMAIN order : order[i] \in DOMAIN plan
    BY <2>1
  <2> QED BY <2>1, <2>2 DEF ToSet
<1> HIDE DEF order
<1>11. /\ nudged \in [DOMAIN plan -> 0 .. Size - 1]
       /\ \A n \in DOMAIN plan : nudged[n] \notin taken
  <2>1. \A n \in ToSet(order) : plan[n] \in Int
    BY <1>8, <1>10 DEF Numbers
  <2>2. Cardinality(taken) + Len(order) <= Size
    BY <1>6, <1>9, <1>10, HostsFinite, RoomAssumption, SizeAssumption
  <2>3. /\ nudged \in [ToSet(order) -> 0 .. Size - 1]
        /\ \A n \in ToSet(order) : nudged[n] \notin taken
    BY <1>6, <1>10, <2>1, <2>2, NudgedAlongFree
  <2> HIDE DEF nudged
  <2> QED BY <1>10, <2>3
<1>12. moves = Restrict(nudged, DOMAIN plan)
  BY DEF Nudged, order
<1> HIDE DEF moves, nudged
<1>13. MovesApart(where, dc, moves)
  <2>1. DOMAIN moves = DOMAIN plan /\ \A n \in DOMAIN moves : moves[n] = nudged[n]
    BY <1>12 DEF Restrict
  <2>2. \A n \in DOMAIN moves : moves[n] \in Int /\ moves[n] \notin taken
    BY <1>11, <2>1
  <2> QED BY <1>1, <1>7, <1>8, <2>1, <2>2 DEF MovesApart
<1>14. MovesApart(where, dc, [n \in {} |-> 0])
  BY DEF MovesApart
<1>15. MovesApart(where, dc, OnlyCloser(moves, cur, rfs))
  <2>1. OnlyCloser(moves, cur, rfs) \in {moves, [n \in {} |-> 0]}
    BY DEF OnlyCloser
  <2> QED BY <1>13, <1>14, <2>1
<1> QED BY <1>4, <1>15 DEF cur

\* So do those the operator asks for, unless they are refused.
LEMMA MovesGoApart ==
    ASSUME NEW where, DOMAIN where \subseteq Hosts, NEW dc, dc \in Dcs(DOMAIN where),
           IsRing(OfDc(where, dc)), NEW known, NEW targets, Numbers(targets),
           DOMAIN targets \subseteq DOMAIN where, ~Held(where, dc, targets)
    PROVE  MovesApart(where, dc, MovesOf(where, OfDc(where, dc), dc, targets, known))
<1>1. MovesApart(where, dc, Wanted(where, dc, targets))
  <2> DEFINE moves == Wanted(where, dc, targets)
  <2>1. /\ DOMAIN moves = {n \in DOMAIN targets : Dc[n] = dc /\ where[n] # targets[n]}
        /\ \A n \in DOMAIN moves : moves[n] = targets[n]
    BY DEF Wanted, Restrict
  <2> HIDE DEF moves
  <2>2. ASSUME NEW n \in DOMAIN moves, NEW m \in DOMAIN where, Dc[m] # dc PROVE where[m] # moves[n]
    BY <2>1, <2>2 DEF Held
  <2> QED BY <2>1, <2>2 DEF MovesApart, Numbers, moves
<1>2. MovesApart(where, dc, EvenMoves(where, OfDc(where, dc), dc, known))
  BY EvenMovesApart
<1> QED BY <1>1, <1>2 DEF MovesOf

-----------------------------------------------------------------------------
(***************************************************************************)
(* The whole plan of move_node.                                            *)
(***************************************************************************)
\* One datacenter more: its steps are free from the ring the others left.
LEMMA DcPlannedFree ==
    ASSUME NEW cur, IsRing(cur), NEW busy, NEW targets, Numbers(targets), NEW known \in BOOLEAN,
           NEW done, NEW dc, dc \notin done, dc \in Dcs(DOMAIN cur),
           NEW st, LeadsFrom(cur, st, known), LeadsFree(cur, st, done),
           st = [where |-> st.where, steps |-> st.steps, ok |-> st.ok],
           st.ok => DOMAIN targets \subseteq DOMAIN cur
    PROVE  LeadsFree(cur, PlanDc(st, dc, busy, targets, known), done \cup {dc})
<1> DEFINE next == PlanDc(st, dc, busy, targets, known)
           here == OfDc(st.where, dc)
           moves == MovesOf(st.where, here, dc, targets, known)
           order == MoveOrder(here, moves)
           rfs == RfSet(known, dc)
<1>1. LeadsFree(cur, st, done \cup {dc})
  BY DEF LeadsFree
<1>2. CASE next = st
  BY <1>1, <1>2
<1>3. CASE next = [st EXCEPT !.ok = FALSE]
  <2> HIDE DEF next
  <2>1. next = [where |-> st.where, steps |-> st.steps, ok |-> FALSE]
    BY <1>3
  <2>2. next.where = st.where /\ next.steps = st.steps
    BY <2>1
  <2>3. LeadsFree(cur, next, done \cup {dc})
    BY <1>1, <2>2 DEF LeadsFree
  <2> QED BY <2>3 DEF next
<1>4. CASE st.ok /\ ~Held(st.where, dc, targets) /\ next = MovesInOrder(st, here, moves, order, rfs)
  <2>1. DOMAIN st.where = DOMAIN cur /\ IsSequence(st.steps)
    BY DEF LeadsFrom
  <2>2. IsRing(here)
    <3>1. DOMAIN here = {n \in DOMAIN cur : Dc[n] = dc} /\ \A n \in DOMAIN here : here[n] = st.where[n]
      BY <2>1 DEF OfDc, Restrict
    <3>2. \A n \in DOMAIN here : here[n] = cur[n]
      BY <3>1 DEF LeadsFree
    <3> HIDE DEF here
    <3> QED BY <3>1, <3>2 DEF IsRing
  <2>3. MovesApart(st.where, dc, moves)
    <3>1. DOMAIN st.where \subseteq Hosts /\ dc \in Dcs(DOMAIN st.where) /\ DOMAIN targets \subseteq DOMAIN st.where
      BY <1>4, <2>1 DEF IsRing
    <3> QED BY <1>4, <2>2, <3>1, MovesGoApart
  <2>4. IsFiniteSet(DOMAIN moves)
    <3>1. DOMAIN moves \subseteq Hosts
      BY <2>1, <2>3 DEF MovesApart, IsRing
    <3> QED BY <3>1, HostsFinite, FS_Subset
  <2> HIDE DEF moves, rfs, next
  <2>5. LeadsFree(cur, next, done \cup {dc})
    BY <1>4, <2>1, <2>3, <2>4, WayOfDc
  <2> QED BY <2>5 DEF next
<1>5. next = st \/ next = [st EXCEPT !.ok = FALSE]
      \/ (st.ok /\ ~Held(st.where, dc, targets) /\ next = MovesInOrder(st, here, moves, order, rfs))
  BY DEF PlanDc, PlanIn, Moved
<1> QED BY <1>2, <1>3, <1>4, <1>5

\* Each step of the plans of datacenters in turn is free when its turn comes.
LEMMA PlansFree ==
    ASSUME NEW cur, IsRing(cur), Functional(cur), NEW busy, busy \subseteq DOMAIN cur,
           NEW targets, Numbers(targets), NEW known \in BOOLEAN,
           NEW dcs, dcs \in Seq(Dcs(DOMAIN cur)),
           \A i, j \in 1 .. Len(dcs) : dcs[i] = dcs[j] => i = j
    PROVE  LET plan == PlanDcs(cur, dcs, busy, targets, known) IN
           WayFree(cur, plan.steps) /\ \A i \in 1 .. Len(plan.steps) : plan.steps[i].to \in Int
<1> DEFINE plan == Plans(cur, dcs, busy, targets, known)
           N == Len(dcs)
           Base == [where |-> cur, steps |-> <<>>, ok |-> DOMAIN targets \subseteq DOMAIN cur]
           done(i) == {dcs[j] : j \in 1 .. i}
           Good(st) == /\ LeadsFrom(cur, st, known) /\ Spares(st, busy)
                       /\ st = [where |-> st.where, steps |-> st.steps, ok |-> st.ok]
                       /\ st.ok => DOMAIN targets \subseteq DOMAIN cur
           P == {i \in 0 .. N : Good(plan[i]) /\ LeadsFree(cur, plan[i], done(i))}
<1>a. N \in Nat /\ N = Len(dcs) /\ \A i \in 1 .. N : dcs[i] \in Dcs(DOMAIN cur)
  OBVIOUS
<1>b. IsFiniteSet(DOMAIN cur)
  BY HostsFinite, FS_Subset DEF IsRing
<1>1. plan = [i \in 0 .. N |-> IF i = 0 THEN Base
                               ELSE PlanDc(plan[i - 1], dcs[i], busy, targets, known)]
  BY <1>a, PlansSo
<1>2. PlanDcs(cur, dcs, busy, targets, known) = plan[N]
  BY DEF PlanDcs, Plans
<1> HIDE DEF plan, N
<1>3. Good(Base) /\ LeadsFree(cur, Base, done(0))
  <2>1. /\ Base.where = cur /\ Base.steps = <<>> /\ Len(Base.steps) = 0
        /\ Base.ok = (DOMAIN targets \subseteq DOMAIN cur)
    OBVIOUS
  <2>2. IsSequence(Base.steps)
    <3>1. <<>> \in Seq({})
      OBVIOUS
    <3> QED BY <3>1 DEF IsSequence
  <2>3. \E R : R[0] = cur /\ R[Len(Base.steps)] = Base.where /\ Tracks(R, Base.steps)
    <3> DEFINE R == [i \in {0} |-> cur]
    <3>1. R[0] = cur /\ R[Len(Base.steps)] = Base.where /\ Tracks(R, Base.steps)
      BY <2>1 DEF Tracks
    <3> QED BY <3>1
  <2>4. Base = [where |-> Base.where, steps |-> Base.steps, ok |-> Base.ok]
    OBVIOUS
  <2> HIDE DEF Base
  <2>5. LeadsFrom(cur, Base, known)
    BY <2>1, <2>2, <2>3 DEF LeadsFrom
  <2>6. Spares(Base, busy) /\ LeadsFree(cur, Base, done(0))
    BY <2>1 DEF Spares, LeadsFree, WayFree
  <2> QED BY <2>1, <2>4, <2>5, <2>6
<1> HIDE DEF Base
<1>4. 0 \in P
  <2>1. plan[0] = Base /\ 0 \in 0 .. N
    BY <1>a, <1>1
  <2> HIDE DEF Good, done
  <2> QED BY <1>3, <2>1
<1>5. ASSUME NEW i \in 1 .. N, i - 1 \in P PROVE i \in P
  <2> DEFINE st == plan[i - 1]
             next == PlanDc(st, dcs[i], busy, targets, known)
  <2>0. i \in 0 .. N /\ i # 0 /\ i - 1 \in 0 .. N
    BY <1>a
  <2>1. plan[i] = next /\ Good(st) /\ LeadsFree(cur, st, done(i - 1))
    BY <1>1, <1>5, <2>0
  <2>2. Good(next)
    BY <1>b, <2>1, PlanOfDc
  <2>3. dcs[i] \notin done(i - 1) /\ done(i) = done(i - 1) \cup {dcs[i]}
    <3>1. \A j \in 1 .. i - 1 : dcs[j] # dcs[i]
      BY <1>a
    <3>2. \A j : j \in 1 .. i <=> (j \in 1 .. i - 1 \/ j = i)
      BY <1>a
    <3> QED BY <3>1, <3>2
  <2>4. dcs[i] \in Dcs(DOMAIN cur)
    BY <1>a
  <2> HIDE DEF done, st
  <2>5. LeadsFree(cur, next, done(i - 1) \cup {dcs[i]})
    BY <2>1, <2>3, <2>4, DcPlannedFree
  <2> HIDE DEF Good, next
  <2> QED BY <2>0, <2>1, <2>2, <2>3, <2>5
<1>6. N \in P
  <2> HIDE DEF P
  <2>1. 0 .. N \subseteq P
    BY <1>a, <1>4, <1>5, StepInduction
  <2> QED BY <1>a, <2>1
<1>7. LeadsFree(cur, plan[N], done(N))
  <2> HIDE DEF Good, done
  <2> QED BY <1>6
<1> HIDE DEF done
<1> QED BY <1>2, <1>7 DEF LeadsFree

\* move_node: each step is free when its turn comes, from the ring planned from.
LEMMA MovePlanFree ==
    ASSUME NEW cur, IsRing(cur), Functional(cur), NEW busy, busy \subseteq DOMAIN cur,
           NEW targets, Numbers(targets), NEW known \in BOOLEAN
    PROVE  LET way == MovePlan(cur, busy, targets, known, simple).steps IN
           WayFree(cur, way) /\ \A i \in 1 .. Len(way) : way[i].to \in Int
<1> DEFINE dcs == Ascending(Dcs(DOMAIN cur))
           inner == PlanDcs(cur, dcs, busy, targets, known)
<1>1. IsFiniteSet(Dcs(DOMAIN cur)) /\ Dcs(DOMAIN cur) \subseteq Int
  <2>1. IsFiniteSet(DOMAIN cur)
    BY HostsFinite, FS_Subset DEF IsRing
  <2> QED BY <2>1, DcsFinite, NamesAssumption DEF IsRing, Dcs
<1>2. /\ dcs \in Seq(Dcs(DOMAIN cur))
      /\ \A i, j \in 1 .. Len(dcs) : dcs[i] = dcs[j] => i = j
  BY <1>1, AscendingLists
<1>3. MovePlan(cur, busy, targets, known, simple).steps = inner.steps
  BY DEF MovePlan, Planned
<1> HIDE DEF dcs
<1>4. WayFree(cur, inner.steps) /\ \A i \in 1 .. Len(inner.steps) : inner.steps[i].to \in Int
  BY <1>2, PlansFree
<1> HIDE DEF inner
<1> QED BY <1>3, <1>4

-----------------------------------------------------------------------------
(***************************************************************************)
(* The places of new nodes.                                                *)
(***************************************************************************)
\* Where new nodes are to go: no node of the ring there, nor another of them.
PlacesFree(cur, new) ==
    /\ \A n \in DOMAIN new : new[n] \in Int /\ new[n] \notin Positions(cur)
    /\ \A m, n \in DOMAIN new : new[m] = new[n] => m = n

\* The nodes of a set in the order of the inventory.
LEMMA OfLists ==
    ASSUME NEW S
    PROVE  /\ Of(S) \in Seq(Hosts) /\ Len(Of(S)) \in 0 .. Cardinality(Hosts)
           /\ \A i \in 1 .. Len(Of(S)) : Of(S)[i] \in S
           /\ \A i, j \in 1 .. Len(Of(S)) : Of(S)[i] = Of(S)[j] => i = j
<1> DEFINE T == S \cap Hosts
           at(n) == CHOOSE i \in 1 .. Len(Order) : Order[i] = n
           rank == [n \in Hosts |-> at(n)]
<1>1. ASSUME NEW n \in Hosts PROVE at(n) \in 1 .. Len(Order) /\ Order[at(n)] = n
  <2>1. DOMAIN Order = 1 .. Len(Order)
    BY OrderAssumption
  <2>2. \E i \in 1 .. Len(Order) : Order[i] = n
    BY <2>1 DEF Hosts, ToSet
  <2> QED BY <2>2
<1>2. Len(Order) \in Nat
  BY OrderAssumption
<1>3. Of(S) = InOrder(T, rank)
  BY DEF Of
<1> HIDE DEF at
<1>4. \A n \in Hosts : rank[n] = at(n)
  OBVIOUS
<1> HIDE DEF rank
<1>5. T \subseteq Hosts /\ T \subseteq S
  OBVIOUS
<1> HIDE DEF T
<1>6. IsFiniteSet(T) /\ Cardinality(T) \in 0 .. Cardinality(Hosts)
  BY <1>5, HostsFinite, FS_Subset, FS_CardinalityType
<1>7. (\A n \in T : rank[n] \in Int) /\ (\A m, n \in T : rank[m] = rank[n] => m = n)
  BY <1>1, <1>2, <1>4, <1>5
<1> DEFINE s == InOrder(T, rank)
<1>8. /\ s \in Seq(T) /\ Len(s) = Cardinality(T)
      /\ \A i, j \in 1 .. Len(s) : s[i] = s[j] => i = j
  BY <1>6, <1>7, InOrderLists
<1> HIDE DEF s
<1>9. s \in Seq(Hosts) /\ \A i \in 1 .. Len(s) : s[i] \in S
  <2>1. s \in Seq(Hosts)
    BY <1>5, <1>8, SeqMonotonic
  <2>2. ASSUME NEW i \in 1 .. Len(s) PROVE s[i] \in S
    BY <1>5, <1>8, ElementOfSeq
  <2> QED BY <2>1, <2>2
<1> QED BY <1>3, <1>6, <1>8, <1>9 DEF s

\* The positions of a ring are no more than the nodes.
LEMMA PositionsFew ==
    ASSUME NEW f, DOMAIN f \subseteq Hosts
    PROVE  IsFiniteSet(Positions(f)) /\ Cardinality(Positions(f)) \in 0 .. Cardinality(Hosts)
<1>1. IsFiniteSet(DOMAIN f) /\ Cardinality(DOMAIN f) \in 0 .. Cardinality(Hosts)
  BY HostsFinite, FS_Subset, FS_CardinalityType
<1>2. IsFiniteSet(Positions(f)) /\ Cardinality(Positions(f)) \in 0 .. Cardinality(DOMAIN f)
  <2> DEFINE S == DOMAIN f
  <2>1. Positions(f) = {f[n] : n \in S}
    BY DEF Positions
  <2>2. IsFiniteSet(S)
    BY <1>1
  <2> HIDE DEF S
  <2>3. IsFiniteSet(Positions(f)) /\ Cardinality(Positions(f)) \in 0 .. Cardinality(S)
    BY <2>1, <2>2, ValuesFinite
  <2> QED BY <2>3 DEF S
<1> QED BY <1>1, <1>2, HostsFinite

\* Those of the ring and those the inventory gives.
LEMMA BothFew ==
    ASSUME NEW f, DOMAIN f \subseteq Hosts, NEW g, DOMAIN g \subseteq Hosts
    PROVE  /\ IsFiniteSet(Positions(f) \cup Positions(g))
           /\ Cardinality(Positions(f) \cup Positions(g)) \in 0 .. 2 * Cardinality(Hosts)
<1> DEFINE A == Positions(f)
           B == Positions(g)
<1>1. /\ IsFiniteSet(A) /\ Cardinality(A) \in 0 .. Cardinality(Hosts)
      /\ IsFiniteSet(B) /\ Cardinality(B) \in 0 .. Cardinality(Hosts)
  BY PositionsFew
<1> HIDE DEF A, B
<1>2. /\ IsFiniteSet(A \cup B)
      /\ Cardinality(A \cup B) = Cardinality(A) + Cardinality(B) - Cardinality(A \cap B)
  BY <1>1, FS_Union
<1>3. IsFiniteSet(A \cap B)
  BY <1>1, FS_Intersection
<1>4. Cardinality(A \cap B) \in Nat /\ Cardinality(A \cup B) \in Nat
  BY <1>2, <1>3, FS_CardinalityType
<1> QED BY <1>1, <1>2, <1>4, HostsFinite DEF A, B

\* The nodes of one datacenter of a ring are a ring.
LEMMA RingOfDc ==
    ASSUME NEW cur, IsRing(cur), NEW dc
    PROVE  /\ IsRing(OfDc(cur, dc)) /\ Positions(OfDc(cur, dc)) \subseteq Positions(cur)
           /\ OfDc(cur, dc) # <<>> => DOMAIN OfDc(cur, dc) # {}
<1> DEFINE here == OfDc(cur, dc)
           S == {n \in DOMAIN cur : Dc[n] = dc}
<1>1. here = [n \in S |-> cur[n]]
  BY DEF OfDc, Restrict
<1>2. S \subseteq DOMAIN cur
  OBVIOUS
<1> HIDE DEF here, S
<1>3. DOMAIN here = S /\ \A n \in S : here[n] = cur[n]
  BY <1>1
<1>4. IsRing(here)
  BY <1>2, <1>3 DEF IsRing
<1>5. Positions(here) \subseteq Positions(cur)
  BY <1>2, <1>3 DEF Positions
<1>6. S = {} => here = <<>>
  BY <1>1
<1> QED BY <1>3, <1>4, <1>5, <1>6 DEF here

\* A plan that is accepted gives the new nodes places of their own.
LEMMA OfferedFree ==
    ASSUME NEW cur, NEW base, NEW given, PlacesFree(cur, given), NEW places, PlacedSo(places),
           NEW taken, IsFiniteSet(taken), Cardinality(taken) \in 0 .. 2 * Cardinality(Hosts),
           Positions(cur) \subseteq taken, Offered(base, given, places, taken).ok
    PROVE  PlacesFree(cur, Offered(base, given, places, taken).new)
<1> DEFINE nudged == NudgedAlong(places.order, places.at, taken)
           new == Overlay(given, nudged)
<1>1. DOMAIN places.at = ToSet(places.order)
  BY DEF Offered, Refused
<1>2. Offered(base, given, places, taken) = Checked(base, new)
  BY <1>1 DEF Offered
<1>3. /\ nudged \in [ToSet(places.order) -> 0 .. Size - 1]
      /\ \A n \in ToSet(places.order) : nudged[n] \notin taken
  <2>1. places.order \in Seq(Hosts) /\ \A n \in ToSet(places.order) : places.at[n] \in Int
    BY <1>1 DEF PlacedSo, Numbers
  <2>2. Cardinality(taken) + Len(places.order) <= Size
    BY <2>1, HostsFinite, RoomAssumption, SizeAssumption DEF PlacedSo
  <2> QED BY <2>1, <2>2, NudgedAlongFree
<1> HIDE DEF nudged
<1>4. /\ DOMAIN new = DOMAIN given \cup DOMAIN nudged
      /\ \A n \in DOMAIN given : new[n] = given[n]
      /\ \A n \in DOMAIN nudged \ DOMAIN given : new[n] = nudged[n]
  BY DEF Overlay
<1> HIDE DEF new
<1>5. IsInjective(Overlay(new, base)) /\ Checked(base, new).new = new
  BY <1>2 DEF Checked
<1>6. \A n \in DOMAIN new : new[n] \in Int /\ new[n] \notin Positions(cur)
  <2>1. DOMAIN nudged = ToSet(places.order) /\ \A n \in DOMAIN nudged : nudged[n] \in Int /\ nudged[n] \notin taken
    BY <1>3, SizeAssumption
  <2> QED BY <1>4, <2>1 DEF PlacesFree
<1>7. \A m, n \in DOMAIN new : new[m] = new[n] => m = n
  <2> DEFINE all == Overlay(new, base)
  <2>1. DOMAIN new \subseteq DOMAIN all /\ \A n \in DOMAIN new : all[n] = new[n]
    BY DEF Overlay
  <2> HIDE DEF all
  <2>2. IsInjective(all)
    BY <1>5 DEF all
  <2> QED BY <2>1, <2>2 DEF IsInjective
<1> QED BY <1>2, <1>5, <1>6, <1>7 DEF PlacesFree

\* Nodes spaced evenly, from some offset.
LEMMA SpacedNumbers ==
    ASSUME NEW turn, turn \in Seq(Hosts), turn # <<>>, NEW offset \in Int
    PROVE  Numbers(Paired(turn, BalancedPositions(Len(turn), offset)))
<1> DEFINE spots == BalancedPositions(Len(turn), offset)
<1>1. Len(turn) \in Nat \ {0} /\ DOMAIN turn = 1 .. Len(turn)
  OBVIOUS
<1>2. spots \in Seq(Int) /\ Len(spots) = Len(turn)
  BY <1>1, PositionsApart
<1> HIDE DEF spots
<1>3. ASSUME NEW n \in ToSet(turn) PROVE Paired(turn, spots)[n] \in Int
  <2>1. PICK i \in 1 .. Len(turn) : Paired(turn, spots)[n] = spots[i]
    BY <1>1, PairedAt
  <2> QED BY <1>2, <2>1, ElementOfSeq
<1>4. DOMAIN Paired(turn, spots) = ToSet(turn)
  BY DEF Paired
<1> QED BY <1>3, <1>4 DEF Numbers, spots

-----------------------------------------------------------------------------
(***************************************************************************)
(* The plans of add_node.                                                  *)
(***************************************************************************)
\* The racks in turn, of the nodes that have no token yet.
LEMMA TurnFits ==
    ASSUME NEW free, free \in Seq(Hosts)
    PROVE  /\ RackOrder(free) \in Seq(Hosts) /\ Len(RackOrder(free)) = Len(free)
           /\ free # <<>> => RackOrder(free) # <<>>
<1> DEFINE turn == RackOrder(free)
<1>1. turn \in Seq(ToSet(free)) /\ Len(turn) = Len(free) /\ ToSet(free) \subseteq Hosts
  BY RackOrderFits, ElementsFinite
<1> HIDE DEF turn
<1>2. turn \in Seq(Hosts)
  BY <1>1, SeqMonotonic
<1>3. free # <<>> => turn # <<>>
  BY <1>1
<1> QED BY <1>1, <1>2, <1>3 DEF turn

\* A datacenter with no node yet.
LEMMA FreshFree ==
    ASSUME NEW cur, IsRing(cur), NEW turn, turn \in Seq(Hosts), turn # <<>>,
           Len(turn) <= Cardinality(Hosts), NEW offsets, offsets \subseteq Nat,
           Fresh(turn, offsets, Positions(cur)).ok
    PROVE  PlacesFree(cur, Fresh(turn, offsets, Positions(cur)).new)
<1> DEFINE taken == Positions(cur)
           places == Placed(Paired(turn, BalancedPositions(Len(turn), Min(offsets))), turn)
<1>1. offsets # {}
  BY DEF Fresh, Refused
<1>2. Fresh(turn, offsets, taken) = Offered(<<>>, <<>>, places, taken)
  BY <1>1 DEF Fresh
<1>3. Min(offsets) \in Int
  <2>1. Min(offsets) \in offsets
    BY <1>1, LeastNumber
  <2>2. Min(offsets) \in Nat
    BY <2>1
  <2> QED BY <2>2
<1>4. PlacedSo(places)
  <2>1. Numbers(Paired(turn, BalancedPositions(Len(turn), Min(offsets))))
    BY <1>3, SpacedNumbers
  <2> QED BY <2>1 DEF PlacedSo, Placed
<1>5. PlacesFree(cur, <<>>)
  BY DEF PlacesFree
<1>6. IsFiniteSet(taken) /\ Cardinality(taken) \in 0 .. 2 * Cardinality(Hosts)
  BY PositionsFew, HostsFinite DEF IsRing
<1> HIDE DEF places
<1> QED BY <1>2, <1>4, <1>5, <1>6, OfferedFree

\* What a bisect plan gives beside the tokens of the inventory.
LEMMA BisectOffered ==
    ASSUME NEW cur, IsRing(cur), NEW base, Numbers(base), NEW under,
           NEW given, PlacesFree(cur, given), DOMAIN given \subseteq Hosts,
           NEW free, free \in Seq(Hosts), Len(free) <= Cardinality(Hosts), NEW rf,
           Offered(under, given, PlanBisect(base, RackOrder(free), rf), Positions(cur) \cup Positions(given)).ok
    PROVE  PlacesFree(cur, Offered(under, given, PlanBisect(base, RackOrder(free), rf),
                                   Positions(cur) \cup Positions(given)).new)
<1> DEFINE taken == Positions(cur) \cup Positions(given)
           places == PlanBisect(base, RackOrder(free), rf)
<1>1. RackOrder(free) \in Seq(Hosts) /\ Len(RackOrder(free)) <= Cardinality(Hosts)
  BY TurnFits
<1>2. PlacedSo(places)
  BY <1>1, PlanBisectFits
<1>3. IsFiniteSet(taken) /\ Cardinality(taken) \in 0 .. 2 * Cardinality(Hosts)
  BY BothFew DEF IsRing
<1>4. Positions(cur) \subseteq taken
  OBVIOUS
<1> HIDE DEF taken, places
<1>5. Offered(under, given, places, taken).ok => PlacesFree(cur, Offered(under, given, places, taken).new)
  BY <1>2, <1>3, <1>4, OfferedFree
<1> QED BY <1>5 DEF taken, places

\* A datacenter with no node yet, some of the new ones with a token or none.
LEMMA NewDcFree ==
    ASSUME NEW cur, IsRing(cur), NEW dc, NEW given, PlacesFree(cur, given), DOMAIN given \subseteq Hosts,
           NEW free, free \in Seq(Hosts), free # <<>>, Len(free) <= Cardinality(Hosts), NEW known,
           NewDcPlan(cur, dc, given, free, known).ok
    PROVE  PlacesFree(cur, NewDcPlan(cur, dc, given, free, known).new)
<1>1. CASE given = <<>>
  <2> DEFINE own == Offset(Dcs(DOMAIN cur) \cup {dc}, dc)
             offsets == FreeOffsets(own, Len(free), Positions(cur))
             turn == RackOrder(free)
  <2>1. own \in Nat
    <3>1. IsFiniteSet(Dcs(DOMAIN cur))
      <4>1. IsFiniteSet(DOMAIN cur)
        BY HostsFinite, FS_Subset DEF IsRing
      <4> QED BY <4>1, DcsFinite
    <3> DEFINE dcs == Dcs(DOMAIN cur) \cup {dc}
    <3>2. IsFiniteSet(dcs)
      BY <3>1, FS_AddElement
    <3> HIDE DEF dcs
    <3>3. Offset(dcs, dc) \in Nat
      BY <3>2, OffsetIsNumber
    <3> QED BY <3>3 DEF dcs
  <2>2. Size \div Len(free) \in Nat \ {0}
    <3>1. Len(free) \in Nat \ {0}
      OBVIOUS
    <3>2. Len(free) <= Size
      BY <3>1, HostsFinite, RoomAssumption, SizeAssumption
    <3> QED BY <3>1, <3>2, SpacingIsNumber
  <2>3. NewDcPlan(cur, dc, given, free, known) = Fresh(turn, offsets, Positions(cur))
    BY <1>1 DEF NewDcPlan
  <2>4. offsets \subseteq Nat
    <3> DEFINE spacing == Size \div Len(free)
    <3>1. offsets \subseteq own .. spacing - 1
      BY DEF FreeOffsets
    <3> HIDE DEF own, spacing, offsets
    <3> QED BY <2>1, <2>2, <3>1 DEF spacing
  <2>5. turn \in Seq(Hosts) /\ turn # <<>> /\ Len(turn) <= Cardinality(Hosts)
    BY TurnFits
  <2> HIDE DEF offsets, turn, own
  <2> QED BY <2>3, <2>4, <2>5, FreshFree
<1>2. CASE given # <<>>
  <2> DEFINE rf == Max(RfSet(known, dc))
  <2>1. NewDcPlan(cur, dc, given, free, known)
          = Offered(<<>>, given, PlanBisect(given, RackOrder(free), rf), Positions(cur) \cup Positions(given))
    BY <1>2 DEF NewDcPlan
  <2>2. Numbers(given)
    BY DEF PlacesFree, Numbers
  <2> HIDE DEF rf
  <2> QED BY <2>1, <2>2, BisectOffered
<1> QED BY <1>1, <1>2

\* bisect: the new nodes in the middle of ranges.
LEMMA BisectFree ==
    ASSUME NEW cur, IsRing(cur), NEW dc, NEW given, PlacesFree(cur, given), DOMAIN given \subseteq Hosts,
           NEW free, free \in Seq(Hosts), Len(free) <= Cardinality(Hosts), NEW known,
           BisectPlan(cur, OfDc(cur, dc), dc, given, free, known).ok
    PROVE  PlacesFree(cur, BisectPlan(cur, OfDc(cur, dc), dc, given, free, known).new)
<1> DEFINE here == OfDc(cur, dc)
           base == Overlay(here, given)
           rf == Max(RfSet(known, dc))
<1>1. BisectPlan(cur, here, dc, given, free, known)
        = Offered(here, given, PlanBisect(base, RackOrder(free), rf), Positions(cur) \cup Positions(given))
  BY DEF BisectPlan
<1>2. Numbers(base)
  <2>1. Numbers(here)
    BY RingOfDc DEF IsRing, Numbers
  <2>2. Numbers(given)
    BY DEF PlacesFree, Numbers
  <2> HIDE DEF here
  <2> QED BY <2>1, <2>2, NumbersOver
<1> HIDE DEF rf, base
<1> QED BY <1>1, <1>2, BisectOffered

\* balanced: the new nodes at their places in the even ring.
LEMMA BalancedFree ==
    ASSUME NEW cur, IsRing(cur), NEW dc, OfDc(cur, dc) # <<>>, NEW given,
           NEW free, free \in Seq(Hosts), Len(free) <= Cardinality(Hosts), NEW known,
           BalancedPlan(cur, OfDc(cur, dc), dc, given, free, known).ok
    PROVE  PlacesFree(cur, BalancedPlan(cur, OfDc(cur, dc), dc, given, free, known).new)
<1> DEFINE here == OfDc(cur, dc)
           offset == Offset(Dcs(DOMAIN cur), dc)
           rf == Max(RfSet(known, dc))
           plan == PlanBalanced(here, free, rf, offset)
           others == Positions(cur) \ Positions(here)
           order == InOrder(DOMAIN plan.moves, here) \o plan.new.order
           at == Overlay(plan.moves, plan.new.at)
           nudged == NudgedAlong(order, at, others)
           new == DOMAIN plan.new.at
<1>1. BalancedPlan(cur, here, dc, given, free, known) = KeepNew(nudged, new, here)
  BY DEF BalancedPlan, BalancedInto, Refused
<1>2. IsRing(here) /\ Positions(here) \subseteq Positions(cur) /\ DOMAIN here # {}
  BY RingOfDc
<1>3. offset \in Int
  <2>1. IsFiniteSet(DOMAIN cur)
    BY HostsFinite, FS_Subset DEF IsRing
  <2>2. IsFiniteSet(Dcs(DOMAIN cur))
    BY <2>1, DcsFinite
  <2>3. offset \in Nat
    BY <2>2, OffsetIsNumber
  <2> HIDE DEF offset
  <2> QED BY <2>3
<1>4. others \subseteq Positions(cur)
  OBVIOUS
<1>5. \A p \in Positions(cur) : p \in others \/ p \in Positions(here)
  OBVIOUS
<1> HIDE DEF offset, rf, others
<1>6. /\ DOMAIN plan.moves \subseteq DOMAIN here /\ Numbers(plan.moves)
      /\ PlacedSo(plan.new) /\ new = ToSet(plan.new.order)
  <2> HIDE DEF here
  <2> QED BY <1>2, <1>3, BalancedFits
<1> HIDE DEF here
<1> DEFINE moves == plan.moves
           places == plan.new
           first == InOrder(DOMAIN moves, here)
<1>7. order = first \o places.order /\ at = Overlay(moves, places.at) /\ new = DOMAIN places.at
  OBVIOUS
<1>8. DOMAIN moves \subseteq DOMAIN here /\ Numbers(moves) /\ PlacedSo(places) /\ new = ToSet(places.order)
  BY <1>6
<1> HIDE DEF plan, moves, places
<1>9. Numbers(at) /\ DOMAIN at = DOMAIN moves \cup new
  <2>1. Numbers(places.at)
    BY <1>8 DEF PlacedSo
  <2>2. Numbers(Overlay(moves, places.at))
    BY <1>8, <2>1, NumbersOver
  <2>3. DOMAIN Overlay(moves, places.at) = DOMAIN moves \cup new
    BY <1>7 DEF Overlay
  <2> QED BY <1>7, <2>2, <2>3
<1> HIDE DEF at
<1>10. /\ first \in Seq(DOMAIN moves) /\ Len(first) \in 0 .. Cardinality(Hosts)
  <2>1. IsFiniteSet(DOMAIN moves) /\ Cardinality(DOMAIN moves) \in 0 .. Cardinality(Hosts)
    <3>1. DOMAIN moves \subseteq Hosts
      BY <1>2, <1>8 DEF IsRing
    <3> QED BY <3>1, HostsFinite, FS_Subset, FS_CardinalityType
  <2>2. /\ \A n \in DOMAIN moves : here[n] \in Int
        /\ \A m, n \in DOMAIN moves : here[m] = here[n] => m = n
    BY <1>2, <1>8 DEF IsRing
  <2>3. first \in Seq(DOMAIN moves) /\ Len(first) = Cardinality(DOMAIN moves)
    BY <2>1, <2>2, InOrderLists
  <2> QED BY <2>1, <2>3
<1> HIDE DEF first, new
<1>11. /\ places.order \in Seq(new) /\ Len(places.order) \in 0 .. Cardinality(Hosts)
  <2>1. places.order \in Seq(Hosts) /\ Len(places.order) <= Cardinality(Hosts)
    BY <1>8 DEF PlacedSo
  <2> DEFINE o == places.order
  <2>2. o = [i \in 1 .. Len(o) |-> o[i]] /\ Len(o) \in Nat /\ DOMAIN o = 1 .. Len(o)
    BY <2>1
  <2>3. \A i \in 1 .. Len(o) : o[i] \in new
    BY <1>8, <2>2 DEF ToSet
  <2> HIDE DEF o
  <2>4. o \in Seq(new)
    BY <2>2, <2>3
  <2>5. o = places.order
    BY DEF o
  <2> QED BY <2>1, <2>2, <2>4, <2>5, HostsFinite
<1>12. /\ order \in Seq(DOMAIN at) /\ Len(order) \in 0 .. 2 * Cardinality(Hosts)
       /\ new \subseteq ToSet(order)
  <2> DEFINE o == places.order
  <2>0. order = first \o o /\ o = places.order
    BY <1>7
  <2> HIDE DEF o, order
  <2>1. first \in Seq(DOMAIN at) /\ o \in Seq(DOMAIN at)
    <3>1. DOMAIN moves \subseteq DOMAIN at /\ new \subseteq DOMAIN at
      BY <1>9
    <3> QED BY <1>10, <1>11, <2>0, <3>1, SeqMonotonic
  <2>2. /\ order \in Seq(DOMAIN at) /\ Len(order) = Len(first) + Len(o)
        /\ \A i \in 1 .. Len(o) : order[Len(first) + i] = o[i]
    BY <2>0, <2>1
  <2>3. ASSUME NEW n \in new PROVE n \in ToSet(order)
    <3>1. DOMAIN o = 1 .. Len(o) /\ DOMAIN order = 1 .. Len(order)
      BY <2>1, <2>2
    <3>2. PICK i \in 1 .. Len(o) : o[i] = n
      BY <1>8, <2>0, <3>1 DEF ToSet
    <3>3. Len(first) + i \in DOMAIN order /\ order[Len(first) + i] = n
      BY <1>10, <2>1, <2>2, <3>1, <3>2
    <3> QED BY <3>3 DEF ToSet
  <2> QED BY <1>10, <1>11, <2>0, <2>2, <2>3, HostsFinite
<1> HIDE DEF order
<1>13. /\ nudged \in [ToSet(order) -> 0 .. Size - 1]
       /\ \A n \in ToSet(order) : nudged[n] \notin others
  <2>1. \A n \in ToSet(order) : at[n] \in Int
    <3>1. ToSet(order) \subseteq DOMAIN at
      BY <1>12, ElementsFinite
    <3> QED BY <1>9, <3>1 DEF Numbers
  <2>2. IsFiniteSet(others) /\ Cardinality(others) \in 0 .. Cardinality(Hosts)
    <3>1. IsFiniteSet(Positions(cur)) /\ Cardinality(Positions(cur)) \in 0 .. Cardinality(Hosts)
      BY PositionsFew DEF IsRing
    <3>2. IsFiniteSet(others) /\ Cardinality(others) <= Cardinality(Positions(cur))
      BY <1>4, <3>1, FS_Subset
    <3>3. Cardinality(others) \in Nat
      BY <3>2, FS_CardinalityType
    <3> QED BY <3>1, <3>2, <3>3, HostsFinite
  <2>3. Cardinality(others) + Len(order) <= Size
    BY <1>12, <2>2, HostsFinite, RoomAssumption, SizeAssumption
  <2> QED BY <1>12, <2>1, <2>2, <2>3, NudgedAlongFree
<1> HIDE DEF nudged
<1> DEFINE kept == Restrict(nudged, new)
<1>14. BalancedPlan(cur, here, dc, given, free, known).ok
  BY DEF here
<1>15. /\ IsInjective(Overlay(nudged, here)) /\ \A n \in new : nudged[n] \notin Positions(here)
       /\ BalancedPlan(cur, here, dc, given, free, known).new = kept
  <2> DEFINE fits == IsInjective(Overlay(nudged, here)) /\ \A n \in new : nudged[n] \notin Positions(here)
  <2>1. BalancedPlan(cur, here, dc, given, free, known) = [ok |-> fits, new |-> kept]
    BY <1>1 DEF KeepNew
  <2> HIDE DEF fits, kept
  <2>2. fits
    BY <1>14, <2>1
  <2> QED BY <2>1, <2>2 DEF fits
<1>16. /\ DOMAIN kept = new /\ new \subseteq DOMAIN nudged
       /\ \A n \in new : kept[n] = nudged[n] /\ nudged[n] \in Int /\ nudged[n] \notin others
  <2>1. DOMAIN kept = new /\ \A n \in new : kept[n] = nudged[n]
    BY DEF Restrict
  <2> QED BY <1>12, <1>13, <2>1, SizeAssumption
<1> HIDE DEF kept
<1>17. \A n \in DOMAIN kept : kept[n] \in Int /\ kept[n] \notin Positions(cur)
  BY <1>5, <1>15, <1>16
<1>18. \A m, n \in DOMAIN kept : kept[m] = kept[n] => m = n
  <2> DEFINE all == Overlay(nudged, here)
  <2>1. DOMAIN nudged \subseteq DOMAIN all /\ \A n \in DOMAIN nudged : all[n] = nudged[n]
    BY DEF Overlay
  <2>2. IsInjective(all)
    BY <1>15
  <2> HIDE DEF all
  <2> QED BY <1>16, <2>1, <2>2 DEF IsInjective
<1>19. PlacesFree(cur, kept)
  BY <1>17, <1>18 DEF PlacesFree
<1> QED BY <1>15, <1>19 DEF here

-----------------------------------------------------------------------------
(***************************************************************************)
(* The plans of add_node and of create_cluster, whatever their kind.       *)
(***************************************************************************)
\* The plan of add_node gives free tokens, whatever its kind.
LEMMA AddPlanFree ==
    ASSUME NEW kind, NEW cur, IsRing(cur), NEW dc, NEW given, DOMAIN given \subseteq Hosts, Numbers(given),
           NEW free, free \in Seq(Hosts), Len(free) <= Cardinality(Hosts), NEW known,
           AddPlan(kind, cur, dc, given, free, known).ok
    PROVE  PlacesFree(cur, AddPlan(kind, cur, dc, given, free, known).new)
<1> DEFINE plan == AddPlan(kind, cur, dc, given, free, known)
           here == OfDc(cur, dc)
<1>1. ~GivenTaken(cur, given)
  BY DEF AddPlan, Refused
<1>2. PlacesFree(cur, given)
  <2>1. Positions(given) \cap Positions(cur) = {} /\ IsInjective(given)
    BY <1>1 DEF GivenTaken
  <2>2. \A n \in DOMAIN given : given[n] \in Positions(given)
    BY DEF Positions
  <2> QED BY <2>1, <2>2 DEF PlacesFree, IsInjective, Numbers
<1>3. CASE free = <<>> /\ (here = <<>> \/ kind = "bisect")
  <2>1. plan = [ok |-> TRUE, new |-> given]
    BY <1>1, <1>3 DEF AddPlan, Accepted
  <2> QED BY <1>2, <2>1
<1>4. CASE free # <<>> /\ here = <<>>
  <2>1. plan = NewDcPlan(cur, dc, given, free, known)
    BY <1>1, <1>4 DEF AddPlan
  <2> QED BY <1>2, <1>4, <2>1, NewDcFree
<1>5. CASE free # <<>> /\ here # <<>> /\ kind = "bisect"
  <2>1. plan = BisectPlan(cur, here, dc, given, free, known)
    BY <1>1, <1>5 DEF AddPlan
  <2> QED BY <1>2, <2>1, BisectFree
<1>6. CASE here # <<>> /\ kind # "bisect"
  <2>1. plan = BalancedPlan(cur, here, dc, given, free, known)
    BY <1>1, <1>6 DEF AddPlan
  <2> QED BY <1>6, <2>1, BalancedFree
<1> QED BY <1>3, <1>4, <1>5, <1>6

\* What a datacenter's nodes are given are numbers.
LEMMA DcTokensNumbers ==
    ASSUME NEW nodes, nodes \subseteq Hosts, NEW given, Numbers(given), NEW dc
    PROVE  Numbers(DcTokens(nodes, dc, given))
<1> DEFINE here == OfDc(given, dc)
           free == Of({n \in nodes \ DOMAIN given : Dc[n] = dc})
           turn == RackOrder(free)
           offset == Offset(Dcs(nodes), dc)
<1>1. DcTokens(nodes, dc, given) = DcPlan(here, turn, offset)
  BY DEF DcTokens
<1>2. Numbers(here)
  BY DEF OfDc, Restrict, Numbers
<1>3. free \in Seq(Hosts) /\ Len(free) \in 0 .. Cardinality(Hosts)
  <2> DEFINE S == {n \in nodes \ DOMAIN given : Dc[n] = dc}
  <2> HIDE DEF S
  <2>1. Of(S) \in Seq(Hosts) /\ Len(Of(S)) \in 0 .. Cardinality(Hosts)
    BY OfLists
  <2> QED BY <2>1 DEF S
<1> HIDE DEF free
<1>4. turn \in Seq(Hosts) /\ Len(turn) <= Cardinality(Hosts)
  BY <1>3, HostsFinite, TurnFits
<1>5. offset \in Int
  <2> DEFINE dcs == Dcs(nodes)
  <2>1. IsFiniteSet(nodes)
    BY HostsFinite, FS_Subset
  <2>2. IsFiniteSet(dcs)
    BY <2>1, DcsFinite
  <2> HIDE DEF dcs
  <2>3. Offset(dcs, dc) \in Nat
    BY <2>2, OffsetIsNumber
  <2> QED BY <2>3 DEF dcs
<1> HIDE DEF here, turn, offset
<1>6. CASE turn = <<>>
  BY <1>1, <1>2, <1>6 DEF DcPlan
<1>7. CASE turn # <<>> /\ here = <<>>
  BY <1>1, <1>4, <1>5, <1>7, SpacedNumbers DEF DcPlan
<1>8. CASE turn # <<>> /\ here # <<>>
  <2>1. PlacedSo(PlanBisect(here, turn, DefaultRf))
    BY <1>2, <1>4, PlanBisectFits
  <2>2. Numbers(PlanBisect(here, turn, DefaultRf).at)
    BY <2>1 DEF PlacedSo
  <2>3. Numbers(Overlay(here, PlanBisect(here, turn, DefaultRf).at))
    BY <1>2, <2>2, NumbersOver
  <2> QED BY <1>1, <1>8, <2>3 DEF DcPlan
<1> QED BY <1>6, <1>7, <1>8

\* The plan of create_cluster gives free tokens.
LEMMA AssignPlanFree ==
    ASSUME NEW nodes, nodes \subseteq Hosts, NEW given, Numbers(given), NEW cur,
           NEW allowPartial, AssignPlan(nodes, given, cur, allowPartial).ok
    PROVE  PlacesFree(cur, AssignPlan(nodes, given, cur, allowPartial).new)
<1> DEFINE planned == TokensOf(nodes, given)
           new == Restrict(planned, DOMAIN planned \ DOMAIN cur)
<1>1. CASE nodes \subseteq DOMAIN cur
  BY <1>1 DEF AssignPlan, Accepted, PlacesFree
<1>2. CASE ~(nodes \subseteq DOMAIN cur)
  <2>1. /\ DOMAIN cur \subseteq nodes /\ AssignPlan(nodes, given, cur, allowPartial) = Assigned(nodes, planned, cur)
    BY <1>2 DEF AssignPlan, Refused
  <2>2. Numbers(planned)
    <3> DEFINE plan == [dc \in Dcs(nodes) |-> DcTokens(nodes, dc, given)]
               here == {m \in nodes : m \in DOMAIN plan[Dc[m]]}
    <3>1. planned = [n \in here |-> plan[Dc[n]][n]]
      BY DEF TokensOf
    <3>2. ASSUME NEW n \in here PROVE plan[Dc[n]][n] \in Int
      <4>1. n \in nodes /\ n \in DOMAIN plan[Dc[n]]
        OBVIOUS
      <4>2. Dc[n] \in Dcs(nodes)
        BY <4>1 DEF Dcs
      <4>3. plan[Dc[n]] = DcTokens(nodes, Dc[n], given)
        BY <4>2
      <4> HIDE DEF plan
      <4>4. Numbers(plan[Dc[n]])
        BY <4>3, DcTokensNumbers
      <4> QED BY <4>1, <4>4 DEF Numbers
    <3> HIDE DEF plan, here
    <3> QED BY <3>1, <3>2 DEF Numbers
  <2> HIDE DEF planned
  <2>3. /\ DOMAIN planned = nodes /\ \A n \in DOMAIN cur : planned[n] = cur[n]
    BY <2>1 DEF Assigned, Refused
  <2>4. Assigned(nodes, planned, cur) = [ok |-> IsInjective(planned), new |-> new]
    BY <2>3 DEF Assigned
  <2>5. IsInjective(planned)
    BY <2>1, <2>4
  <2>6. DOMAIN new = nodes \ DOMAIN cur /\ \A n \in DOMAIN new : new[n] = planned[n]
    BY <2>3 DEF Restrict
  <2> HIDE DEF new
  <2>7. \A n \in DOMAIN new : new[n] \in Int
    BY <2>2, <2>3, <2>6 DEF Numbers
  <2>8. ASSUME NEW n \in DOMAIN new PROVE new[n] \notin Positions(cur)
    <3>1. SUFFICES ASSUME NEW m \in DOMAIN cur, cur[m] = new[n] PROVE FALSE
      BY DEF Positions
    <3>2. m \in nodes /\ n \in nodes /\ n \notin DOMAIN cur /\ planned[m] = planned[n]
      BY <2>1, <2>3, <2>6, <3>1
    <3> QED BY <2>3, <2>5, <3>1, <3>2 DEF IsInjective
  <2>9. \A m, n \in DOMAIN new : new[m] = new[n] => m = n
    BY <2>3, <2>5, <2>6 DEF IsInjective
  <2>10. PlacesFree(cur, new)
    BY <2>7, <2>8, <2>9 DEF PlacesFree
  <2> QED BY <2>1, <2>4, <2>10
<1> QED BY <1>1, <1>2

-----------------------------------------------------------------------------
(***************************************************************************)
(* The tokens left to give and to move to are free: the invariant.         *)
(***************************************************************************)
MovingFree == \A n \in DOMAIN moving : moving[n].to \in Int /\ moving[n].to \notin Positions(ring)

StepsTyped ==
    pc \in {"start", "record", "moves", "follow"} =>
        IsSequence(steps) /\ \A i \in 1 .. Len(steps) : steps[i].to \in Int /\ steps[i].name \in Hosts

\* The nodes left to start: each at a place of its own.
StartFree ==
    pc = "start" /\ run.calm =>
        /\ DOMAIN moving = {}
        /\ \A j \in 1 .. Len(steps) :
              /\ steps[j].to \notin Positions(ring)
              /\ \A i \in 1 .. j - 1 : steps[i].to # steps[j].to

\* The moves left are free in turn, from the ring as it is,
MovesFree == pc \in {"record", "moves"} /\ run.calm => DOMAIN moving = {} /\ WayFree(ring, steps)

\* or as the one under way leaves it, the only node that moves.
FollowFree ==
    pc = "follow" /\ run.calm =>
        /\ \A n \in DOMAIN moving : n = Head(steps).name /\ moving[n].to = Head(steps).to
        /\ WayFree([ring EXCEPT ![Head(steps).name] = Head(steps).to], Tail(steps))

FreeInv == IsRing(ring) /\ MovingFree /\ StepsTyped /\ StartFree /\ MovesFree /\ FollowFree

\* Before any run.
LEMMA FreeInit == Init => FreeInv
<1> SUFFICES ASSUME Init PROVE FreeInv
  OBVIOUS
<1>1. IsRing(ring)
  <2>1. DOMAIN ring \subseteq Hosts /\ ring \in [DOMAIN ring -> 0 .. Size - 1] /\ IsInjective(ring)
    BY RingsAssumption DEF Init
  <2> QED BY <2>1, SizeAssumption DEF IsRing, IsInjective
<1>2. DOMAIN moving = {} /\ pc = "idle"
  BY DEF Init, Nothing
<1> QED BY <1>1, <1>2 DEF FreeInv, MovingFree, StepsTyped, StartFree, MovesFree, FollowFree

\* A step that leaves no token to give, or to move to.
LEMMA FreeQuiet ==
    ASSUME FreeInv, pc' \in {"idle", "cleanup"}, UNCHANGED <<ring, moving>>
    PROVE  FreeInv'
BY DEF FreeInv, MovingFree, StepsTyped, StartFree, MovesFree, FollowFree, IsRing, Positions

\* The first step made, the others are free in turn from the ring after it.
LEMMA WayOn ==
    ASSUME NEW cur, NEW way, IsSequence(way), way # <<>>, WayFree(cur, way)
    PROVE  WayFree([cur EXCEPT ![Head(way).name] = Head(way).to], Tail(way))
<1> DEFINE next == [cur EXCEPT ![Head(way).name] = Head(way).to]
           rest == Tail(way)
<1>1. /\ Len(rest) = Len(way) - 1 /\ Len(way) \in Nat \ {0} /\ Head(way) = way[1]
      /\ \A i \in 1 .. Len(rest) : i + 1 \in 1 .. Len(way) /\ rest[i] = way[i + 1]
  BY TailOfSteps
<1>2. /\ DOMAIN next = DOMAIN cur
      /\ \A m \in DOMAIN cur : next[m] = IF m = way[1].name THEN way[1].to ELSE cur[m]
  BY <1>1
<1> HIDE DEF rest, next
<1>3. ASSUME NEW j \in 1 .. Len(rest)
      PROVE  /\ \A m \in DOMAIN next \ {rest[j].name} :
                    next[m] = rest[j].to => \E i \in 1 .. j - 1 : rest[i].name = m
             /\ \A i \in 1 .. j - 1 : rest[i].name # rest[j].name /\ rest[i].to # rest[j].to
  <2> DEFINE s == rest[j]
  <2>1. /\ j + 1 \in 1 .. Len(way) /\ s = way[j + 1]
        /\ \A i \in 1 .. j : i \in 1 .. (j + 1) - 1
        /\ 1 \in 1 .. (j + 1) - 1
    BY <1>1
  <2>2. /\ \A m \in DOMAIN cur \ {s.name} : cur[m] = s.to => \E i \in 1 .. j : way[i].name = m
        /\ \A i \in 1 .. j : way[i].name # s.name /\ way[i].to # s.to
    <3>1. (j + 1) - 1 = j
      BY <2>1
    <3> QED BY <2>1, <3>1 DEF WayFree
  <2> HIDE DEF s
  <2>3. way[1].name # s.name /\ way[1].to # s.to
    BY <2>1, <2>2
  <2>4. ASSUME NEW m \in DOMAIN next \ {s.name}, next[m] = s.to
        PROVE  \E i \in 1 .. j - 1 : rest[i].name = m
    <3>1. m # way[1].name /\ cur[m] = s.to /\ m \in DOMAIN cur \ {s.name}
      BY <1>2, <2>3, <2>4
    <3>2. PICK i \in 1 .. j : way[i].name = m
      BY <2>2, <3>1
    <3>3. i # 1
      BY <3>1, <3>2
    <3>4. i - 1 \in 1 .. j - 1 /\ i - 1 \in 1 .. Len(rest) /\ (i - 1) + 1 = i
      BY <1>1, <3>3
    <3>5. rest[i - 1] = way[i]
      BY <1>1, <3>4
    <3> QED BY <3>2, <3>4, <3>5
  <2>5. ASSUME NEW i \in 1 .. j - 1 PROVE rest[i].name # s.name /\ rest[i].to # s.to
    <3>1. i \in 1 .. Len(rest) /\ i + 1 \in 1 .. j
      BY <1>1
    <3> QED BY <1>1, <2>2, <3>1
  <2> QED BY <2>4, <2>5 DEF s
<1>4. WayFree(next, rest)
  BY <1>3 DEF WayFree
<1> QED BY <1>4 DEF next, rest

\* (The step's node may be there already.)
LEMMA WayAfter ==
    ASSUME NEW cur, NEW way, NEW name, NEW to, cur[name] = to,
           WayFree([cur EXCEPT ![name] = to], way)
    PROVE  WayFree(cur, way)
<1> DEFINE next == [cur EXCEPT ![name] = to]
<1>1. DOMAIN next = DOMAIN cur /\ \A m \in DOMAIN cur : next[m] = cur[m]
  OBVIOUS
<1> HIDE DEF next
<1>2. WayFree(next, way)
  BY DEF next
<1> QED BY <1>1, <1>2 DEF WayFree

\* The nodes are started on the places their plan gives.
LEMMA FreeStart ==
    ASSUME FreeInv, NEW kind, NEW plan, PlacesFree(ring, plan.new), StartNodes(kind, plan)
    PROVE  FreeInv'
<1> DEFINE new == plan.new
           order == Of(DOMAIN new)
<1>1. /\ pc' = "start" /\ UNCHANGED <<ring, moving>>
      /\ run' = [kind |-> kind, calm |-> moving = Nothing]
      /\ steps' = [i \in 1 .. Len(order) |-> [name |-> order[i], to |-> new[order[i]]]]
  BY DEF StartNodes
<1>2. /\ order \in Seq(Hosts) /\ Len(order) \in Nat
      /\ \A i \in 1 .. Len(order) : order[i] \in DOMAIN new /\ order[i] \in Hosts
      /\ \A i, j \in 1 .. Len(order) : order[i] = order[j] => i = j
  <2> DEFINE S == DOMAIN new
  <2> HIDE DEF S
  <2>1. /\ Of(S) \in Seq(Hosts) /\ Len(Of(S)) \in 0 .. Cardinality(Hosts)
        /\ \A i \in 1 .. Len(Of(S)) : Of(S)[i] \in S
        /\ \A i, j \in 1 .. Len(Of(S)) : Of(S)[i] = Of(S)[j] => i = j
    BY OfLists
  <2>2. order = Of(S)
    BY DEF S
  <2> HIDE DEF order
  <2>3. order \in Seq(Hosts) /\ Len(order) \in Nat
    BY <2>1, <2>2
  <2>4. \A i \in 1 .. Len(order) : order[i] \in Hosts
    BY <2>3, ElementOfSeq
  <2> QED BY <2>1, <2>2, <2>3, <2>4 DEF S
<1> HIDE DEF order
<1>3. /\ \A n \in DOMAIN new : new[n] \in Int /\ new[n] \notin Positions(ring)
      /\ \A m, n \in DOMAIN new : new[m] = new[n] => m = n
  BY DEF PlacesFree
<1> HIDE DEF new
<1>4. /\ IsSequence(steps') /\ Len(steps') = Len(order)
      /\ \A i \in 1 .. Len(order) : steps'[i].name = order[i] /\ steps'[i].to = new[order[i]]
  <2> DEFINE step(i) == [name |-> order[i], to |-> new[order[i]]]
             T == {step(i) : i \in 1 .. Len(order)}
  <2>1. \A i \in 1 .. Len(order) : step(i).name = order[i] /\ step(i).to = new[order[i]]
    OBVIOUS
  <2>2. steps' = [i \in 1 .. Len(order) |-> step(i)]
    BY <1>1
  <2> HIDE DEF step
  <2>3. \A i \in 1 .. Len(order) : step(i) \in T
    OBVIOUS
  <2> HIDE DEF T
  <2>4. steps' \in Seq(T) /\ Len(steps') = Len(order)
    BY <1>2, <2>2, <2>3
  <2> QED BY <2>1, <2>2, <2>4 DEF IsSequence
<1>5. StepsTyped'
  BY <1>2, <1>3, <1>4 DEF StepsTyped
<1>6. IsRing(ring)' /\ MovingFree'
  BY <1>1 DEF FreeInv, IsRing, MovingFree, Positions
<1>7. StartFree'
  <2>1. ASSUME run'.calm PROVE DOMAIN moving' = {}
    BY <1>1, <2>1 DEF Nothing
  <2>2. ASSUME NEW j \in 1 .. Len(order)
        PROVE  /\ steps'[j].to \notin Positions(ring)
               /\ \A i \in 1 .. j - 1 : steps'[i].to # steps'[j].to
    <3>1. steps'[j].to \notin Positions(ring)
      BY <1>2, <1>3, <1>4
    <3>2. ASSUME NEW i \in 1 .. j - 1 PROVE steps'[i].to # steps'[j].to
      <4>1. i \in 1 .. Len(order) /\ i # j
        BY <1>2
      <4> QED BY <1>2, <1>3, <1>4, <4>1
    <3> QED BY <3>1, <3>2
  <2>3. Positions(ring)' = Positions(ring)
    BY <1>1 DEF Positions
  <2> QED BY <1>4, <2>1, <2>2, <2>3 DEF StartFree
<1>8. MovesFree' /\ FollowFree'
  BY <1>1 DEF MovesFree, FollowFree
<1> QED BY <1>5, <1>6, <1>7, <1>8 DEF FreeInv

\* The tokens of the inventory are numbers.
LEMMA OwnNumbers ==
    ASSUME NEW given \in Givens, NEW S, S \subseteq Hosts
    PROVE  LET own == Restrict(given, S \cap DOMAIN given) IN
           DOMAIN own \subseteq S /\ Numbers(own)
<1>1. \A n \in S \cap DOMAIN given : given[n] \in Int
  BY TokensAssumption, SizeAssumption
<1> QED BY <1>1 DEF Restrict, Numbers

\* create_cluster.
LEMMA FreeCreate ==
    ASSUME FreeInv, NEW given \in Givens, NEW partial, Create(given, partial)
    PROVE  FreeInv'
<1> DEFINE own == Restrict(given, Founders \cap DOMAIN given)
           plan == AssignPlan(Founders, own, ring, partial)
           kind == IF own = <<>> THEN "balanced" ELSE "bisect"
<1>1. StartNodes(kind, plan) /\ plan.ok
  BY DEF Create, StartNodes
<1>2. Founders \subseteq Hosts
  BY TokenMovesAssumption DEF Hosts
<1>3. Numbers(own)
  BY <1>2, OwnNumbers
<1> HIDE DEF own, kind
<1>4. PlacesFree(ring, plan.new)
  BY <1>1, <1>2, <1>3, AssignPlanFree
<1> HIDE DEF plan
<1> QED BY <1>1, <1>4, FreeStart

\* add_node.
LEMMA FreeAdd ==
    ASSUME FreeInv, NEW kind, NEW new \in Additions, NEW given \in Givens, NEW known,
           Add(kind, new, given, known)
    PROVE  FreeInv'
<1> DEFINE dc == CHOOSE d \in Dcs(new) : TRUE
           left == new \ DOMAIN ring
           own == Restrict(given, left \cap DOMAIN given)
           free == Of(left \ DOMAIN own)
           plan == AddPlan(kind, ring, dc, own, free, known)
<1>1. StartNodes(kind, plan) /\ plan.ok
  BY DEF Add, StartNodes
<1>2. left \subseteq Hosts
  BY TokensAssumption
<1>3. DOMAIN own \subseteq Hosts /\ Numbers(own)
  <2> HIDE DEF left
  <2> QED BY <1>2, OwnNumbers
<1>4. free \in Seq(Hosts) /\ Len(free) <= Cardinality(Hosts)
  <2> DEFINE S == left \ DOMAIN own
  <2> HIDE DEF S
  <2>1. Of(S) \in Seq(Hosts) /\ Len(Of(S)) \in 0 .. Cardinality(Hosts)
    BY OfLists
  <2> QED BY <2>1, HostsFinite DEF S
<1> HIDE DEF own, free, dc
<1>5. PlacesFree(ring, plan.new)
  BY <1>1, <1>3, <1>4, AddPlanFree DEF FreeInv
<1> HIDE DEF plan
<1> QED BY <1>1, <1>5, FreeStart

\* A node starts.
LEMMA FreeJoin ==
    ASSUME FreeInv, Join
    PROVE  FreeInv'
<1>1. CASE moving # Nothing \/ Head(steps).to \in Positions(ring)
  BY <1>1, FreeQuiet DEF Join, Over
<1>2. CASE moving = Nothing /\ Head(steps).to \notin Positions(ring)
  <2> DEFINE step == Head(steps)
             rest == Tail(steps)
  <2>1. /\ pc = "start" /\ steps # <<>> /\ ring' = Put(ring, step.name, step.to)
        /\ steps' = rest /\ UNCHANGED <<pc, run, moving>>
    BY <1>2 DEF Join
  <2>2. IsSequence(steps) /\ \A i \in 1 .. Len(steps) : steps[i].to \in Int /\ steps[i].name \in Hosts
    BY <2>1 DEF FreeInv, StepsTyped
  <2>3. /\ Len(rest) = Len(steps) - 1 /\ Len(steps) \in Nat \ {0} /\ step = steps[1] /\ IsSequence(rest)
        /\ \A i \in 1 .. Len(rest) : i + 1 \in 1 .. Len(steps) /\ rest[i] = steps[i + 1]
    BY <2>1, <2>2, TailOfSteps
  <2> HIDE DEF rest, step
  <2>4. step.to \in Int /\ step.name \in Hosts /\ step.to \notin Positions(ring)
    BY <1>2, <2>2, <2>3 DEF step
  <2>5. /\ DOMAIN ring' = DOMAIN ring \cup {step.name}
        /\ \A n \in DOMAIN ring' : ring'[n] = IF n = step.name THEN step.to ELSE ring[n]
    BY <2>1 DEF Put
  <2>6. \A n \in DOMAIN ring : ring[n] # step.to
    BY <2>4 DEF Positions
  <2>7. IsRing(ring)'
    BY <2>4, <2>5, <2>6 DEF FreeInv, IsRing
  <2>8. DOMAIN moving' = {}
    BY <1>2, <2>1 DEF Nothing
  <2>9. StepsTyped'
    BY <2>1, <2>2, <2>3 DEF StepsTyped
  <2>10. StartFree'
    <3>1. ASSUME run.calm, NEW j \in 1 .. Len(rest)
          PROVE  /\ rest[j].to \notin Positions(ring')
                 /\ \A i \in 1 .. j - 1 : rest[i].to # rest[j].to
      <4>1. j + 1 \in 1 .. Len(steps) /\ rest[j] = steps[j + 1] /\ 1 \in 1 .. (j + 1) - 1
        BY <2>3
      <4>2. /\ steps[j + 1].to \notin Positions(ring)
            /\ \A i \in 1 .. (j + 1) - 1 : steps[i].to # steps[j + 1].to
        BY <2>1, <3>1, <4>1 DEF FreeInv, StartFree
      <4>3. rest[j].to # step.to /\ rest[j].to \notin Positions(ring)
        BY <2>3, <4>1, <4>2
      <4>4. rest[j].to \notin Positions(ring')
        BY <2>5, <4>3 DEF Positions
      <4>5. ASSUME NEW i \in 1 .. j - 1 PROVE rest[i].to # rest[j].to
        <5>1. i \in 1 .. Len(rest) /\ i + 1 \in 1 .. (j + 1) - 1
          BY <2>3
        <5> QED BY <2>3, <4>1, <4>2, <5>1
      <4> QED BY <4>4, <4>5
    <3>2. Positions(ring)' = Positions(ring')
      BY DEF Positions
    <3> QED BY <2>1, <2>8, <3>1, <3>2 DEF StartFree
  <2> QED BY <2>1, <2>7, <2>8, <2>9, <2>10 DEF FreeInv, MovingFree, MovesFree, FollowFree
<1> QED BY <1>1, <1>2

\* A run of move_node starts.
LEMMA FreeMove ==
    ASSUME ListInv, ListInv', FreeInv, NEW targets \in Targets, NEW known \in BOOLEAN, Move(targets, known)
    PROVE  FreeInv'
<1> DEFINE way == MovePlan(ring, DOMAIN moving, targets, known, simple).steps
<1>1. /\ UNCHANGED <<ring, moving>>
      /\ run'.calm = (moving = Nothing)
      /\ steps' = way
      /\ pc' = IF way = <<>> THEN "cleanup" ELSE "record"
  BY DEF Move
<1>2. WayFree(ring, way) /\ \A i \in 1 .. Len(way) : way[i].to \in Int
  <2>1. Numbers(targets)
    BY TokensAssumption, SizeAssumption DEF Numbers
  <2>2. IsRing(ring) /\ Functional(ring) /\ DOMAIN moving \subseteq DOMAIN ring
    BY DEF FreeInv, ListInv, RingSo, MovingSo
  <2> DEFINE busy == DOMAIN moving
  <2>3. busy \subseteq DOMAIN ring
    BY <2>2
  <2> HIDE DEF busy
  <2>4. LET its == MovePlan(ring, busy, targets, known, simple).steps IN
        WayFree(ring, its) /\ \A i \in 1 .. Len(its) : its[i].to \in Int
    BY <2>1, <2>2, <2>3, MovePlanFree
  <2> QED BY <2>4 DEF busy
<1> HIDE DEF way
<1>3. CASE way = <<>>
  BY <1>1, <1>3, FreeQuiet
<1>4. CASE way # <<>>
  <2>1. pc' = "record"
    BY <1>1, <1>4
  <2>2. IsSequence(steps') /\ \A i \in 1 .. Len(steps') : steps'[i].name \in Hosts
    BY <2>1, <1>1 DEF ListInv, StepsSo, Moving, FreeInv, IsRing
  <2>3. StepsTyped'
    BY <1>1, <1>2, <2>2 DEF StepsTyped
  <2>4. MovesFree'
    <3>1. run'.calm => DOMAIN moving' = {}
      BY <1>1 DEF Nothing
    <3> QED BY <1>1, <1>2, <3>1 DEF MovesFree, WayFree
  <2> QED BY <1>1, <2>1, <2>3, <2>4 DEF FreeInv, IsRing, MovingFree, Positions, StartFree, FollowFree
<1> QED BY <1>3, <1>4

\* Its cleanups are listed.
LEMMA FreeRecord ==
    ASSUME FreeInv, RecordCleanups
    PROVE  FreeInv'
<1>1. pc = "record" /\ pc' = "moves" /\ UNCHANGED <<ring, moving, run, steps>>
  BY DEF RecordCleanups
<1>2. MovesFree'
  BY <1>1 DEF FreeInv, MovesFree, WayFree
<1> QED BY <1>1, <1>2 DEF FreeInv, IsRing, MovingFree, Positions, StepsTyped, StartFree, FollowFree

\* The run goes on with the next move.
LEMMA FreeNext ==
    ASSUME FreeInv, pc \in {"moves", "follow"}, steps # <<>>, ring[Head(steps).name] = Head(steps).to,
           steps' = Tail(steps), pc' = "moves", UNCHANGED <<ring, moving, run>>,
           run.calm => DOMAIN moving = {} /\ WayFree(ring, Tail(steps))
    PROVE  FreeInv'
<1> DEFINE rest == Tail(steps)
<1>1. IsSequence(steps) /\ \A i \in 1 .. Len(steps) : steps[i].to \in Int /\ steps[i].name \in Hosts
  BY DEF FreeInv, StepsTyped
<1>2. IsSequence(rest) /\ \A i \in 1 .. Len(rest) : i + 1 \in 1 .. Len(steps) /\ rest[i] = steps[i + 1]
  BY <1>1, TailOfSteps
<1>3. steps' = rest /\ (run.calm => DOMAIN moving = {} /\ WayFree(ring, rest))
  OBVIOUS
<1> HIDE DEF rest
<1>4. StepsTyped'
  BY <1>1, <1>2, <1>3 DEF StepsTyped
<1>5. MovesFree'
  <2>1. ring' = ring /\ steps' = rest /\ run'.calm = run.calm /\ DOMAIN moving' = DOMAIN moving
    BY <1>3
  <2>2. WayFree(ring, steps)' <=> WayFree(ring, rest)
    BY <2>1
  <2> QED BY <1>3, <2>1, <2>2 DEF MovesFree
<1> QED BY <1>4, <1>5 DEF FreeInv, IsRing, MovingFree, Positions, StartFree, FollowFree

\* A move begins, or the run goes on or stops.
LEMMA FreeBegin ==
    ASSUME FreeInv, BeginMove
    PROVE  FreeInv'
<1> DEFINE step == Head(steps)
<1>1. CASE ~Healthy({})
  BY <1>1, FreeQuiet DEF BeginMove, Over
<1>2. ASSUME Healthy({})
      PROVE  /\ pc = "moves" /\ steps # <<>> /\ moving = Nothing /\ DOMAIN moving = {}
             /\ IsSequence(steps) /\ step.to \in Int
             /\ run.calm => WayFree([ring EXCEPT ![step.name] = step.to], Tail(steps))
  <2>1. pc = "moves" /\ steps # <<>> /\ moving = Nothing /\ DOMAIN moving = {}
    BY <1>2 DEF BeginMove, Healthy, Nothing
  <2>2. IsSequence(steps) /\ \A i \in 1 .. Len(steps) : steps[i].to \in Int
    BY <2>1 DEF FreeInv, StepsTyped
  <2>3. step = steps[1] /\ 1 \in 1 .. Len(steps)
    BY <2>1, <2>2, TailOfSteps
  <2>4. run.calm => WayFree(ring, steps)
    BY <2>1 DEF FreeInv, MovesFree
  <2>5. run.calm => WayFree([ring EXCEPT ![step.name] = step.to], Tail(steps))
    BY <2>1, <2>2, <2>4, WayOn
  <2> QED BY <2>1, <2>2, <2>3, <2>5
<1>3. CASE Healthy({}) /\ ring[step.name] = step.to
  <2>1. steps' = Tail(steps) /\ pc' = "moves" /\ UNCHANGED <<ring, moving, run>>
    BY <1>3 DEF BeginMove
  <2> DEFINE name == step.name
             to == step.to
             rest == Tail(steps)
  <2>2. run.calm => WayFree([ring EXCEPT ![name] = to], rest)
    BY <1>2, <1>3
  <2>3. ring[name] = to
    BY <1>3
  <2> HIDE DEF name, to, rest
  <2>4. run.calm => WayFree(ring, rest)
    BY <2>2, <2>3, WayAfter
  <2> QED BY <1>2, <1>3, <2>1, <2>4, FreeNext DEF rest
<1>4. CASE Healthy({}) /\ ring[step.name] # step.to /\ step.to \in Positions(ring)
  BY <1>4, FreeQuiet DEF BeginMove, Over
<1>5. CASE Healthy({}) /\ ring[step.name] # step.to /\ step.to \notin Positions(ring)
  <2> DEFINE going == [to |-> step.to, dead |-> FALSE, even |-> run.targets = <<>>,
                    read |-> run.known]
  <2>1. /\ pc' = "follow" /\ moving' = [n \in {step.name} |-> going]
        /\ UNCHANGED <<ring, run, steps>>
    BY <1>5 DEF BeginMove
  <2>2. DOMAIN moving' = {step.name} /\ moving'[step.name].to = step.to
    BY <2>1
  <2>3. IsRing(ring)' /\ Positions(ring)' = Positions(ring)
    BY <2>1 DEF FreeInv, IsRing, Positions
  <2>4. MovingFree'
    BY <1>2, <1>5, <2>2, <2>3 DEF MovingFree
  <2>5. StepsTyped'
    BY <1>2, <1>5, <2>1 DEF FreeInv, StepsTyped
  <2>6. FollowFree'
    <3>1. run'.calm = run.calm /\ Head(steps)' = step
      BY <2>1
    <3>2. run'.calm => WayFree([ring EXCEPT ![step.name] = step.to], Tail(steps))'
      BY <1>2, <1>5, <2>1 DEF WayFree
    <3> QED BY <2>2, <3>1, <3>2 DEF FollowFree
  <2> QED BY <2>1, <2>3, <2>4, <2>5, <2>6 DEF FreeInv, StartFree, MovesFree
<1> QED BY <1>1, <1>3, <1>4, <1>5

\* The job of a move ended.
LEMMA FreeFollowed ==
    ASSUME ListInv, FreeInv, Followed
    PROVE  FreeInv'
<1> DEFINE step == Head(steps)
<1>1. CASE ring[step.name] # step.to
  BY <1>1, FreeQuiet DEF Followed, Over
<1>2. CASE ring[step.name] = step.to
  <2>1. /\ pc = "follow" /\ pc' = "moves" /\ steps' = Tail(steps)
        /\ UNCHANGED <<ring, moving, run>>
    BY <1>2 DEF Followed
  <2>2. steps # <<>>
    BY <2>1 DEF ListInv, StepsSo, Moving
  <2>3. ASSUME run.calm PROVE DOMAIN moving = {}
    <3>1. SUFFICES ASSUME NEW n \in DOMAIN moving PROVE FALSE
      OBVIOUS
    <3>2. n = step.name /\ moving[n].to = step.to /\ n \in DOMAIN ring
      BY <2>1, <2>3 DEF FreeInv, FollowFree, ListInv, MovingSo
    <3>3. moving[n].to = ring[n]
      BY <1>2, <3>2
    <3> QED BY <3>2, <3>3 DEF FreeInv, MovingFree, Positions
  <2> DEFINE name == step.name
             to == step.to
             rest == Tail(steps)
  <2>4. run.calm => WayFree([ring EXCEPT ![name] = to], rest)
    BY <2>1 DEF FreeInv, FollowFree
  <2>5. ring[name] = to
    BY <1>2
  <2> HIDE DEF name, to, rest
  <2>6. run.calm => WayFree(ring, rest)
    BY <2>4, <2>5, WayAfter
  <2> QED BY <1>2, <2>1, <2>2, <2>3, <2>6, FreeNext DEF rest
<1> QED BY <1>1, <1>2

\* The move ends: the ring is the one the moves left are free from.
LEMMA FreeEnds ==
    ASSUME ListInv, FreeInv, NEW n \in DOMAIN moving, MoveEnds(n)
    PROVE  FreeInv'
<1> DEFINE to == moving[n].to
<1>1. /\ ring' = [ring EXCEPT ![n] = to] /\ moving' = Restrict(moving, DOMAIN moving \ {n})
      /\ UNCHANGED <<pc, run, steps>>
  BY DEF MoveEnds
<1>2. n \in DOMAIN ring /\ DOMAIN moving' = {}
  <2>1. DOMAIN moving' = DOMAIN moving \ {n}
    BY <1>1 DEF Restrict
  <2> QED BY <2>1 DEF ListInv, MovingSo
<1>3. to \in Int /\ \A m \in DOMAIN ring : ring[m] # to
  BY DEF FreeInv, MovingFree, Positions
<1>4. IsRing(ring)'
  BY <1>1, <1>2, <1>3 DEF FreeInv, IsRing
<1>5. MovingFree'
  BY <1>2 DEF MovingFree
<1>6. StepsTyped'
  BY <1>1 DEF FreeInv, StepsTyped
<1>7. StartFree' /\ MovesFree'
  BY <1>1 DEF FreeInv, StartFree, MovesFree
<1>8. FollowFree'
  <2>1. CASE pc = "follow" /\ run.calm
    <3> DEFINE rest == Tail(steps)
    <3>1. n = Head(steps).name /\ to = Head(steps).to
      BY <2>1 DEF FreeInv, FollowFree
    <3>2. WayFree([ring EXCEPT ![n] = to], rest)
      BY <2>1, <3>1 DEF FreeInv, FollowFree
    <3>3. WayFree(ring', rest)
      BY <1>1, <3>2
    <3>4. [ring' EXCEPT ![n] = to] = ring'
      BY <1>1
    <3>5. Head(steps)' = Head(steps) /\ Tail(steps)' = rest
      BY <1>1
    <3> HIDE DEF to, rest
    <3>6. WayFree([ring EXCEPT ![Head(steps).name] = Head(steps).to], Tail(steps))'
      BY <3>1, <3>3, <3>4, <3>5
    <3> QED BY <1>2, <3>6 DEF FollowFree
  <2>2. CASE ~(pc = "follow" /\ run.calm)
    BY <1>1, <2>2 DEF FollowFree
  <2> QED BY <2>1, <2>2
<1> QED BY <1>4, <1>5, <1>6, <1>7, <1>8 DEF FreeInv

\* A node that stops moving, or goes on with its move failed.
LEMMA FreeStops ==
    ASSUME ListInv, FreeInv, NEW n \in DOMAIN moving, MoveFails(n) \/ Restarted(n)
    PROVE  FreeInv'
<1>1. UNCHANGED <<ring, pc, run, steps>>
  BY DEF MoveFails, Restarted
<1>2. DOMAIN moving' \subseteq DOMAIN moving /\ \A m \in DOMAIN moving' : moving'[m].to = moving[m].to
  <2>1. CASE MoveFails(n)
    <3>1. moving' = [moving EXCEPT ![n].dead = TRUE]
      BY <2>1 DEF MoveFails
    <3>2. moving[n] = [to   |-> moving[n].to, dead |-> moving[n].dead,
                       even |-> moving[n].even, read |-> moving[n].read]
      BY DEF ListInv, MovingSo
    <3> QED BY <3>1, <3>2
  <2>2. CASE Restarted(n)
    BY <2>2 DEF Restarted, Restrict
  <2> QED BY <2>1, <2>2
<1>3. IsRing(ring)' /\ StepsTyped'
  BY <1>1 DEF FreeInv, IsRing, StepsTyped
<1>4. MovingFree'
  <2>1. Positions(ring)' = Positions(ring)
    BY <1>1 DEF Positions
  <2> QED BY <1>2, <2>1 DEF FreeInv, MovingFree
<1>5. StartFree' /\ MovesFree'
  BY <1>1 DEF FreeInv, StartFree, MovesFree
<1>6. FollowFree'
  <2> DEFINE way == WayFree([ring EXCEPT ![Head(steps).name] = Head(steps).to], Tail(steps))
  <2>1. way' = way
    BY <1>1
  <2>2. Head(steps)' = Head(steps)
    BY <1>1
  <2> QED BY <1>1, <1>2, <2>1, <2>2 DEF FreeInv, FollowFree
<1> QED BY <1>3, <1>4, <1>5, <1>6 DEF FreeInv

\* Every step keeps the tokens free.
LEMMA FreeStep == ListInv /\ ListInv' /\ FreeInv /\ [Next]_vars => FreeInv'
<1> SUFFICES ASSUME ListInv, ListInv', FreeInv, [Next]_vars PROVE FreeInv'
  OBVIOUS
<1>1. ASSUME NEW given \in Givens, NEW partial \in BOOLEAN, Create(given, partial) PROVE FreeInv'
  BY <1>1, FreeCreate
<1>2. ASSUME NEW how \in {"bisect", "balanced"}, NEW new \in Additions, NEW given \in Givens,
             NEW known \in BOOLEAN, Add(how, new, given, known)
      PROVE  FreeInv'
  BY <1>2, FreeAdd
<1>3. CASE Join
  BY <1>3, FreeJoin
<1>4. CASE AllStarted \/ TakeOut
  BY <1>4, FreeQuiet DEF AllStarted, TakeOut, Over
<1>5. ASSUME NEW targets \in Targets, NEW known \in BOOLEAN, Move(targets, known) PROVE FreeInv'
  BY <1>5, FreeMove
<1>6. CASE RecordCleanups
  BY <1>6, FreeRecord
<1>7. CASE BeginMove
  BY <1>7, FreeBegin
<1>8. CASE NoRoom \/ CleanupFails \/ CleanupLeft \/ Interrupt
  BY <1>8, FreeQuiet DEF NoRoom, CleanupFails, CleanupLeft, Interrupt, Over
<1>9. CASE Followed
  BY <1>9, FreeFollowed
<1>10. CASE AllMoved \/ CleanBatch \/ Forget
  BY <1>10, FreeQuiet DEF AllMoved, CleanBatch, Forget, Over
<1>11. ASSUME NEW n \in DOMAIN moving, MoveEnds(n) PROVE FreeInv'
  BY <1>11, FreeEnds
<1>12. ASSUME NEW n \in DOMAIN moving, MoveFails(n) \/ Restarted(n) PROVE FreeInv'
  BY <1>12, FreeStops
<1>13. CASE UNCHANGED vars
  <2>1. UNCHANGED <<ring, moving, pc, run, steps>>
    BY <1>13 DEF vars
  <2>2. IsRing(ring)' /\ MovingFree' /\ StepsTyped' /\ StartFree'
    BY <2>1 DEF FreeInv, IsRing, MovingFree, StepsTyped, StartFree, Positions
  <2>3. WayFree(ring, steps)' = WayFree(ring, steps)
    BY <2>1
  <2> DEFINE way == WayFree([ring EXCEPT ![Head(steps).name] = Head(steps).to], Tail(steps))
  <2>4. way' = way /\ Head(steps)' = Head(steps)
    BY <2>1
  <2>5. MovesFree' /\ FollowFree'
    BY <2>1, <2>3, <2>4 DEF FreeInv, MovesFree, FollowFree
  <2> QED BY <2>2, <2>5 DEF FreeInv
<1> QED BY <1>1, <1>2, <1>3, <1>4, <1>5, <1>6, <1>7, <1>8, <1>9, <1>10, <1>11, <1>12, <1>13 DEF Next

\* No node is started at, or moved to, a token another node holds when its turn
\* comes (cassandra_tokens.py's plans, create_cluster, add_node and move_node),
\* whatever the tokens of the inventory, the ring and the runs before.
THEOREM TokensNeverTaken == Spec => []TokensFree
<1>1. ListInv /\ FreeInv => TokensFree
  <2> SUFFICES ASSUME FreeInv, pc \in {"start", "moves"}, steps # <<>>, run.calm,
                      NEW n \in DOMAIN ring \ {Head(steps).name}
               PROVE  ring[n] # Head(steps).to
    BY DEF TokensFree
  <2>1. IsSequence(steps) /\ \A i \in 1 .. Len(steps) : steps[i].to \in Int
    BY DEF FreeInv, StepsTyped
  <2>2. Head(steps) = steps[1] /\ 1 \in 1 .. Len(steps)
    BY <2>1, TailOfSteps
  <2>3. CASE pc = "start"
    <3>1. steps[1].to \notin Positions(ring)
      BY <2>2, <2>3 DEF FreeInv, StartFree
    <3> QED BY <2>2, <3>1 DEF Positions
  <2>4. CASE pc = "moves"
    <3>1. ring[n] = steps[1].to => \E i \in 1 .. 1 - 1 : steps[i].name = n
      BY <2>2, <2>4 DEF FreeInv, MovesFree, WayFree
    <3> QED BY <2>2, <3>1
  <2> QED BY <2>3, <2>4
<1> QED BY ListInit, ListStep, FreeInit, FreeStep, <1>1, PTL DEF Spec
=============================================================================
