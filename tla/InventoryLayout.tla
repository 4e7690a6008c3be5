-------------------------- MODULE InventoryLayout --------------------------
(***************************************************************************)
(* The inventory import_cluster lays out from what it read on the nodes:   *)
(* plugins/filter/cassandra_import.py, cassandra_inventory_layout (each    *)
(* variable at the highest level its nodes agree on) and                   *)
(* cassandra_inventory_layout_over (the same over the variables files the  *)
(* user keeps in the inventory directory), and what a host gets from such  *)
(* files (_effective, Ansible).  Pure operators.                           *)
(*                                                                         *)
(* A value is a pair <<kind, what>>: "is", "at" (a value made of the name  *)
(* of a node), "by name" (the template that gives each node its own),      *)
(* "template" (one of the user's).  A node is a record [name, dc, rack,    *)
(* read, vars, keep]; vars and keep map a variable to its value.  A file   *)
(* of variables is a record [where, file, mark, vars]: the group or host   *)
(* it is for, its name there, who wrote it, its variables.                 *)
(***************************************************************************)
EXTENDS Naturals, Sequences, FiniteSetsExt, TLC

CONSTANTS
    Always,     \* ALWAYS: written whatever the user's files give
    NotRead,    \* the variables the import cannot tell (read_on is false)
    Secret,     \* the variables that go to secrets.yml
    Defaults    \* variable -> the collection's default, those made of facts left out

Missing == <<"missing", "">>    \* MISSING
ByName  == <<"by name", "">>
At(name) == <<"at", name>>

Place == {"dc", "rack"}         \* cassandra_dc, cassandra_rack

(* A map over another one.                                                 *)
Over(f, g) == f @@ g

ValueOf(f, k) == IF k \in DOMAIN f THEN f[k] ELSE Missing

-----------------------------------------------------------------------------
(* Where the variables of a host come from, the last one wins: all, its    *)
(* cluster, its DC, its rack, the host.                                    *)

All == <<"all">>
Host(name) == <<"host", name>>

Chain(c, n) == <<All, <<"group", c>>, <<"group", c, n.dc>>, <<"group", c, n.dc, n.rack>>, Host(n.name)>>

Levels == 2 .. 5    \* levels of _place, and the host

(* The files of a directory by name: "single" is <group>.yml, read only    *)
(* where there is no directory of that name.                               *)
Rank == [single |-> 0, before |-> 1, main |-> 2, between |-> 4, secrets |-> 5, after |-> 6]

(* The files Ansible reads for a chain, the one whose value of k wins.     *)
Reads(files, chain) ==
    {f \in files : /\ \E i \in DOMAIN chain : chain[i] = f.where
                   /\ f.file = "single" => ~ \E g \in files : g.where = f.where /\ g.file # "single"}

(* (Of two for one path, the import's is the one that will be there.)      *)
Order(f, chain) ==
    10 * (CHOOSE i \in DOMAIN chain : chain[i] = f.where) + Rank[f.file] + (IF f.mark = "import" THEN 1 ELSE 0)

(* (read: the files a host reads.)                                        *)
Winner(read, chain, k) ==
    LET having == {f \in read : k \in DOMAIN f.vars}
    IN  CHOOSE f \in having : \A g \in having : Order(g, chain) <= Order(f, chain)

Given(read) == UNION {DOMAIN f.vars : f \in read}

(* A template of the nodes' names gives a host its own value.              *)
Rendered(v, name) == IF v = ByName THEN At(name) ELSE v

-----------------------------------------------------------------------------
(* cassandra_inventory_layout                                              *)

(* Mutant: the nodes without the variable are not asked.                   *)
AgreeOfThose(k, members) ==
    \A m, o \in {x \in members : k \in DOMAIN x.vars} : m.vars[k] = o.vars[k]

Agree(k, members) ==
    \A m \in members : /\ k \in DOMAIN m.vars
                       /\ \A o \in members : ValueOf(o.vars, k) = m.vars[k]

Members(c, read, n, i) == {m \in read : Chain(c, m)[i] = Chain(c, n)[i]}

(* The level the value of n goes to: the highest one where all agree.      *)
LevelOf(c, read, n, k) ==
    CHOOSE i \in Levels : /\ Agree(k, Members(c, read, n, i))
                          /\ \A j \in Levels : j < i => ~Agree(k, Members(c, read, n, j))

(* What is placed where, and the part of it placed at one place.           *)
Placements(c, read) ==
    UNION {{[where |-> Chain(c, n)[LevelOf(c, read, n, k)], key |-> k, value |-> n.vars[k]] : k \in DOMAIN n.vars}
            : n \in read}

PlacedAt(placements, where) ==
    LET here == {p \in placements : p.where = where}
    IN  [k \in {p.key : p \in here} |-> (CHOOSE p \in here : p.key = k).value]

(* Two nodes or more have it, each with the value its own name makes.      *)
FollowsNames(read, k) ==
    LET having == {n \in read : k \in DOMAIN n.vars}
    IN  k \notin Place /\ Cardinality(having) >= 2 /\ \A n \in having : n.vars[k] = At(n.name)

Templated(read) ==
    {[n EXCEPT !.vars = [k \in DOMAIN n.vars \ Place |-> IF FollowsNames(read, k) THEN ByName ELSE n.vars[k]]]
        : n \in read}

ReadOnes(nodes) == {n \in nodes : n.read}

(* The DC and the rack are the ring's.                                     *)
RingVars(c, nodes, where) ==
    LET n == CHOOSE m \in nodes : where \in {Chain(c, m)[3], Chain(c, m)[4]}
    IN  CASE Len(where) = 3 -> "dc" :> <<"is", n.dc>>
          [] Len(where) = 4 -> "rack" :> <<"is", n.rack>>
          [] OTHER -> <<>>

(* Where -> the variables kept there: host_vars take what stays as it is   *)
(* on the node.                                                            *)
Layout(c, nodes) ==
    LET placed == Placements(c, Templated(ReadOnes(nodes)))
        groups == {Chain(c, n)[i] : n \in nodes, i \in 2 .. 4}
    IN  [w \in groups \cup {Host(n.name) : n \in nodes} |->
            IF w \in groups THEN Over(PlacedAt(placed, w), RingVars(c, nodes, w))
            ELSE Over((CHOOSE n \in nodes : Host(n.name) = w).keep, PlacedAt(placed, w))]

(* cassandra_inventory_files: the secrets apart, no empty file.            *)
FilesOf(layout, mark) ==
    LET split(w, name, keys) == [where |-> w, file |-> name, mark |-> mark,
                                 vars |-> [k \in keys |-> layout[w][k]]]
    IN  {f \in UNION {{split(w, "main", DOMAIN layout[w] \ Secret),
                       split(w, "secrets", DOMAIN layout[w] \cap Secret)} : w \in DOMAIN layout}
            : DOMAIN f.vars # {}}

-----------------------------------------------------------------------------
(* cassandra_inventory_layout_over                                         *)

(* The layout as _effective counts it: a main.yml of each place with       *)
(* variables, their values left out when mine is false.                    *)
AsFiles(layout, mine) ==
    {[where |-> w, file |-> "main", mark |-> "import", vars |-> IF mine THEN layout[w] ELSE <<>>]
        : w \in {x \in DOMAIN layout : DOMAIN layout[x] # {}}}

(* A value of the user's that can be told: no template.                    *)
Comparable(v) == v[1] # "template"

(* live_of: left as found, read, else the collection's default.            *)
LiveOf(n, k) ==
    IF k \in DOMAIN n.keep THEN n.keep[k]
    ELSE IF k \in DOMAIN n.vars THEN n.vars[k]
    ELSE ValueOf(Defaults, k)

(* read_on: the value of the node is known.                                *)
ReadOn(n, k) == k \in DOMAIN n.vars \cup DOMAIN n.keep \/ k \notin NotRead

(* What the user's files (user) give each node over the import's, for the  *)
(* variables the import reads: {[node, key, value]}.                       *)
Theirs(c, nodes, layout, user, mine) ==
    LET files == user \cup AsFiles(layout, mine)
        given(n) == LET read == Reads(files, Chain(c, n))
                    IN  {[node |-> n, key |-> k, file |-> Winner(read, Chain(c, n), k)] : k \in Given(read)}
    IN  {t \in UNION {given(n) : n \in nodes} : t.file.mark # "import"}

ValueIn(t) == t.file.vars[t.key]

(* The variables theirs gives as the node has them: left to theirs.        *)
LeftToYours(c, nodes, user) ==
    {t \in Theirs(c, nodes, Layout(c, nodes), user, FALSE) :
        /\ t.key \in DOMAIN t.node.vars \ (Always \cup Place)
        /\ ValueIn(t) = t.node.vars[t.key]}

(* A main.yml of a group or host of the cluster, theirs or not.            *)
AtOwnPath(f) == f.file = "main" /\ f.where # All

(* The values of theirs a node read does not have.                         *)
Wrong(c, nodes, layout, user) ==
    {t \in Theirs(c, ReadOnes(nodes), layout, user, TRUE) :
        /\ ~AtOwnPath(t.file)
        /\ ReadOn(t.node, t.key)
        /\ Comparable(ValueIn(t))
        /\ LiveOf(t.node, t.key) # Missing
        /\ ValueIn(t) # LiveOf(t.node, t.key)}

NotComparedIn(c, nodes, layout, user) ==
    {t.key : t \in {u \in Theirs(c, ReadOnes(nodes), layout, user, TRUE) :
        /\ ~AtOwnPath(u.file)
        /\ ReadOn(u.node, u.key)
        /\ ~Comparable(ValueIn(u)) \/ LiveOf(u.node, u.key) = Missing}}

(* The nodes with what is written for them (written: {<<name, key>>}).     *)
Writing(nodes, written) ==
    {[n EXCEPT !.vars = [k \in {key \in DOMAIN n.vars \cup {w[2] : w \in written} :
                                    <<n.name, key>> \in written} |-> LiveOf(n, k)]] : n \in nodes}

Cell(t) == <<t.node.name, t.key>>

(* A round writes the values theirs would change; when there is none left, *)
(* the ones written already are written for the host too.                  *)
Pinned(nodes, cells, layout) ==
    [w \in DOMAIN layout |->
        Over([k \in {p[2] : p \in {q \in cells : Host(q[1]) = w}} |-> LiveOf(CHOOSE n \in nodes : Host(n.name) = w, k)],
             layout[w])]

AfterRound(c, nodes, s, cells, notCompared) ==
    [layout      |-> IF cells \subseteq s.written THEN Pinned(nodes, cells, s.layout)
                     ELSE Layout(c, Writing(nodes, s.written \cup cells)),
     written     |-> s.written \cup cells,
     settled     |-> cells \subseteq s.written,
     yours       |-> s.yours \cup cells,
     notCompared |-> s.notCompared \cup notCompared]

Round(c, nodes, user, s) ==
    IF s.settled THEN s
    ELSE AfterRound(c, nodes, s, {Cell(t) : t \in Wrong(c, nodes, s.layout, user)},
                    NotComparedIn(c, nodes, s.layout, user))

(* The variables of theirs a node read does not have, whatever is written. *)
Differ(c, nodes, user) ==
    {Cell(t) : t \in {u \in Theirs(c, ReadOnes(nodes), Layout(c, nodes), user, FALSE) :
        /\ u.key \notin Always \cup Place
        /\ ReadOn(u.node, u.key)
        /\ Comparable(ValueIn(u))
        /\ LiveOf(u.node, u.key) \notin {Missing, ValueIn(u)}}}

(* The ones that cannot be told, wherever theirs stands.                   *)
NeverCompared(c, nodes, user) ==
    {t.key : t \in {u \in Theirs(c, ReadOnes(nodes), Layout(c, nodes), user, FALSE) :
        u.key \notin Always \cup Place /\ ReadOn(u.node, u.key) /\ ~Comparable(ValueIn(u))}}

(* What is written first: the variables not left to theirs.                *)
FirstRound(c, nodes, held, notCompared) ==
    [layout |-> Layout(c, Writing(nodes, held)), written |-> held, settled |-> FALSE, yours |-> {},
     notCompared |-> notCompared]

HeldBy(nodes) == UNION {{<<n.name, k>> : k \in DOMAIN n.vars} : n \in nodes}

(* The values of theirs listed that still win over the import's.           *)
StillWins(c, nodes, files, cells) ==
    {cell \in cells : \E n \in nodes :
        /\ n.name = cell[1]
        /\ cell[2] \in Given(Reads(files, Chain(c, n)))
        /\ Winner(Reads(files, Chain(c, n)), Chain(c, n), cell[2]).vars[cell[2]] # LiveOf(n, cell[2])}

LaidAs(c, nodes, user, last) ==
    [layout      |-> last.layout,
     yours       |-> last.yours \cup Differ(c, nodes, user),
     notCompared |-> last.notCompared,
     theirsWin   |-> StillWins(c, nodes, user \cup AsFiles(last.layout, TRUE), last.yours)]

(* Three rounds.                                                           *)
Laid(c, nodes, user) ==
    LaidAs(c, nodes, user,
        Round(c, nodes, user, Round(c, nodes, user, Round(c, nodes, user,
            FirstRound(c, nodes, HeldBy(nodes) \ {Cell(t) : t \in LeftToYours(c, nodes, user)},
                       NeverCompared(c, nodes, user))))))

Paths(files) == {<<f.where, f.file>> : f \in files}

(* The user's files counted: without the ones at the paths it comes to     *)
(* write (a main.yml, a secrets.yml), as many rounds as there are files.   *)
Counted(c, nodes, user) ==
    FoldSet(LAMBDA f, theirs :
                {g \in theirs : g.file \in {"main", "secrets"} =>
                                    <<g.where, g.file>> \notin Paths(FilesOf(Laid(c, nodes, theirs).layout, c))},
            user, user)

(* cassandra_import_self_check: with the files about to be written and the *)
(* user's, each node read gets what it has.                                *)
Gets(c, n, k, files) ==
    LET read == Reads(files, Chain(c, n))
    IN  IF k \in Given(read) THEN Rendered(Winner(read, Chain(c, n), k).vars[k], n.name) ELSE ValueOf(Defaults, k)

Has(n, k) == IF k = "dc" THEN <<"is", n.dc>> ELSE IF k = "rack" THEN <<"is", n.rack>> ELSE LiveOf(n, k)

SelfChecked(c, nodes, files) ==
    \A n \in ReadOnes(nodes) : \A k \in (DOMAIN Defaults \cup DOMAIN n.vars) \ NotRead :
        Gets(c, n, k, files) = Has(n, k)
=============================================================================
