------------------------------ MODULE NodeReset ------------------------------
(* The reset of hosts, which empties their Cassandra directories for a fresh *)
(* start (reset_node.yml, reset_node_plan.yml, cassandra_node_reset.py), in   *)
(* the runs that call it: reset_node, add_node (a new node that holds data), *)
(* replace_node (a host that replaces itself) and create_cluster (every host *)
(* of a cluster).  A run reads the hosts and the rings, waits for the         *)
(* operator's answer, then stops, disables, looks again and deletes; it may   *)
(* be cut short at any step, and hosts may change while it waits.            *)
EXTENDS NewHost

CONSTANTS
    Targets,     \* the hosts named in cassandra_target_nodes
    Members,     \* nodes of the cluster that stay up, its other hosts
    Profiles,    \* name -> what a target may be like at first
    Kinds,       \* "reset", "add", "replace", "cluster"
    ClusterKeyspaces,
    MaxChanges, MaxRuns

VARIABLES
    host,        \* target -> the name of its profile: what no run changes
    files,       \* target -> the paths of its files, Cassandra's or not
    links,       \* target -> its links
    jvm,         \* target -> "down", "unit" (the cassandra unit's), "hand"
    boot,        \* target -> the unit starts at boot
    inRing,      \* target -> the ring its data is of: "none", "joining", "main", "other"
    mark,        \* target -> the mark of a bootstrap add_node started there
    kind, explicit, ghost,  \* the run's, -e cassandra_add_node_reset=true; a down node no host has
    pc, plan, refused, replaced, cut, waited, changes, runs

hosts == <<files, links, jvm, boot, inRing, mark>>
fixed == <<host, kind, explicit, ghost>>
vars  == <<hosts, fixed, pc, plan, refused, replaced, cut, waited, changes, runs>>

Now(t) == <<t, "now">>   \* the address the inventory gives
Old(t) == <<t, "old">>   \* one it had
Ghost  == <<"ghost", "now">>
None   == <<"none", "now">>

At(t) == Profiles[host[t]]

\* The links of a target, as they are and as they may become.
LinksOf(p) == {p.links} \cup p.relinks

\* The directories a run lists on a target of that profile, where links lead.
DirsBy(p, l) ==
    LET yaml == IF p.unread THEN {} ELSE p.yaml
    IN  RealDirs(ListedDirs(p.inventory, yaml, p.mounted, p.protected), l, p.mounted, p.protected)

\* A member of another ring has the peers Cassandra keeps of it, and the name of
\* another cluster.
OtherMember(p) ==
    /\ {y.cluster : y \in IF p.unread THEN {} ELSE p.yaml} # {"main"}
    /\ \A l \in LinksOf(p) : \E d \in DirsBy(p, l).dirs :
           "data" \in d.kinds /\ d.real \o <<"system", "peers">> \in p.files

\* The names in a path, those the role and Cassandra use by name.
Names == STRING \cup {"var", "lib", "cassandra", "data", "commitlog", "cdc_raw", "system", "local"}

\* What a target may be; that the checks of the paths refuse those that hold what
\* is not Cassandra's.
TargetOk(p) ==
    /\ {"inventory", "mounted", "atBoot", "links", "files"} \subseteq DOMAIN p
    /\ p.inventory \subseteq STRING \X Seq(Names)
    /\ p.mounted \cup p.atBoot \subseteq Seq(Names) /\ <<>> \in p.mounted
    /\ \A y \in p.yaml : \A key \in DOMAIN LiveKeys : y.dirs[key] \subseteq Seq(Names)
    /\ \A l \in LinksOf(p) : \A x \in DOMAIN l : x \in Seq(Names) /\ l[x] \in Seq(Names)
    /\ p.files \subseteq Seq(Names)
    /\ p.jvm \in {"down", "unit", "hand"} /\ p.boot \in BOOLEAN /\ p.mark \in BOOLEAN
    /\ p.inRing \in {"none", "joining", "main", "other"} /\ p.under \in {"now", "old"}
    /\ p.inRing = "other" => OtherMember(p)
    /\ \A l \in LinksOf(p) : ~DirsBy(p, l).refused => EntriesOf(DirsBy(p, l).dirs, p.others) = {}

HostsAssumption ==
    /\ IsFiniteSet(Targets) /\ IsFiniteSet(Members) /\ Targets \cap Members = {}
    /\ (Targets \cup Members) \cap {"ghost", "none", "foreign"} = {}
    /\ Kinds \subseteq {"reset", "add", "replace", "cluster"}
    /\ \A name \in DOMAIN Profiles : TargetOk(Profiles[name])

Nothing == [real |-> {}, delete |-> {}, stop |-> FALSE, disable |-> FALSE]

Init ==
    /\ host \in [Targets -> DOMAIN Profiles]
    /\ files  = [t \in Targets |-> At(t).files]
    /\ links  = [t \in Targets |-> At(t).links]
    /\ jvm    = [t \in Targets |-> At(t).jvm]
    /\ boot   = [t \in Targets |-> At(t).boot]
    /\ inRing = [t \in Targets |-> At(t).inRing]
    /\ mark   = [t \in Targets |-> At(t).mark]
    /\ kind \in Kinds /\ explicit \in BOOLEAN /\ ghost \in BOOLEAN
    /\ pc = "idle" /\ plan = [t \in Targets |-> Nothing] /\ refused = {} /\ replaced = None
    /\ cut = [t \in Targets |-> FALSE] /\ waited = 0 /\ changes = 0 /\ runs = 0

-----------------------------------------------------------------------------
(* The rings.  In the cluster's, a node just started may not be seen by all. *)

AddrOf(t) == <<t, At(t).under>>
Mine(t)   == {Now(t)} \cup IF At(t).told THEN {Old(t)} ELSE {}
Others    == IF kind = "cluster" THEN {} ELSE Members

Entry(t) == [addr |-> AddrOf(t), id |-> t, up |-> jvm[t] # "down"]
MainRing ==
    {[addr |-> <<m, "now">>, id |-> m, up |-> TRUE] : m \in Others}
    \cup {Entry(t) : t \in {u \in Targets : inRing[u] \in {"joining", "main"}}}
    \cup IF ghost THEN {[addr |-> Ghost, id |-> "ghost", up |-> FALSE]} ELSE {}

\* What a target's own nodetool status shows.
OwnRing(t) ==
    CASE inRing[t] \in {"joining", "main"} -> MainRing
      [] inRing[t] = "other" -> {Entry(t), [addr |-> <<"foreign", "now">>, id |-> "foreign", up |-> TRUE]}
      [] OTHER -> {Entry(t)}

Known == {Now(t) : t \in Targets} \cup {<<m, "now">> : m \in Others}
Up    == {t \in Targets : jvm[t] # "down"}

\* The member the first checks ask.
First == CHOOSE m \in Members : TRUE

\* What a run is given, and what it reads of the others: the hosts it is for, the
\* address replace_node replaces, the members that answer as up and normal, the
\* running targets whose nodetool answers, those a member does not see yet,
\* whether the keyspaces are read.
Named    == IF kind = "replace" THEN {{t} : t \in Targets} ELSE {Targets}
Replaces == IF kind = "replace" THEN {Ghost} \cup {Now(t) : t \in Targets} ELSE {None}
Readings == [named : Named, replaced : Replaces, usable : SUBSET Others, own : SUBSET Up,
             blind : [Others -> SUBSET {t \in Up : inRing[t] = "joining"}],
             keyspaces : IF kind = "add" THEN BOOLEAN ELSE {TRUE}]
RingSeenBy(m, r) == {n \in MainRing : n.id \notin r.blind[m]}

-----------------------------------------------------------------------------
(* What the host holds.                                                      *)

\* replace_node's and add_node's checks look at the host as this record.
View(t) == [At(t) EXCEPT !.files = files[t], !.links = links[t], !.running = jvm[t] # "down"]

Yaml(t) == IF At(t).unread THEN {} ELSE At(t).yaml
Listed(t) == ListedDirs(At(t).inventory, Yaml(t), At(t).mounted, At(t).protected)

\* What a run finds in the directories of a target.
FoundIn(t, real, entries) ==
    LET data == {d.real : d \in {e \in real.dirs : "data" \in e.kinds}}
    IN  [target  |-> t,
         dirs    |-> {<<d.path, d.real>> : d \in real.dirs},
         refused |-> real.refused \/ At(t).unread,
         delete  |-> entries,
         users   |-> {Last(e) : e \in {f \in entries : Front(f) \in data}} \ {"system"},
         peers   |-> \E d \in data : d \o <<"system", "peers">> \in files[t]]
FoundAt(t, real) == FoundIn(t, real, EntriesOf(real.dirs, files[t]))
Found(t) == FoundAt(t, RealDirs(Listed(t), links[t], At(t).mounted, At(t).protected))

\* The cluster its cassandra.yaml is of.
OfCluster(t) == {y.cluster : y \in Yaml(t)}

-----------------------------------------------------------------------------
(* cassandra_node_reset_ring                                                *)

\* Mutant: a node that runs and does not answer is not refused.
OwnRefusedAnswered(t, r) ==
    t \in r.own /\ Cardinality(OwnRing(t)) > 1 /\ \E n \in OwnRing(t) : n.addr \notin Mine(t)

OwnRefused(t, r) ==
    /\ jvm[t] # "down"
    /\ \/ t \notin r.own
       \/ Cardinality(OwnRing(t)) > 1 /\ \E n \in OwnRing(t) : n.addr \notin Mine(t)

\* An entry with an address or the host ID of the host: refused, but for the dead
\* node it replaces; a down node no host of the inventory has may be it.
SeenRefused(t, held, n, ownIds, dead) ==
    IF n.addr \in Mine(t) \/ n.id \in ownIds
    THEN n.addr # dead \/ n.up
    ELSE held /\ ~n.up /\ n.addr \notin Known /\ n.addr # dead

RingRefused(t, held, r) ==
    LET ownIds == IF t \in r.own THEN {n.id : n \in {o \in OwnRing(t) : o.addr \in Mine(t)}} ELSE {}
    IN  \/ OwnRefused(t, r)
        \/ r.usable = {}
        \/ \E m \in r.usable : \E n \in RingSeenBy(m, r) : SeenRefused(t, held, n, ownIds, r.replaced)

\* cassandra_add_node_reset_check, of a host that holds data: only what can't be
\* of value, or a failed bootstrap's; a former member on the operator's word.
AddRefused(t, f, r) ==
    LET ours == OfCluster(t) = {"main"}
    IN  \/ jvm[t] # "down"
        \/ RingRefused(t, TRUE, r)
        \/ OfCluster(t) \notin {{"main"}, {"stock"}}
        \/ f.peers /\ ~ours
        \/ f.users # {} /\ (~ours \/ ~r.keyspaces \/ ~(f.users \subseteq ClusterKeyspaces))
        \/ ours /\ f.users # {} /\ ~mark[t] /\ ~explicit

\* cassandra_cluster_reset_check: the group is the whole ring, and nothing else
\* runs in it; then, of each host, that its data is of that ring.
ClusterRefused(r) ==
    LET answered == Up \cap r.own
        seen(t)  == {n.addr : n \in OwnRing(t)}
    IN  \/ answered = {} \/ answered # Up
        \/ \E t \in answered : ~(seen(t) \subseteq Known)
        \/ \E t, u \in answered : seen(t) # seen(u)
        \/ \E t \in Up : \A u \in answered : Mine(t) \cap seen(u) = {}

OtherCluster(t) == ~(OfCluster(t) \subseteq {"main", "stock"})

\* Of add_node's, a host without data has nothing to reset.
Refused(t, f, r) ==
    CASE kind = "add"     -> IF f.delete # {} THEN f.refused \/ AddRefused(t, f, r) ELSE At(t).unread
      [] kind = "cluster" -> \/ f.refused \/ OtherCluster(t) \/ jvm[t] = "hand"
                             \/ f.delete # {} /\ \A u \in Up : Mine(t) \cap {n.addr : n \in OwnRing(u)} = {}
      [] OTHER            -> f.refused \/ OtherCluster(t) \/ jvm[t] = "hand" \/ RingRefused(t, f.delete # {}, r)

PlanOf(t, f) == [real    |-> f.dirs,
                 delete  |-> f.delete,
                 stop    |-> kind # "add" /\ jvm[t] # "down",
                 disable |-> boot[t] /\ (kind # "add" \/ f.delete # {})]

\* The first checks of add_node and replace_node: the hosts they are given are
\* fit for a new node, and not in the ring (add_node leaves alone one that has
\* joined or is joining), or the dead node's.
InRing(t, m, r) == \E n \in RingSeenBy(m, r) : n.addr = Now(t)
FirstChecks(m, r) ==
    CASE kind = "add" ->
           \A t \in Targets : IF InRing(t, m, r) THEN jvm[t] # "down" /\ AddrOf(t) = Now(t) /\ inRing[t] # "none"
                              ELSE ~NewNodeProblem(View(t), TRUE, FALSE)
      [] kind = "replace" ->
           /\ \E n \in RingSeenBy(m, r) : n.addr = r.replaced /\ ~n.up
           /\ \A t \in r.named : ~NewNodeProblem(View(t), TRUE, TRUE)
      [] OTHER -> TRUE

\* reset_node_plan.yml, of every host before any of them changes.
Answered(r, fit, found, no) ==
    /\ replaced' = r.replaced
    /\ refused' = IF r.usable = Others /\ r.own = Up /\ r.keyspaces /\ fit THEN no ELSE {}
    /\ IF ~fit \/ no # {} \/ (kind = "cluster" /\ ClusterRefused(r))
       THEN pc' = "idle" /\ plan' = [t \in Targets |-> Nothing]
       ELSE /\ pc' = "asked"
            /\ plan' = [t \in Targets |-> IF \E f \in found : f.target = t
                                          THEN PlanOf(t, CHOOSE f \in found : f.target = t) ELSE Nothing]

Plan ==
    /\ pc = "idle" /\ runs < MaxRuns
    /\ runs' = runs + 1 /\ waited' = 0
    /\ \E found \in {{Found(t) : t \in Targets}}, r \in Readings :
         \E new \in {{f \in found : f.target \in r.named /\ (kind = "add" => ~InRing(f.target, First, r))}} :
           Answered(r, kind = "cluster" \/ FirstChecks(First, r), new,
                    {f.target : f \in {g \in new : Refused(g.target, g, r)}})
    /\ UNCHANGED <<hosts, fixed, cut, changes>>

\* A task of the play on every host it is for: on some of them only when the run
\* fails or is stopped there.
OnEach(todo, next, Effect(_)) ==
    \E done \in SUBSET todo :
        /\ Effect(done)
        /\ pc' = IF done = todo THEN next ELSE "idle"

Stop ==
    /\ pc = "asked"
    /\ LET Down(done) == jvm' = [t \in Targets |-> IF t \in done /\ jvm[t] = "unit" THEN "down" ELSE jvm[t]]
       IN  OnEach({t \in Targets : plan[t].stop}, "stopped", Down)
    /\ UNCHANGED <<files, links, boot, inRing, mark, fixed, plan, refused, replaced, cut, waited, changes, runs>>

\* Mutant: the mark of a failed bootstrap goes before its files.
DisableUnmarks ==
    /\ pc = "stopped"
    /\ LET Off(done) == /\ boot' = [t \in Targets |-> boot[t] /\ t \notin done]
                        /\ mark' = [t \in Targets |-> mark[t] /\ plan[t].delete = {}]
       IN  OnEach({t \in Targets : plan[t].disable}, "disabled", Off)
    /\ UNCHANGED <<files, links, jvm, inRing, fixed, plan, refused, replaced, cut, waited, changes, runs>>

Disable ==
    /\ pc = "stopped"
    /\ LET Off(done) == boot' = [t \in Targets |-> boot[t] /\ t \notin done]
       IN  OnEach({t \in Targets : plan[t].disable}, "disabled", Off)
    /\ UNCHANGED <<files, links, jvm, inRing, mark, fixed, plan, refused, replaced, cut, waited, changes, runs>>

\* Nothing runs any more and the directories are where they were: then the
\* entries listed are deleted, those of one host in the order of their names.
StillThere(t) == plan[t].delete = {} \/ plan[t].real = {<<d.path, RealPath(d.path, links[t])>> : d \in Listed(t).dirs}

\* Of add_node's, a host with nothing to reset is not looked at again.
Resets(t) == plan[t] # Nothing /\ (kind = "add" => plan[t].delete # {} \/ plan[t].disable)

Empty ==
    /\ pc = "disabled"
    /\ IF \E t \in Targets : Resets(t) /\ (jvm[t] # "down" \/ ~StillThere(t))
       THEN pc' = "idle" /\ UNCHANGED <<files, cut>>
       ELSE \E gone \in [Targets -> UNION {SUBSET plan[t].delete : t \in Targets}] :
              /\ \A t \in Targets : gone[t] \subseteq plan[t].delete
              /\ files' = [t \in Targets |-> files[t] \ Below(gone[t], files[t])]
              /\ cut' = [t \in Targets |-> gone[t] # plan[t].delete /\ (gone[t] # {} \/ cut[t])]
              /\ pc' = IF \A t \in Targets : gone[t] = plan[t].delete THEN "emptied" ELSE "idle"
    /\ UNCHANGED <<links, jvm, boot, inRing, mark, fixed, plan, refused, replaced, waited, changes, runs>>

\* The mark goes, then the run goes on: add_node and replace_node start the hosts
\* (add_node with a new mark), one whose bootstrap is over loses it again.
Unmark ==
    /\ pc = "emptied"
    /\ mark' = [t \in Targets |-> mark[t] /\ plan[t].delete = {}]
    /\ pc' = IF kind \in {"add", "replace"} THEN "start" ELSE "idle"
    /\ UNCHANGED <<files, links, jvm, boot, inRing, fixed, plan, refused, replaced, cut, waited, changes, runs>>

FilesOfNew(t) == {RealPath(d[2], links[t]) \o <<"system", "local">> : d \in {x \in At(t).inventory : x[1] = "data"}}

Start ==
    /\ pc = "start"
    /\ \E t \in {u \in Targets : plan[u] # Nothing} :
         /\ jvm' = [jvm EXCEPT ![t] = "unit"] /\ boot' = [boot EXCEPT ![t] = TRUE]
         /\ inRing' = [inRing EXCEPT ![t] = "joining"]
         /\ files' = [files EXCEPT ![t] = @ \cup FilesOfNew(t)]
         /\ mark' = [mark EXCEPT ![t] = @ \/ kind = "add"]
         /\ plan' = [plan EXCEPT ![t] = Nothing]
    /\ UNCHANGED <<links, fixed, pc, refused, replaced, cut, waited, changes, runs>>

Stopped == pc # "idle" /\ pc' = "idle" /\ UNCHANGED <<hosts, fixed, plan, refused, replaced, cut, waited, changes, runs>>

-----------------------------------------------------------------------------
(* What else happens to a host: while a run waits, once at most.             *)

Changes(t) ==
    /\ changes < MaxChanges /\ changes' = changes + 1
    /\ IF pc = "idle" THEN waited' = waited ELSE waited = 0 /\ waited' = 1
    /\ cut' = [cut EXCEPT ![t] = FALSE]
    /\ UNCHANGED <<fixed, pc, plan, refused, replaced, runs>>

\* Cassandra starts (an operator, a reboot): it joins the cluster its
\* cassandra.yaml is of, or comes back in the ring it is in.
Starts(t) ==
    /\ jvm[t] = "down" /\ At(t).yaml # {}
    /\ jvm' = [jvm EXCEPT ![t] = "unit"]
    /\ inRing' = [inRing EXCEPT ![t] = IF @ = "none" /\ OfCluster(t) = {"main"} THEN "joining" ELSE @]
    /\ files' = [files EXCEPT ![t] = @ \cup FilesOfNew(t)]
    /\ Changes(t) /\ UNCHANGED <<links, boot, mark>>

\* A bootstrap that fails leaves no trace in the ring.
GoesDown(t) ==
    /\ jvm[t] # "down"
    /\ jvm' = [jvm EXCEPT ![t] = "down"]
    /\ inRing' = [inRing EXCEPT ![t] = IF @ = "joining" THEN "none" ELSE @]
    /\ Changes(t) /\ UNCHANGED <<files, links, boot, mark>>

Joins(t) ==
    /\ inRing[t] = "joining" /\ jvm[t] # "down"
    /\ inRing' = [inRing EXCEPT ![t] = "main"]
    /\ mark' = [mark EXCEPT ![t] = FALSE]
    /\ Changes(t) /\ UNCHANGED <<files, links, jvm, boot>>

\* A link is made to lead elsewhere than what the run has listed.
Relinked(t) ==
    /\ pc # "idle"
    /\ \E new \in At(t).relinks \ {links[t]} : links' = [links EXCEPT ![t] = new]
    /\ Changes(t) /\ UNCHANGED <<files, jvm, boot, inRing, mark>>

Run == Plan \/ Stop \/ Disable \/ Empty \/ Unmark \/ Start \/ Stopped
Next == Run \/ \E t \in Targets : Starts(t) \/ GoesDown(t) \/ Joins(t) \/ Relinked(t)

Spec == Init /\ [][Next]_vars

-----------------------------------------------------------------------------
Loses(t) == \E f \in files[t] : f \notin files'[t]

\* In which case what a host holds may go.
MayGo(t) ==
    CASE inRing[t] = "none"  -> kind = "add" => Found(t).users = {} \/ mark[t] \/ explicit
      [] inRing[t] \in {"joining", "main"} -> IF kind = "cluster" THEN ~ghost /\ Up = {}
                                ELSE kind = "replace" /\ replaced = AddrOf(t)
      [] inRing[t] = "other" -> kind # "add" /\ OfCluster(t) # {"other"}
      [] OTHER -> FALSE

\* "Never reset a live member": whatever the run read of the rings, and whoever
\* started the host since, a host loses files only when no Cassandra runs there nor
\* would after a reboot, and its data is of no ring that goes on without it:
\* neither of this cluster (but the dead node it replaces itself, or the whole of a
\* cluster that is down) nor of another one; add_node's takes no keyspace but a
\* failed bootstrap's, or on the operator's word.  What goes is in its directories
\* where they are by then, and nothing that is not Cassandra's: its configuration,
\* another program's files, another file system.
MembersKept ==
    [][\A t \in Targets : Loses(t) =>
           /\ jvm[t] = "down" /\ ~boot[t] /\ MayGo(t)
           /\ files[t] \ files'[t] \subseteq Below(Found(t).delete, files[t]) \ At(t).others]_vars

\* A directory refused as it is written is not looked at: add_node sees no data in
\* it, and refuses no host for it alone (README, known deviations).
NotLookedAt(t, path) == kind = "add" /\ PathRefused(path, At(t).mounted, At(t).protected)

\* A host nobody changed while the run waited starts as a new node with nothing in
\* its directories, each on the file system it is on after a reboot: add_node's
\* refused directories, which nothing looks at, may still hold something (NotLookedAt).
StartsClean ==
    [][pc = "start" /\ waited = 0 => \A t \in Targets : jvm[t] # jvm'[t] /\ jvm'[t] = "unit" /\ plan[t] # Nothing =>
           \A d \in At(t).inventory :
               LET real == RealPath(d[2], links[t]) IN
               /\ HeldIn(View(t), d[2]) = {} \/ NotLookedAt(t, d[2])
               /\ MountOf(real, At(t).mounted) = MountOf(real, At(t).mounted \cup At(t).atBoot)]_vars

\* A host a run was emptying when it stopped is not refused by the next one, which
\* reads all it asks for.
CanGoOn == kind # "cluster" => \A t \in refused : ~cut[t]
=============================================================================
