-------------------------- MODULE InventoryImport --------------------------
(***************************************************************************)
(* playbooks/import_cluster.yml, "Write the inventory": what was read on   *)
(* the nodes becomes files of the inventory directory, which holds other   *)
(* clusters' and the user's own too.  An import works out the layout       *)
(* (InventoryLayout) and which files there are its own                     *)
(* (cassandra_inventory_leftovers), stops on a conflict before anything is *)
(* written, then removes the files it no longer writes and writes the      *)
(* others one at a time; it may be interrupted between two of them, and    *)
(* run again after the nodes or the user's files changed.                  *)
(***************************************************************************)
EXTENDS InventoryLayout

CONSTANTS
    Cluster,        \* its group
    Nodes,          \* the records of its nodes, without vars and keep
    Lives,          \* bound: name -> vars, the settings the nodes go through
    LeftAsIs,       \* keep of a node read, of one not read ([TRUE |-> .., FALSE |-> ..])
    YourFiles,      \* bound: the variables files the user writes
    Earlier,        \* the directory before: records [files, hosts]
    Login,          \* the CQL login: the variables, their value once typed
    MaxChanges,     \* bound: changes of the nodes or of the user's files
    MaxImports,     \* bound: imports started
    MaxUnread,      \* bound: nodes of the ring that do not answer
    Adopt           \* import_cluster_adopt

VARIABLES
    live,       \* name -> what the node has
    ring,       \* the names of the nodes in the ring
    files,      \* the variables files of the directory
    hosts,      \* its inventory files: [name, mark, groups, hosts]
    kept,       \* the files kept as <file>.<date>~
    todo,       \* what the import under way has left to do
    found,      \* what the last import was told of, NotYet before
    changes, imports

vars == <<live, ring, files, hosts, kept, todo, found, changes, imports>>

NotYet == [done |-> FALSE]

Yours == "yours"    \* a file without the import's first line
Old   == "old"      \* laid out as an import's, without its first line (old_import)
Unnamed == "unnamed"    \* a first line that names no cluster

-----------------------------------------------------------------------------
(* cassandra_import_nodes: the ring's nodes, the ones read with their      *)
(* variables, all with what is left as it is on them.                      *)
Entries(read, login) ==
    {[name |-> n.name, dc |-> n.dc, rack |-> n.rack, read |-> n.name \in read,
      vars |-> IF n.name \in read THEN Over(login, live[n.name]) ELSE <<>>,
      keep |-> LeftAsIs[n.name \in read]] : n \in {m \in Nodes : m.name \in ring}}

(* cassandra_inventory_own_values: the login an earlier import wrote.      *)
OwnLogin ==
    LET own == {f \in files : f.where = <<"group", Cluster>> /\ f.file \in {"main", "secrets"} /\ f.mark = Cluster}
    IN  [k \in {key \in DOMAIN Login : \E f \in own : key \in DOMAIN f.vars} |->
            (CHOOSE f \in own : k \in DOMAIN f.vars).vars[k]]

(* cassandra_inventory_user_files: the user's that apply to its hosts.     *)
UserFiles(nodes) ==
    {f \in files : f.mark = Yours /\ f.where \in {All} \cup DOMAIN Layout(Cluster, nodes)}

(* The hosts file it writes, marked NOT VALID when the self-check failed.  *)
HostsFile(nodes, valid) ==
    [name |-> Cluster, mark |-> Cluster, valid |-> valid,
     groups |-> UNION {{Chain(Cluster, n)[i] : i \in 2 .. 4} : n \in nodes},
     hosts |-> {Host(n.name) : n \in nodes}]

-----------------------------------------------------------------------------
(* cassandra_inventory_leftovers                                           *)

(* The clusters' hosts files: the imports' and, edited by hand, one that   *)
(* holds this cluster's group alone.                                       *)
OfCluster(h) == IF h.mark \in {Unnamed, Yours} THEN h.name ELSE h.mark

ClustersOf(all) ==
    {h \in all : h.mark # Yours \/ (h.name = Cluster /\ \A g \in h.groups : g[2] = Cluster)}

Clusters == ClustersOf(hosts)

OthersOf(all) == {h \in ClustersOf(all) : OfCluster(h) # Cluster}
OtherHosts == OthersOf(hosts)

Named(where, h) == where \in h.groups \cup h.hosts

NamedBy(where) == {OfCluster(h) : h \in {g \in Clusters : Named(where, g)}}

Nobody == "nobody"      \* written by an import, for a cluster not known

(* Mutant: a file of an import is this cluster's where it writes.          *)
OwnerWhereWritten(f, written) ==
    IF f.mark = Yours THEN Yours
    ELSE IF Named(f.where, written) THEN Cluster
    ELSE f.mark

(* Whose a variables file is: the user's, a cluster's, not known.          *)
OwnerOf(f, written) ==
    LET by == NamedBy(f.where)
        new == Named(f.where, written)
    IN  IF f.mark \notin {Old, Unnamed} THEN f.mark
        ELSE IF by = {} /\ new /\ (f.mark = Old \/ Adopt) THEN Cluster
        ELSE IF \E c \in by : by = {c} THEN CHOOSE c \in by : TRUE
        ELSE Nobody

(* Why it would write over another cluster's, or share hosts or groups.    *)
Conflict(plan, written) ==
    \/ \E f \in files : /\ <<f.where, f.file>> \in Paths(plan)
                        /\ OwnerOf(f, written) \notin {Yours, Cluster}
    \/ \E h \in hosts : h.name = Cluster /\ h.mark \notin {Yours, Unnamed, Cluster}
    \/ \E h \in OtherHosts : h.groups \cap written.groups # {} \/ h.hosts \cap written.hosts # {}
    \/ \E h \in hosts \ Clusters : h.groups \cap written.groups # {}
    \/ \E f \in files : /\ f.where = <<"group", Cluster>> /\ f.file = "main"
                        /\ f.mark \in {Cluster, Yours, Old, Unnamed}
                        /\ ValueOf(f.vars, "name") \notin {Missing, <<"is", Cluster>>}

(* An earlier import's of this cluster, that this one does not write.      *)
Stale(plan, written) ==
    {f \in files : /\ <<f.where, f.file>> \notin Paths(plan)
                   /\ f.file \in {"main", "secrets"}
                   /\ OwnerOf(f, written) = Cluster}

(* Not known as the import's by their first line: kept as <file>.<date>~.  *)
BackedUp(f) == f.mark \in {Yours, Old} \/ (Adopt /\ f.mark = Unnamed)

(* An earlier import of this cluster shared no group or host with another. *)
Shares(f, all) == \E h \in OthersOf(all) : Named(f.where, h)

HostsFileNames(h) == (\A g \in h.groups : g[1] = "group") /\ \A x \in h.hosts : x[1] = "host"

ASSUME ImportAssumption ==
    /\ Cluster \notin {Yours, Old, Unnamed, Nobody}
    /\ \A f \in YourFiles : f.mark = Yours
    /\ \A e \in Earlier :
         /\ \A f \in e.files : f.mark = Cluster => ~Shares(f, e.hosts)
         /\ \A h \in e.hosts : HostsFileNames(h)

-----------------------------------------------------------------------------
NothingLeft == [under |-> FALSE]
Idle == ~todo.under

Init ==
    /\ ring = {n.name : n \in Nodes}
    /\ live \in Lives
    /\ \E e \in Earlier : files = e.files /\ hosts = e.hosts
    /\ kept = {}
    /\ todo = NothingLeft
    /\ found = NotYet
    /\ changes = 0
    /\ imports = 0

(* The user adds, edits or removes a file of theirs.                       *)
YouEdit ==
    /\ Idle
    /\ changes < MaxChanges
    /\ \/ \E f \in YourFiles : files' = {g \in files : <<g.where, g.file>> # <<f.where, f.file>>} \cup {f}
       \/ \E f \in {g \in files : g.mark = Yours} : files' = files \ {f}
    /\ files' # files
    /\ found' = NotYet
    /\ changes' = changes + 1
    /\ UNCHANGED <<live, ring, hosts, kept, todo, imports>>

(* A node's settings change, or it leaves the ring.                        *)
NodesChange ==
    /\ Idle
    /\ changes < MaxChanges
    /\ \/ live' \in Lives /\ live' # live /\ ring' = ring
       \/ \E name \in ring : ring' = ring \ {name} /\ ring' # {} /\ live' = live
    /\ found' = NotYet
    /\ changes' = changes + 1
    /\ UNCHANGED <<files, hosts, kept, todo, imports>>

(* Mutant: the hosts file is written again when it says the same.          *)
WorkHostsAgain(plan, written, told) ==
    [under |-> TRUE, remove |-> Stale(plan, written), hosts |-> {written}, write |-> plan \ files, told |-> told]

(* The files already there as they would be written are left alone.        *)
Work(plan, written, told) ==
    [under |-> TRUE, remove |-> Stale(plan, written), hosts |-> {written} \ hosts, write |-> plan \ files,
     told |-> told]

(* The login of the run: typed when an earlier import left none, else its. *)
LoginOf(typed) ==
    IF typed THEN Login ELSE IF DOMAIN OwnLogin = DOMAIN Login THEN OwnLogin ELSE <<>>

(* The import reads the nodes (some may not answer), lays out over the     *)
(* user's files, and stops on a conflict.                                  *)
Import ==
    /\ Idle
    /\ imports < MaxImports
    /\ \E read \in SUBSET ring \ {{}}, typed \in BOOLEAN :
        /\ Cardinality(ring \ read) <= MaxUnread
        /\ typed => DOMAIN OwnLogin # DOMAIN Login
        /\ \E nodes \in {Entries(read, LoginOf(typed))} :
           \E user \in {Counted(Cluster, nodes, UserFiles(nodes))} :
           \E laid \in {Laid(Cluster, nodes, user)} :
           \E plan \in {FilesOf(laid.layout, Cluster)} :
           \E valid \in {read = ring /\ SelfChecked(Cluster, nodes, user \cup plan)} :
           \E written \in {HostsFile(nodes, valid)} :
              /\ ~Conflict(plan, written)
              /\ todo' = Work(plan, written, [done |-> TRUE, nodes |-> nodes, theirsWin |-> laid.theirsWin,
                                              notCompared |-> laid.notCompared])
    /\ found' = NotYet
    /\ imports' = imports + 1
    /\ UNCHANGED <<live, ring, files, hosts, kept, changes>>

(* The files in turn, in some order: those to remove, the hosts file, the  *)
(* others.                                                                 *)
Remove ==
    /\ ~Idle /\ todo.remove # {}
    /\ LET f == CHOOSE x \in todo.remove : TRUE
       IN  /\ files' = files \ {f}
           /\ kept' = IF BackedUp(f) THEN kept \cup {f} ELSE kept
           /\ todo' = [todo EXCEPT !.remove = @ \ {f}]
    /\ UNCHANGED <<live, ring, hosts, found, changes, imports>>

WriteHosts ==
    /\ ~Idle /\ todo.remove = {} /\ todo.hosts # {}
    /\ hosts' = {h \in hosts : h.name # Cluster} \cup todo.hosts
    /\ todo' = [todo EXCEPT !.hosts = {}]
    /\ UNCHANGED <<live, ring, files, kept, found, changes, imports>>

WriteVars ==
    /\ ~Idle /\ todo.remove = {} /\ todo.hosts = {} /\ todo.write # {}
    /\ LET f == CHOOSE x \in todo.write : TRUE
           there == {g \in files : <<g.where, g.file>> = <<f.where, f.file>>}
       IN  /\ files' = (files \ there) \cup {f}
           /\ kept' = kept \cup {g \in there : BackedUp(g)}
           /\ todo' = [todo EXCEPT !.write = @ \ {f}]
    /\ UNCHANGED <<live, ring, hosts, found, changes, imports>>

AllWritten == todo.remove = {} /\ todo.hosts = {} /\ todo.write = {}

End ==
    /\ ~Idle /\ AllWritten
    /\ found' = todo.told
    /\ todo' = NothingLeft
    /\ UNCHANGED <<live, ring, files, hosts, kept, changes, imports>>

(* The run is interrupted (^C, a full disk).                               *)
Interrupted ==
    /\ ~Idle
    /\ todo' = NothingLeft
    /\ UNCHANGED <<live, ring, files, hosts, kept, found, changes, imports>>

Next == YouEdit \/ NodesChange \/ Import \/ Remove \/ WriteHosts \/ WriteVars \/ End \/ Interrupted

Spec == Init /\ [][Next]_vars
-----------------------------------------------------------------------------
Settings(n) == (DOMAIN Defaults \cup DOMAIN n.vars) \ Place

(* After an import every node that was read gets each setting as it has it *)
(* from the directory, whoever wrote its files (a default not written, a   *)
(* value at any level, one left to a file of the user's); or the import    *)
(* said that a file of the user's still wins, or that it could not compare *)
(* the setting, and, where its self-check looks, the hosts file says NOT   *)
(* VALID.                                                                  *)
Valid == \E h \in hosts : h.name = Cluster /\ h.valid

AsFound ==
    found.done =>
        \A n \in ReadOnes(found.nodes) : \A k \in {s \in Settings(n) : ReadOn(n, s)} :
            Gets(Cluster, n, k, files) # LiveOf(n, k) =>
                /\ k \in found.notCompared \/ <<n.name, k>> \in found.theirsWin
                /\ k \in NotRead \/ ~Valid

(* "Each node gets its live value" (guide_roles.rst), its DC and its rack  *)
(* too: the ring's.                                                        *)
RingPlace ==
    found.done =>
        \A n \in ReadOnes(found.nodes), k \in Place : Gets(Cluster, n, k, files) = Has(n, k)

(* Imported again with nothing changed, nothing is written or removed.     *)
ReimportQuiet ==
    [][found.done /\ ~Idle' /\ todo'.told.nodes = found.nodes => AllWritten']_vars

(* No import writes over, or removes, a file that says it is another       *)
(* cluster's, or that the hosts file of another cluster names, nor that    *)
(* hosts file.                                                             *)
OfOthers(f) ==
    \/ f.mark \notin {Yours, Old, Unnamed, Cluster}
    \/ f.mark # Yours /\ \E h \in OtherHosts : Named(f.where, h)

OthersKept ==
    [][~Idle => OtherHosts \subseteq hosts' /\ {f \in files : OfOthers(f)} \subseteq files']_vars
=============================================================================
