----------------------------- MODULE ResetPaths ------------------------------
(* Which directories a reset empties (cassandra_node_reset.py): those the    *)
(* inventory and the node's own cassandra.yaml name, checked as they are     *)
(* written, then where they really are once links are resolved.             *)
(*                                                                          *)
(* A path is the sequence of its names from the root.  Of the system's trees *)
(* and directories, a few stand for all; hints and saved_caches are looked   *)
(* at as the commit log is.                                                  *)
EXTENDS Integers, Sequences, SequencesExt

StorageDir  == <<"var", "lib", "cassandra">>
SystemTrees == {<<"etc">>, <<"usr">>}
SystemDirs  == {<<"home">>, <<"srv">>, <<"var">>, <<"var", "lib">>}

Under(path, top) == IsPrefix(top, path)

\* An empty path, the root, a home, another program's state, a path that holds a
\* mount point or what the reset must not touch: never emptied.
PathRefused(path, mounts, protected) ==
    \/ path = <<>>
    \/ \E i \in DOMAIN path : path[i] \in {".", ".."}
    \/ \E tree \in SystemTrees : Under(path, tree)
    \/ path \in SystemDirs \cup {StorageDir}
    \/ Len(path) = 1 /\ path \notin mounts
    \/ Len(path) > 2 /\ Under(path, <<"var", "lib">>) /\ path[3] # "cassandra"
    \/ Len(path) = 2 /\ path[1] = "home"
    \/ \E m \in mounts : m # path /\ Under(m, path)
    \/ \E p \in protected : Under(p, path)

\* The keys of cassandra.yaml, what each holds, and the directory a missing one
\* stands for (the change-data log's only when it is on).
LiveKeys == [data_file_directories            |-> "data",
             local_system_data_file_directory |-> "data",
             commitlog_directory              |-> "commitlog",
             cdc_raw_directory                |-> "cdc_raw"]

HasDefault(key, cdc) == CASE key = "local_system_data_file_directory" -> FALSE
                          [] key = "cdc_raw_directory" -> cdc
                          [] OTHER -> TRUE

DirsOf(key, yaml) ==
    IF yaml.dirs[key] = {} /\ HasDefault(key, yaml.cdc)
    THEN {Append(StorageDir, LiveKeys[key])} ELSE yaml.dirs[key]

LiveDirs(yaml) == UNION {{LiveKeys[key]} \X DirsOf(key, yaml) : key \in DOMAIN LiveKeys}

\* [dirs, refused]: the directories to empty, and whether none may be.
\* inventory: {<<kind, path>>}; yaml: {} or {what the node's own file says}.
ListedDirs(inventory, yaml, mounts, protected) ==
    LET found == inventory \cup UNION {LiveDirs(y) : y \in yaml}
        kept  == {f \in found : ~PathRefused(f[2], mounts, protected)}
        paths == {f[2] : f \in kept}
    IN  [dirs    |-> {[path |-> p, kinds |-> {f[1] : f \in {g \in kept : g[2] = p}}] : p \in paths},
         refused |-> kept # found \/ \E p, q \in paths : p # q /\ Under(p, q)]

\* Where a path really is: links maps a link to where it leads.
RealPath(path, links) ==
    IF \E l \in DOMAIN links : Under(path, l)
    THEN LET l == CHOOSE l \in DOMAIN links : Under(path, l)
         IN  links[l] \o SubSeq(path, Len(l) + 1, Len(path))
    ELSE path

\* The same checks there, a link (or a path below one) looked at again, and no
\* directory inside another that was not so as written.
RealDirs(listed, links, mounts, protected) ==
    LET real == {[path |-> d.path, kinds |-> d.kinds, real |-> RealPath(d.path, links)] : d \in listed.dirs}
    IN  [dirs    |-> real,
         refused |-> \/ listed.refused
                     \/ \E d \in real : d.real # d.path /\ PathRefused(d.real, mounts, protected)
                     \/ \E a, b \in real : a # b /\ Under(b.real, a.real) /\ ~Under(b.path, a.path)]

\* What is found in the directories, right below each of them, but a new file
\* system's lost+found; and the files each of these entries holds.
EntriesOf(dirs, files) ==
    UNION {{SubSeq(f, 1, Len(d.real) + 1) :
               f \in {g \in files : /\ Under(g, d.real) /\ Len(g) > Len(d.real)
                                    /\ g[Len(d.real) + 1] # "lost+found"}} : d \in dirs}

Below(entries, files) == {f \in files : \E e \in entries : Under(f, e)}
=============================================================================
