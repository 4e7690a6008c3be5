--------------------------- MODULE FilePermissions ---------------------------
(* Owner, group and mode on a node (cassandra_permissions.py): of the files   *)
(* cassandra_config writes and of Cassandra's directories, as an import reads *)
(* them (cassandra_permissions_import), as the role sets them, and whether    *)
(* the account Cassandra runs as can use them (account_check.yml).            *)
(*                                                                           *)
(* A mode gives the owner, the group and the others their bits; an account or *)
(* group by its name and by its number is the same one.                      *)
EXTENDS Naturals, FiniteSets, TLC

CONSTANTS
    Yaml, JvmOptions,   \* the files cassandra_config_mode is for
    PublicFiles,        \* its other config files
    JmxFiles,           \* the JMX users', written when it sets these
    Dirs, SystemDirs,   \* data, commit log, saved caches, hints; some mistyped
    Perms,              \* what a file or directory may have: [owner, group, mode]
    DirPerms,
    Accounts,           \* what Cassandra may run as: [user, group]
    OtherGroups,        \* user -> the other groups it is in
    Edits,              \* settings an operator may give the inventory
    Missing, Unread,
    MaxImports, MaxEdits

Bits == {"r", "w", "x"}
Mode(o, g, w) == [owner |-> o, group |-> g, other |-> w]
M0644 == Mode({"r", "w"}, {"r"}, {"r"})
M0640 == Mode({"r", "w"}, {"r"}, {})
M0400 == Mode({"r"}, {}, {})
M0750 == Mode(Bits, {"r", "x"}, {})

Closed      == {Yaml} \cup JvmOptions          \* restricted
ConfigFiles == Closed \cup PublicFiles
AllFiles    == ConfigFiles \cup JmxFiles
Keys        == {"owner", "group", "mode"}

\* Owner, group, mode and nothing else.  No mode gives the others what it does
\* not give the group: _usable knows the account's own group only, and takes the
\* others' bits for an account that is in the directory's group otherwise.
Whole(p) == /\ p = [k \in Keys |-> p[k]]
            /\ p.mode = Mode(p.mode.owner, p.mode.group, p.mode.other)
PermsAssumption ==
    /\ \A p \in Perms \cup DirPerms : Whole(p)
    /\ \A p \in DirPerms : p.mode.other \subseteq p.mode.group

VARIABLES
    perm, dir,  \* file, directory -> what it has on the node, or Missing
    unit,       \* the account Cassandra's unit runs it as
    unitKept,   \* the unit stays as it is (cassandra_service_unit_manage: false)
    jmx,        \* the inventory gives the JMX users
    inv,        \* the variables of the inventory
    imported,   \* what an import read, until the inventory is edited
    unread,     \* the files it could not read
    told,       \* the files whose changes its report announced
    plan,       \* the directories the role is to change
    pc, imports, edits

vars == <<perm, dir, unit, unitKept, jmx, inv, imported, unread, told, plan, pc, imports, edits>>

-----------------------------------------------------------------------------
(* Who may do what with a file, as the kernel decides.                       *)
Class(user, groups, p) ==
    CASE p.owner = user -> "owner" [] p.owner # user /\ p.group \in groups -> "group" [] OTHER -> "other"
May(user, groups, p, bits) == user = "root" \/ bits \subseteq p.mode[Class(user, groups, p)]

\* The account the JVM gets: Group= takes the place of the user's primary group.
Jvm       == IF unitKept THEN unit ELSE [user |-> inv.user, group |-> inv.userGroup]
Groups(a) == {a.group} \cup OtherGroups[a.user]

-----------------------------------------------------------------------------
(* cassandra_file_permissions                                                *)
RoleDefaults ==
    [user |-> "cassandra", userGroup |-> "cassandra", owner |-> "root", group |-> "cassandra",
     mode |-> M0640, public |-> M0644, files |-> <<>>]

Base(name, s) ==
    IF name \in JmxFiles THEN [owner |-> s.user, group |-> s.userGroup, mode |-> M0400]
    ELSE [owner |-> s.owner, group |-> s.group, mode |-> IF name \in Closed THEN s.mode ELSE s.public]
Wanted(name, s) ==
    [k \in Keys |-> IF <<name, k>> \in DOMAIN s.files THEN s.files[<<name, k>>] ELSE Base(name, s)[k]]

-----------------------------------------------------------------------------
(* cassandra_permissions_import.  read: file -> what it has, Missing, Unread; *)
(* known: the account Cassandra runs as was read.                             *)

\* The value most of the files have; of several, a preferred one.
Common(read, names, key, preferred) ==
    LET count(v) == Cardinality({n \in names : read[n][key] = v})
        values   == {read[n][key] : n \in names}
        most     == {v \in values : \A w \in values : count(w) <= count(v)}
    IN  CHOOSE v \in most : preferred \cap most # {} => v \in preferred

ThereIn(read) == {n \in DOMAIN read : read[n] \notin {Missing, Unread}}

AccountSettings(known) ==
    IF known THEN [RoleDefaults EXCEPT !.user = unit.user, !.userGroup = unit.group, !.group = unit.group]
    ELSE RoleDefaults

CommonSettings(read, known) ==
    LET config == ThereIn(read) \cap ConfigFiles
        yaml(key) == {read[n][key] : n \in config \cap {Yaml}}
        of(names, key, preferred, default) ==
            IF names = {} THEN default ELSE Common(read, names, key, preferred)
    IN  [AccountSettings(known) EXCEPT
            !.owner  = of(config, "owner", yaml("owner"), @),
            !.group  = of(config, "group", yaml("group"), @),
            !.mode   = of(config \cap Closed, "mode", yaml("mode"), @),
            !.public = of(config \ Closed, "mode", {M0644}, @)]

\* Mutant: the JMX users' files are taken to have the owner and mode they get.
SettingsReadConfig(read, known) ==
    LET common == CommonSettings(read, known)
        differ == {d \in (ThereIn(read) \cap ConfigFiles) \X Keys : read[d[1]][d[2]] # Wanted(d[1], common)[d[2]]}
    IN  [common EXCEPT !.files = [d \in differ |-> read[d[1]][d[2]]]]

SettingsRead(read, known) ==
    LET common == CommonSettings(read, known)
        differ == {d \in ThereIn(read) \X Keys : read[d[1]][d[2]] # Wanted(d[1], common)[d[2]]}
    IN  [common EXCEPT !.files = [d \in differ |-> read[d[1]][d[2]]]]

\* permission_differences: what the import's self-check announces.
Differences(wanted, read) ==
    {n \in DOMAIN read : \/ read[n] = Unread
                         \/ n \in ThereIn(read) /\ read[n] # Wanted(n, wanted)}

-----------------------------------------------------------------------------
Init ==
    /\ perm \in [AllFiles -> Perms \cup {Missing}]
    /\ dir \in [Dirs -> DirPerms \cup {Missing}]
    /\ unit \in Accounts /\ unitKept = FALSE /\ jmx = FALSE
    /\ inv = RoleDefaults /\ plan = {} /\ pc = "idle" /\ imports = 0 /\ edits = 0
    /\ imported = "no" /\ unread = {} /\ told = {}

\* The playbook import_cluster.  Each file and the account may not be read; the
\* command that reads them all may fail, and then nothing is said of it.
Import ==
    /\ pc = "idle" /\ imports < MaxImports /\ imports' = imports + 1
    /\ \E all, users, known, role \in BOOLEAN, lost \in {{}} \cup {{n} : n \in AllFiles} :
         LET read == [n \in IF all THEN ConfigFiles \cup (IF users THEN JmxFiles ELSE {}) ELSE {}
                       |-> IF n \in lost THEN Unread ELSE perm[n]]
         IN  /\ inv' = SettingsRead(read, known)
             /\ unread' = {n \in DOMAIN read : read[n] = Unread}
             /\ told' = Differences(inv', read)
             /\ imported' = IF ~all THEN "nothing" ELSE IF known THEN "all" ELSE "files"
             /\ jmx' = users /\ unitKept' = ~role
    /\ UNCHANGED <<perm, dir, unit, plan, pc, edits>>

\* cassandra_unreadable_config, as account_check.yml calls it: by the account's
\* names and numbers, its group and its other groups.
Unreadable ==
    IF Jvm.user = "root" THEN {}
    ELSE {n \in ConfigFiles :
            LET p == Wanted(n, inv)
            IN  "r" \notin CASE p.owner = Jvm.user -> p.mode.owner
                             [] p.owner # Jvm.user /\ p.group \in Groups(Jvm) -> p.mode.group
                             [] OTHER -> p.mode.other}

AccountCheck ==
    /\ pc = "idle" /\ Unreadable = {} /\ pc' = "look"
    /\ UNCHANGED <<perm, dir, unit, unitKept, jmx, inv, imported, unread, told, plan, imports, edits>>

\* Mutant: any bit that lets the account in counts.
UsableAny(p, user, group) ==
    \/ user = "root"
    \/ p.owner = user /\ p.mode.owner = Bits
    \/ p.group = group /\ p.mode.group = Bits
    \/ p.mode.other = Bits

\* _usable: by the owner's bits for the owner, else the group's for its group.
Usable(p, user, group) ==
    \/ user = "root"
    \/ Bits = IF p.owner = user THEN p.mode.owner ELSE IF p.group = group THEN p.mode.group ELSE p.mode.other

Given == [user |-> inv.user, group |-> inv.userGroup]

\* cassandra_dir_permission_changes, the ones found tried as the account
\* (config_read.py): its other groups count then.
LookAtDirs ==
    /\ pc = "look" /\ pc' = "write"
    /\ plan' = {d \in Dirs \ SystemDirs :
                  /\ dir[d] # Missing
                  /\ ~Usable(dir[d], inv.user, inv.userGroup)
                  /\ ~May(inv.user, Groups(Given), dir[d], Bits)}
    /\ UNCHANGED <<perm, dir, unit, unitKept, jmx, inv, imported, unread, told, imports, edits>>

\* The role's tasks: its config files, those it leaves as they are included, then
\* the missing directories, the ones to change, the JMX users' files.
Task(step, next) == pc = step /\ pc' = next
Rest == <<unit, unitKept, jmx, inv, imported, unread, told, plan, imports, edits>>

WriteFiles ==
    /\ Task("write", "create")
    /\ perm' = [n \in AllFiles |-> IF n \in ConfigFiles THEN Wanted(n, inv) ELSE perm[n]]
    /\ UNCHANGED <<dir, Rest>>

CreateDirs ==
    /\ Task("create", "give")
    /\ dir' = [d \in Dirs |-> IF dir[d] # Missing THEN dir[d]
                              ELSE [owner |-> inv.user, group |-> inv.userGroup, mode |-> M0750]]
    /\ UNCHANGED <<perm, Rest>>

GiveDirs ==
    /\ Task("give", "jmx")
    /\ dir' = [d \in Dirs |-> IF d \notin plan THEN dir[d]
                              ELSE [owner |-> inv.user, group |-> inv.userGroup,
                                    mode |-> [dir[d].mode EXCEPT !.owner = Bits]]]
    /\ UNCHANGED <<perm, Rest>>

WriteJmx ==
    /\ Task("jmx", "service")
    /\ perm' = [n \in AllFiles |-> IF jmx /\ n \in JmxFiles THEN Wanted(n, inv) ELSE perm[n]]
    /\ UNCHANGED <<dir, Rest>>

Stopped ==
    /\ pc # "idle" /\ pc' = "idle"
    /\ UNCHANGED <<perm, dir, Rest>>

\* cassandra_service writes its unit and starts Cassandra.
Starts ==
    /\ pc = "service" /\ Unreadable = {}
    /\ unit' = Jvm /\ pc' = "started"
    /\ UNCHANGED <<perm, dir, unitKept, jmx, inv, imported, unread, told, plan, imports, edits>>

\* The operator changes the inventory (the node, before: its initial states).
Edit ==
    /\ pc = "idle" /\ edits < MaxEdits /\ edits' = edits + 1
    /\ imported' = "no" /\ unread' = {} /\ told' = {}
    /\ \E e \in Edits : inv' = e @@ inv
    /\ UNCHANGED <<perm, dir, unit, unitKept, jmx, plan, pc, imports>>

Role == AccountCheck \/ LookAtDirs \/ WriteFiles \/ CreateDirs \/ GiveDirs \/ WriteJmx \/ Starts

Next == Import \/ Role \/ Stopped \/ Edit

Spec == Init /\ [][Next]_vars

-----------------------------------------------------------------------------
\* An imported node stays as it is: while nobody edits the inventory, the role
\* changes the owner, group or mode of no file that was there but one the import
\* could not read, which its report announced, and of no directory but one the
\* account Cassandra runs as cannot use.
KeptAsFound ==
    [][/\ imported \in {"all", "files"} => \A n \in AllFiles :
             perm'[n] # perm[n] => perm[n] = Missing \/ n \in unread \cap told
       /\ imported = "all" => \A d \in Dirs :
             dir'[d] # dir[d] => dir[d] = Missing \/ ~May(unit.user, Groups(unit), dir[d], Bits)]_vars

\* What the role starts can read each of its config files and use each directory
\* (under the account of the inventory).  Left out: the JMX users' files, which no
\* check looks at.
AccountCanUse ==
    pc = "started" =>
        /\ \A n \in ConfigFiles : May(unit.user, Groups(unit), perm[n], {"r"})
        /\ \A d \in Dirs \ SystemDirs : unit = Given =>
              May(unit.user, Groups(unit), dir[d], Bits)

=============================================================================
