------------------------------ MODULE MCOneNode ------------------------------
(* What the collection does on one node, for TLC: a task of a nodetool module
   (NodetoolTasks), the poll of nodetool status by a health check (StatusPoll),
   the roles' record of the configuration a node started with (ConfigPending) or
   the tasks on a keyspace, a table or a role (SchemaObjects: two permissions,
   two keyspaces, a group that holds a permission and one that holds none).
   They share nothing: a behaviour is of one of them, the others stay at one of
   their initial states. *)
EXTENDS NodetoolTasks, SchemaObjects

CONSTANTS Addresses, NodeCodes, Poll, DownExpected, Yaml, OtherFiles, Unit, MaxVersion

VARIABLES
    part,       \* whose behaviour it is
    ring, iterations, clusterStatus, rc, pc,
    running, disk, seeds, loaded, liveSeeds, written, record, recorded, step, confBefore, slips

Status  == INSTANCE StatusPoll
Pending == INSTANCE ConfigPending WITH pc <- step, before <- confBefore

ASSUME StatusAssumption  == Status!PollAssumption
ASSUME PendingAssumption == Pending!FilesAssumption

Parts == {"task", "status", "pending", "schema"}

statusVars  == <<ring, iterations, clusterStatus, rc, pc>>
pendingVars == <<running, disk, seeds, loaded, liveSeeds, written, record, recorded, step, confBefore, slips>>
allVars     == <<part, vars, statusVars, pendingVars, schemaVars>>

(* One initial state of each for the parts that stay.                       *)
NoTaskRuns == task = [NoTask EXCEPT !.mod = Backup, !.asked = 0, !.pc = "next"] /\ setting = 0
AllUp      == ring = [a \in Addresses |-> "UN"]
NoTable    == /\ ask = [kind |-> "table", state |-> "present", isType |-> FALSE]
              /\ cluster = [kind |-> "table", exists |-> FALSE]
              /\ exec = Fresh(FALSE)

OneNodeInit ==
    /\ part \in Parts
    /\ part # "task" => NoTaskRuns
    /\ part # "status" => AllUp
    /\ part # "schema" => NoTable
    /\ Init /\ Status!Init /\ Pending!Init /\ SchemaInit

TaskRuns    == part = "task" /\ Next /\ UNCHANGED <<part, statusVars, pendingVars, schemaVars>>
StatusPolls == part = "status" /\ Status!Next /\ UNCHANGED <<part, vars, pendingVars, schemaVars>>
RolesRecord == part = "pending" /\ Pending!Next /\ UNCHANGED <<part, vars, statusVars, schemaVars>>
SchemaTasks == part = "schema" /\ SchemaNext /\ UNCHANGED <<part, vars, statusVars, pendingVars>>

OneNodeSpec == OneNodeInit /\ [][TaskRuns \/ StatusPolls \/ RolesRecord \/ SchemaTasks]_allVars

(* StatusPoll: a read is found healthy only when nodetool answered last.    *)
HealthyWhenAnswered == Status!HealthyWhenAnswered

(* ConfigPending: no change of a setting or of the seeds escapes the record.*)
SettingsTold == Pending!SettingsTold

(* ConfigPending: no node is restarted for nothing.                         *)
PendingIsReal == Pending!PendingIsReal

-----------------------------------------------------------------------------
(* The objects the tasks of SchemaObjects start from, and what they ask.    *)
MCPerms == {"SELECT", "MODIFY"}
MCKeyspaces == {"ks1", "ks2"}
MCGroups == {"readers", "empty"}
MCGroupHolds == [g \in MCGroups |-> IF g = "readers" THEN {<<"ks1", "SELECT">>} ELSE {}]

Replications == [{"dc1", "dc2"} -> 1..2] \cup [{"dc1"} -> 1..2]
KeyspaceObjects ==
  [kind : {"keyspace"}, exists : BOOLEAN, durable : BOOLEAN, network : {TRUE}, rf : Replications]
    \cup [kind : {"keyspace"}, exists : BOOLEAN, durable : BOOLEAN, network : {FALSE}, rf : 1..2]
KeyspaceAsks ==
  [kind : {"keyspace"}, state : {"present", "absent"}, durable : BOOLEAN, dcsGiven : BOOLEAN,
   dcs : Replications, rf : 1..2]

TableObjects == [kind : {"table"}, exists : BOOLEAN]
TableAsks == [kind : {"table"}, state : {"present", "absent"}, isType : BOOLEAN]

Held == {on1 \cup on2 \cup onAll :
           on1 \in SUBSET {<<"ks1", "SELECT">>, <<"ks1", "MODIFY">>},
           on2 \in {{}, {<<"ks2", "SELECT">>}},
           onAll \in {{}, {<<AllKeyspaces, "SELECT">>, <<AllKeyspaces, "MODIFY">>}}}
RoleObjects ==
  [kind : {"role"}, exists : {TRUE}, super : BOOLEAN, login : BOOLEAN, held : Held,
   member : {{}, {"readers"}, {"empty"}}]
    \cup [kind : {"role"}, exists : {FALSE}, super : {FALSE}, login : {FALSE}, held : {{}},
          member : {{}}]
PermsAsked == UNION {[on -> {{}, {"SELECT"}, {All}}] :
                       on \in SUBSET {"ks1", AllKeyspaces}}
                \cup {[on \in {"ks2"} |-> {"SELECT"}]}
\* The role itself, its permissions, its groups.
RoleAsks ==
  [kind : {"role"}, state : {"present", "absent"}, login : BOOLEAN, super : BOOLEAN,
   updatePassword : BOOLEAN, permsGiven : {FALSE}, perms : {<<>>}, rolesGiven : {FALSE},
   roles : {{}}]
  \cup [kind : {"role"}, state : {"present"}, login : {TRUE}, super : {FALSE},
        updatePassword : {FALSE}, permsGiven : {TRUE}, perms : PermsAsked, rolesGiven : BOOLEAN,
        roles : {{}, {"readers"}, {"readers", "empty"}}]

MCObjects == KeyspaceObjects \cup TableObjects \cup RoleObjects
MCAsks == KeyspaceAsks \cup TableAsks \cup RoleAsks
=============================================================================
