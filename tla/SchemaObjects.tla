--------------------------- MODULE SchemaObjects ---------------------------
(***************************************************************************)
(* The tasks of cassandra_keyspace, cassandra_table and cassandra_role:    *)
(* each reads the schema, works out the statements that lead to what is    *)
(* asked, and executes them one after the other; any of them may fail,     *)
(* having been applied or not, and the task is then run again.             *)
(*                                                                         *)
(* `cluster` is the one object the tasks are about.  The two permissions   *)
(* of Perms stand for the six of a keyspace.                               *)
(***************************************************************************)
EXTENDS Naturals, FiniteSets

CONSTANTS
  Perms,         \* what "ALL PERMISSIONS" stands for
  Keyspaces,     \* the keyspaces permissions are on
  Groups,        \* roles that may be granted to the role
  GroupHolds,    \* their permissions: sets of <<resource, permission>>
  Objects,       \* the objects a sequence of tasks may start from
  Asks           \* what a task may ask

All == "ALL PERMISSIONS"
AllKeyspaces == "all_keyspaces"
Resources == Keyspaces \cup {AllKeyspaces}

ASSUME PermsAssumption == IsFiniteSet(Perms) /\ All \notin Perms /\ AllKeyspaces \notin Keyspaces
ASSUME GroupsAssumption == GroupHolds \in [Groups -> SUBSET (Resources \X Perms)] /\ "itself" \notin Groups
\* What is read of an object, by its kind; a replication is of any type.
ASSUME ObjectsAssumption ==
  \A o \in Objects :
    /\ o.kind = "keyspace" =>
         o \in [kind : {"keyspace"}, exists : BOOLEAN, durable : BOOLEAN, network : BOOLEAN,
                rf : {o.rf}]
    /\ o.kind = "table" => o \in [kind : {"table"}, exists : BOOLEAN]
    /\ o.kind = "role" =>
         o \in [kind : {"role"}, exists : BOOLEAN, super : BOOLEAN, login : BOOLEAN,
                held : SUBSET (Resources \X Perms), member : SUBSET Groups]
\* The options of the three modules, by the kind of the object.
ASSUME AsksAssumption ==
  \A a \in Asks :
    /\ a.kind \in {"keyspace", "table", "role"} /\ a.state \in {"present", "absent"}
    /\ a.kind = "keyspace" => {a.durable, a.dcsGiven} \subseteq BOOLEAN
    /\ a.kind = "table" => a.isType \in BOOLEAN
    /\ a.kind = "role" =>
         /\ {a.login, a.super, a.updatePassword, a.permsGiven, a.rolesGiven} \subseteq BOOLEAN
         /\ a.permsGiven => /\ DOMAIN a.perms \subseteq Resources
                            /\ \A on \in DOMAIN a.perms : a.perms[on] \subseteq Perms \cup {All}
         /\ a.rolesGiven => a.roles \subseteq Groups

VARIABLES
  cluster,  \* the object
  start,    \* the object before the first task
  ask,      \* what every task of the sequence asks
  exec,     \* the running task
  prev      \* how the former task ended, and what it told

schemaVars == <<cluster, start, ask, exec, prev>>

Fresh(check) == [pc |-> "object", check |-> check, changed |-> FALSE, sent |-> FALSE,
                 revoke |-> {}, grant |-> {}, next |-> "done"]

SchemaInit ==
  /\ ask \in Asks
  /\ cluster \in Objects /\ cluster.kind = ask.kind
  /\ start = cluster
  /\ prev = [end |-> "none", check |-> FALSE, changed |-> FALSE]
  /\ \E check \in BOOLEAN : exec = Fresh(check)

-----------------------------------------------------------------------------
(* The statement about the object itself: whether there is one, whether it *)
(* is executed under check mode too, and what it makes of the object.      *)

Nothing == [run |-> FALSE, inCheck |-> FALSE, fails |-> FALSE, to |-> cluster]
Run(to) == [Nothing EXCEPT !.run = TRUE, !.to = to]
Refuse  == [Nothing EXCEPT !.fails = TRUE]

\* data_centres asks for NetworkTopologyStrategy, its absence for SimpleStrategy.
AskedKeyspace == [kind |-> "keyspace", exists |-> TRUE, durable |-> ask.durable,
                  network |-> ask.dcsGiven, rf |-> IF ask.dcsGiven THEN ask.dcs ELSE ask.rf]

\* The durable_writes read is always True: bool() of a non-empty text.  Under
\* SimpleStrategy only the replication factors are compared.
KeyspaceIsChanged ==
  \/ ~ask.durable
  \/ ~cluster.network /\ cluster.rf # ask.rf
  \/ cluster.network /\ ask.dcsGiven /\ cluster.rf # ask.dcs

\* The datacenters of a None are looked at.
KeyspaceUnread == cluster.network /\ ask.durable /\ ~ask.dcsGiven

KeyspacePlan ==
  IF ask.state = "absent"
  THEN IF cluster.exists THEN Run([cluster EXCEPT !.exists = FALSE]) ELSE Nothing
  ELSE IF ~cluster.exists THEN Run(AskedKeyspace)
  ELSE IF KeyspaceUnread THEN Refuse
  ELSE IF KeyspaceIsChanged THEN Run(AskedKeyspace) ELSE Nothing

\* Types are not looked for: one is created again, and never dropped.
TableExists == cluster.exists /\ ~ask.isType

TablePlan ==
  IF ask.state = "absent"
  THEN IF TableExists THEN Run([cluster EXCEPT !.exists = FALSE]) ELSE Nothing
  ELSE IF TableExists THEN Nothing ELSE Run([cluster EXCEPT !.exists = TRUE])

NoRole == [cluster EXCEPT !.exists = FALSE, !.super = FALSE, !.login = FALSE, !.held = {},
                          !.member = {}]

IsRoleChanged == cluster.super # ask.super \/ ~cluster.login \/ ask.updatePassword

LoginPlan ==
  IF ask.state = "absent"
  THEN IF cluster.exists THEN Run(NoRole) ELSE Nothing
  ELSE IF cluster.exists /\ ~IsRoleChanged THEN Nothing
  ELSE Run([cluster EXCEPT !.exists = TRUE, !.super = ask.super, !.login = TRUE])

\* A role without login is never altered, and is created and dropped under
\* check mode too (super_user counts only there).
RoleOnlyPlan ==
  IF ask.state = "absent"
  THEN IF cluster.exists THEN [Run(NoRole) EXCEPT !.inCheck = TRUE] ELSE Nothing
  ELSE IF cluster.exists THEN Nothing
  ELSE [Run([cluster EXCEPT !.exists = TRUE, !.super = exec.check /\ ask.super])
        EXCEPT !.inCheck = TRUE]

Plan == CASE ask.kind = "keyspace" -> KeyspacePlan
          [] ask.kind = "table"    -> TablePlan
          [] ask.kind = "role"     -> IF ask.login THEN LoginPlan ELSE RoleOnlyPlan

AfterObject == IF ask.kind = "role" /\ ask.state = "present" THEN "perms" ELSE "done"

-----------------------------------------------------------------------------
(* The permissions and the groups of a role.                               *)

\* LIST ALL OF: the permissions of the role and those of its groups.
RowsOf == {[role |-> "itself", on |-> h[1], perm |-> h[2]] : h \in cluster.held}
            \cup UNION {{[role |-> g, on |-> h[1], perm |-> h[2]] : h \in GroupHolds[g]}
                        : g \in cluster.member}
OwnRows == {row \in RowsOf : row.role = "itself"}

\* Whoever holds it; "ALL PERMISSIONS" is as many rows as there are permissions.
DoesRoleHavePermission(perm, on) ==
  IF perm = All THEN Cardinality({row \in RowsOf : row.on = on}) = Cardinality(Perms)
  ELSE \E row \in RowsOf : row.on = on /\ row.perm = perm

AskedOn == DOMAIN ask.perms

PermissionGrants ==
  IF ~ask.permsGiven THEN {}
  ELSE {g \in Resources \X (Perms \cup {All}) :
          g[1] \in AskedOn /\ g[2] \in ask.perms[g[1]] /\ ~DoesRoleHavePermission(g[2], g[1])}

PermissionRevokesAsked ==               \* mutant: keyspaces that are not asked are kept
  {<<AllKeyspaces, All>> : row \in {r \in OwnRows : /\ r.on = AllKeyspaces
                                                    /\ ask.permsGiven /\ AskedOn # {}
                                                    /\ AllKeyspaces \notin AskedOn}}
  \cup {<<row.on, row.perm>> : row \in {r \in OwnRows :
          /\ r.on # AllKeyspaces
          /\ ask.permsGiven /\ r.on \in AskedOn
          /\ r.perm \notin ask.perms[r.on] /\ All \notin ask.perms[r.on]}}

PermissionRevokes ==
  {<<AllKeyspaces, All>> : row \in {r \in OwnRows : /\ r.on = AllKeyspaces
                                                    /\ ask.permsGiven /\ AskedOn # {}
                                                    /\ AllKeyspaces \notin AskedOn}}
  \cup {<<row.on, row.perm>> : row \in {r \in OwnRows :
          /\ r.on # AllKeyspaces
          /\ ask.permsGiven /\ r.on \in AskedOn =>
               r.perm \notin ask.perms[r.on] /\ All \notin ask.perms[r.on]}}

\* An empty dictionary reaches a name that is not bound yet.
PermissionsUnbound == ask.permsGiven /\ AskedOn = {} /\ \E r \in OwnRows : r.on # AllKeyspaces

Named(st) == {st[1]} \X (IF st[2] = All THEN Perms ELSE {st[2]})

\* The groups are taken from the permission rows: one that holds none is not seen.
CurrentRoles == {row.role : row \in RowsOf} \ {"itself"}

-----------------------------------------------------------------------------
Ends(end) ==
  /\ exec' = [exec EXCEPT !.pc = end]
  /\ UNCHANGED prev

\* No driver, no connection, a login refused: nothing is read.
CannotConnect ==
  /\ exec.pc = "object"
  /\ Ends("failed")
  /\ UNCHANGED <<cluster, start, ask>>

SchemaReadFails ==
  /\ exec.pc = "object"
  /\ Plan.fails
  /\ Ends("failed")
  /\ UNCHANGED <<cluster, start, ask>>

NoStatement ==
  /\ exec.pc = "object"
  /\ ~Plan.fails
  /\ ~Plan.run \/ (exec.check /\ ~Plan.inCheck)
  /\ exec' = [exec EXCEPT !.pc = AfterObject, !.changed = Plan.run]
  /\ UNCHANGED <<cluster, start, ask, prev>>

\* CREATE, ALTER or DROP; a type that exists is not created again.
Statement ==
  /\ exec.pc = "object"
  /\ ~Plan.fails /\ Plan.run
  /\ ~exec.check \/ Plan.inCheck
  /\ \/ /\ cluster' = Plan.to
        /\ ~(ask.kind = "table" /\ ask.isType /\ cluster.exists)
        /\ exec' = [exec EXCEPT !.pc = AfterObject, !.changed = TRUE, !.sent = TRUE]
     \/ /\ cluster' \in {cluster, Plan.to}
        /\ exec' = [exec EXCEPT !.pc = "failed", !.sent = TRUE]
  /\ UNCHANGED <<start, ask, prev>>

Todo(revoke, grant, next) ==
  exec' = IF exec.check
          THEN [exec EXCEPT !.pc = next, !.changed = @ \/ revoke \cup grant # {}]
          ELSE [exec EXCEPT !.pc = "send", !.revoke = revoke, !.grant = grant, !.next = next,
                            !.changed = @ \/ revoke \cup grant # {}]

BuildRolePermissions ==
  /\ exec.pc = "perms"
  /\ IF PermissionsUnbound THEN Ends("failed")
     ELSE /\ Todo(PermissionRevokes, PermissionGrants, "roles")
          /\ UNCHANGED prev
  /\ UNCHANGED <<cluster, start, ask>>

BuildRoleGrants ==
  /\ exec.pc = "roles"
  /\ IF ask.rolesGiven
     THEN Todo(CurrentRoles \ ask.roles, ask.roles \ CurrentRoles, "done")
     ELSE Todo({}, {}, "done")
  /\ UNCHANGED <<cluster, start, ask, prev>>

Revoked(st) == IF exec.next = "roles" THEN [cluster EXCEPT !.held = @ \ Named(st)]
                                      ELSE [cluster EXCEPT !.member = @ \ {st}]
Granted(st) == IF exec.next = "roles" THEN [cluster EXCEPT !.held = @ \cup Named(st)]
                                      ELSE [cluster EXCEPT !.member = @ \cup {st}]

\* The statements of a set come in any order, the revokes first.
Revoke ==
  /\ exec.pc = "send"
  /\ \E st \in exec.revoke :
       \/ /\ cluster' = Revoked(st)
          /\ exec' = [exec EXCEPT !.revoke = @ \ {st}, !.sent = TRUE]
       \/ /\ cluster' \in {cluster, Revoked(st)}
          /\ exec' = [exec EXCEPT !.pc = "failed", !.sent = TRUE]
  /\ UNCHANGED <<start, ask, prev>>

\* Cassandra refuses to grant a group to a role that has it.
Grant ==
  /\ exec.pc = "send"
  /\ exec.revoke = {}
  /\ \E st \in exec.grant :
       \/ /\ exec.next = "done" => st \notin cluster.member
          /\ cluster' = Granted(st)
          /\ exec' = [exec EXCEPT !.grant = @ \ {st}, !.sent = TRUE]
       \/ /\ cluster' \in {cluster, Granted(st)}
          /\ exec' = [exec EXCEPT !.pc = "failed", !.sent = TRUE]
  /\ UNCHANGED <<start, ask, prev>>

Sent ==
  /\ exec.pc = "send"
  /\ exec.revoke = {} /\ exec.grant = {}
  /\ exec' = [exec EXCEPT !.pc = exec.next]
  /\ UNCHANGED <<cluster, start, ask, prev>>

\* The same task again, after one that ended well or failed.
RunAgain ==
  /\ exec.pc \in {"done", "failed"}
  /\ prev.end = "none"
  /\ prev' = [end |-> exec.pc, check |-> exec.check, changed |-> exec.changed]
  /\ exec' = Fresh(FALSE)
  /\ UNCHANGED <<cluster, start, ask>>

SchemaNext ==
  \/ CannotConnect \/ SchemaReadFails \/ NoStatement \/ Statement
  \/ BuildRolePermissions \/ BuildRoleGrants
  \/ Revoke \/ Grant \/ Sent
  \/ RunAgain

SchemaSpec == SchemaInit /\ [][SchemaNext]_schemaVars

-----------------------------------------------------------------------------
Statements == (Resources \X (Perms \cup {All})) \cup Groups

\* The task, its statements and the object are of their types.
SchemaTypeOK ==
  /\ ask \in Asks /\ start \in Objects
  /\ exec \in [pc : {"object", "perms", "roles", "send", "done", "failed"}, check : BOOLEAN,
               changed : BOOLEAN, sent : BOOLEAN, revoke : SUBSET Statements,
               grant : SUBSET Statements, next : {"roles", "done"}]
  /\ prev \in [end : {"none", "done", "failed"}, check : BOOLEAN, changed : BOOLEAN]
  /\ cluster.kind = ask.kind /\ cluster.exists \in BOOLEAN
  /\ cluster.kind = "role" => /\ cluster.held \in SUBSET (Resources \X Perms)
                              /\ cluster.member \in SUBSET Groups

Succeeded == exec.pc = "done" /\ ~exec.check

\* After a task that really ran and succeeded, whatever failed before it, the
\* object is there or not as asked, a keyspace with the replication and durable
\* writes asked, a role with its login and superuser.  Left out, as the code does
\* not do them: a keyspace that was there under another strategy than asked, or
\* without the durable writes asked; types; roles without login that exist.
ObjectAsAsked ==
  Succeeded =>
    CASE ask.kind = "table" /\ ~ask.isType -> cluster.exists <=> ask.state = "present"
      [] ask.kind = "keyspace" ->
           IF ask.state = "absent" THEN ~cluster.exists
           ELSE \/ start.exists /\ start.network # ask.dcsGiven
                \/ start.exists /\ ask.durable /\ ~start.durable
                \/ cluster = AskedKeyspace
      [] ask.kind = "role" ->
           /\ cluster.exists <=> ask.state = "present"
           /\ cluster.exists /\ ask.login => cluster.login /\ cluster.super = ask.super
      [] OTHER -> TRUE

AskedPerms(on) == IF ~ask.permsGiven \/ on \notin AskedOn THEN {}
                  ELSE IF All \in ask.perms[on] THEN Perms ELSE ask.perms[on]
HeldOn(c, on) == {p \in Perms : <<on, p>> \in c.held}

\* After a task of a role that belongs to no group, whatever failed before it, the
\* role holds on each keyspace what was asked and nothing else, and on all
\* keyspaces at least that; it holds nothing there when another resource only was
\* asked.
PermissionsAsAsked ==
  Succeeded /\ ask.kind = "role" /\ ask.state = "present" /\ start.member = {} =>
    /\ \A ks \in Keyspaces : HeldOn(cluster, ks) = AskedPerms(ks)
    /\ AskedPerms(AllKeyspaces) \subseteq HeldOn(cluster, AllKeyspaces)
    /\ ask.permsGiven /\ AskedOn # {} /\ AllKeyspaces \notin AskedOn
         => HeldOn(cluster, AllKeyspaces) = {}

\* A task that succeeded did what was asked: of the object and, for a role, of its
\* permissions.
EndsAsAsked == ObjectAsAsked /\ PermissionsAsAsked

\* The same task after one that succeeded sends no statement and tells no change:
\* left out a password update, durable writes asked off and types (compared with
\* nothing that is read), roles with groups that inherit or are not seen.
SecondRunQuiet ==
  /\ Succeeded /\ prev.end = "done" /\ ~prev.check
  /\ ask.kind = "keyspace" => ask.state = "absent" \/ ask.durable
  /\ ask.kind = "role" => ~ask.updatePassword /\ start.member = {} /\ ~ask.rolesGiven
  /\ ask.kind = "table" => ~ask.isType
  => ~exec.sent /\ ~exec.changed

\* What a task is asked for is done, and done once.
ObjectsAsAskedOnce == EndsAsAsked /\ SecondRunQuiet

\* The roles option, of a task that succeeded: the groups of the role are those
\* asked, none for an empty list.  The code sees only the groups that hold a
\* permission.
RolesAsAsked ==
  Succeeded /\ ask.kind = "role" /\ ask.state = "present" /\ ask.rolesGiven =>
    cluster.member = ask.roles
=============================================================================
