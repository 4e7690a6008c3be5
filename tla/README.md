# community.cassandra in TLA+

A model of the parts of this Ansible collection where an order of events, a
number at a boundary or a plan made from a reading can go wrong: the operations
that change nodes one after the other and the health check they rely on, the
runs of `topology`, the waits for what streams, the single-token rings, the
disks, the reset of hosts, the import of a cluster, and the modules that read before they write.
Each module says in its header which files it is translated from;
`PROJECT.json` maps every definition to its lines.

## The system

The collection is a set of playbooks run from one controller. A playbook runs
tasks on the nodes over SSH, one host at a time (`serial: 1`) or all at once,
and stops at the first failure (`any_errors_fatal`). Nothing survives between
two runs but what they leave on disk: progress files on the controller, records
on the nodes, the inventory, and the state of Cassandra itself.

| component | state it keeps | operations | hard behaviours | what makes it correct |
|---|---|---|---|---|
| rolling operations: `node_operation.yml`, `progress.yml`, `action_restart.yml`, `action_reboot.yml`, `wait_normal.yml`, `rolling_restart.yml`, `rolling_reboot.yml` | `<op>-<cluster>-<date>.done` on the controller, facts of the run | a new run, a resumed run, check, drain, restart or reboot, wait, check, record | the run stopped at any task, nodes that crash meanwhile, gossip seen late, a node left drained | one node out at a time, no node forgotten or repeated, a stopped run can be finished |
| health check: `cluster_health.yml`, `cassandra_health.py` | none | read the ring from two nodes, the node's own checks, the findings | two views that differ, a node expected down, a read that fails | no problem passes unseen but the expected ones |
| polls: `cassandra_status.py`, `cassandra_schema.py` | none | poll nodetool until no node is down / one schema version | nodetool fails, nodes flap between two polls | what is returned was read last, and waited for |
| pending configuration: `config_pending.yml`, `config_snapshot.yml`, `config_seed.yml`, `seeds_apply.yml`, `unit.yml`, `main.yml` | `.ansible_config_at_start.json` on each node | record at a start, before a first change, after a live change; compare | starts nobody recorded, runs stopped between write, start and record, edits by hand | a change that waits for a restart is told, one that does not is not |
| `apply_config` | the plan of a run, a progress file | plan (restart, start, write, nothing), write, restart, start | a node that stopped or started between the plan and its turn, a run stopped among the nodes written at once, a resumed run that plans again | what is on disk ends up running, a node stopped on purpose stays so |
| nodetool modules (32 of them) | Cassandra's | read, compare, one command, read again | a call that fails before or after its effect, somebody else's change between two calls, check mode | what is told is what was done; a second run does nothing |
| schema modules: keyspace, table, role | Cassandra's schema | read, work out the statements, send them one by one | a statement that fails halfway, permissions kept by groups, check mode | the object ends as asked, nothing asked is lost midway |
| `topology`, `add_node`, `decommission_node` | a mark of the bootstrap, the seeds, the inventory | plan from the ring, add, seeds, remove | a bootstrap stopped halfway, a run stopped anywhere, an inventory edited between two runs | no node leaves that the rest needs, no node joins without its data, the runs converge to the inventory |
| resets: `reset_node.yml`, `reset_node_plan.yml`, `cassandra_node_reset.py`, `new_node_checks.yml`, `cassandra_new_node.py` | the host's directories, the mark | look at the host and the rings, ask, stop, disable, look again, delete | a Cassandra started while the run waits, rings not read, links, a reset stopped halfway | nothing that counts is deleted, a new node starts with empty directories |
| streaming: `stream_wait.yml`, `cassandra_stream.py`, `remove_dead_node.yml` | what the wait remembers | follow, check, conclude; removenode and its force | answers lost, a JVM that stops, an operation begun by others, a run begun again over it | "done" is over, "stalled" has a cause, the wait ends, one removal at a time |
| tokens, moves, cleanup: `cassandra_tokens.py`, `move_node`, `cleanup` | a note of the cleanups due | compute tokens, move one node, clean up | a move that fails or goes on alone, its cleanup forgotten | no two nodes at one token, an even ring, cleanup after the move |
| disks: `disks.yml`, `cassandra_disks.py` | udev rules, a tuned profile, LVM's settings | find the devices, set them, make it last | tuned, LVM, boots and people that set them back | what a run says still holds at the next boot |
| import: `import_cluster.yml`, `cassandra_import.py` | the inventory directory | read the nodes, lay out, remove, write | nodes not read, the user's own files, an earlier import's, an interruption | a node gets what it has; a second import writes nothing |
| configuration files: `cassandra_config`, `cassandra_settings.py`, `cassandra_permissions.py` | the node's files, their owners and modes | compare, keep or render, own, give directories to the account | a file made by hand or another tool, Cassandra down at the comparison, an account changed, a newer release | an imported node stays as it is, Cassandra starts again |
| rack at once, upgrade, update_java, replace_node, change_seeds | progress files | phases over the nodes | mixed versions, partial changes | see the last section |
| everything else: install, repository, Linux, firewall, Medusa, output, lookups, callback | host state, text | | none | not modelled |

`PROJECT.json` lists every component with its files and, when it is not
modelled, the reason. It also lists the hazards, at the line where they bite.

## The modules

| module | models | checked by |
|---|---|---|
| `ClusterHealth` | the findings of `cassandra_health_findings` as operators on the ring a node shows | through the modules that use it |
| `RollingOperation` | `rolling_restart` (node mode) and `rolling_reboot`: progress files, `node_operation.yml`, the actions, the waits; the nodes and their gossip | `MCRollingOperation`, `RollingOperationProofs` |
| `OneNodeAtATime` | what those playbooks promise, without any of their steps | `RestartKeepsPromise` |
| `ApplyConfig` | the playbook `apply_config`: the plan, the refusal, the nodes written at once, the ones restarted or started in turn | `MCApplyConfig`, `ApplyConfigProofs` |
| `NodetoolTasks` | two tasks in a row of any nodetool module | `MCOneNode`, `TasksProofs` |
| `StatusPoll` | the loop of `cassandra_status` and what the health check makes of its result | `MCOneNode`, `TasksProofs` |
| `ConfigPending` | on one node, the record of the configuration it started with | `MCOneNode`, `TasksProofs` |
| `SchemaPoll` | the loop of `cassandra_schema` and its verdict | itself |
| `SchemaObjects` | two tasks in a row of the keyspace, table or role module | `MCOneNode`, `TasksProofs` |
| `TopologyPlan` | pure: what `topology` decides from what it read | through `NodeChanges` |
| `NodeChanges` | the runs of `topology`, over the inventory's edits | `MCNodeChanges`, `NodeChangesProofs` |
| `StreamWait` | pure: one check of a wait, what it remembers, what it concludes | through `StreamedOperations` |
| `StreamedOperations` | a join, a leave or a removal waited for | `MCStreamedOperations`, `StreamedOperationsProofs` |
| `Tokens`, `TokenPlans` | pure: single-token rings, the plans made from one | through `TokenMoves` |
| `TokenMoves` | a single-token cluster over its creation, adds, moves and cleanups | `MCTokenMoves`, `TokenMovesProofs` |
| `DiskStack`, `TunedProfiles` | pure: the block devices under a directory, what tuned does to them | through `DiskTuning` |
| `DiskTuning` | the runs of `disks.yml` on a host, and what undoes them | `MCOneHost`, `OneHostProofs` |
| `ResetPaths`, `NewHost` | pure: the directories a reset empties, the checks of a host to add | through `NodeReset` |
| `NodeReset` | the reset of hosts, in the four playbooks that make one | `MCOneHost`, `OneHostProofs` |
| `InventoryLayout` | pure: where each setting goes in the inventory, what a host gets from it | through `InventoryImport` |
| `InventoryImport` | imports into one directory, over edits and interruptions | `MCImport`, `MCInventoryImport` |
| `ConfigImport` | `cassandra.yaml` of one node: imported, checked, kept or rendered, accepted at a start | `MCImport`, `ImportProofs` |
| `FilePermissions` | owners, groups and modes of one node: read, announced, set, and the account that uses them | `MCImport`, `ImportProofs` |

`MCOneNode` runs four modules that share nothing (`NodetoolTasks`,
`StatusPoll`, `ConfigPending`, `SchemaObjects`) as four parts of one run: a
behaviour is of one of them, so its states are the sum of theirs. `MCOneHost` does so with
`DiskTuning` (its kinds of hosts are in `MCDiskTuning`) and `NodeReset` (whose
hosts are in `ResetHosts`), `MCImport` with `InventoryImport`, `ConfigImport` and
`FilePermissions`.

### RollingOperation

`pc` is the task the run is at, `cur` the host of the play, `done` the set read
from the progress file when the run started (`cassandra_progress_done`: it is
not read again), `resumed` is `_cassandra_resumed_node`, `files` and `file` are
the progress files on the controller (only the latest of each operation can be
picked). A node is its `mode` and the set `up` of the nodes its gossip shows up.

| action | code |
|---|---|
| `Fresh`, `Resume`, `EndRun` | `progress.yml`, the plays of `rolling_restart.yml` / `rolling_reboot.yml` |
| `Skip`, `Begin` | the first tasks of `node_operation.yml`: `_cassandra_resume_candidate`, `_cassandra_resumed_node` |
| `CheckBefore`, `CheckAfter`, `Unhealthy` | `cluster_health.yml`, the read on the node, then on the second node, two steps |
| `Drain`, `DrainOver`, `DrainNoAnswer` | the drain of `action_restart.yml` / `action_reboot.yml`: done, failed, timed out, no answer |
| `Restart`, `Reboot`, `Booted`, `WaitNormal`, `GiveUp` | the restart or the reboot, `main.yml`, `wait_normal.yml` |
| `Record` | Add the node to the progress file |
| `Interrupt` | the controller or its connection stops, at any task |
| `Crash`, `Repair`, `HostBoots`, `DrainCompletes`, `Joined`, `Notices` | the nodes (external) |

`taken`, `restarted`, `knownDown` and `unseen` are history: no action reads them.

What is abstracted: one run at a time (the code has no lock: two controllers at
once are a listed hazard, not modelled); `cassandra_service_health_force` is
false; streams, ports and schema are always right; preflight only asks that
every host answers; a node's start is visible to JMX only at Mode NORMAL or not
at all (a JVM in between may refuse the connection or answer, see `FoundDown`);
a drain or a stop is announced at once to the nodes in Mode NORMAL, a crash is
noticed later by each in its own time; the polls for down nodes (600 s) outlast
gossip (`Settled`), so that a run gives up only on a settled ring.

`DrainedShowsItselfUp` is how a drained node shows itself in its own `nodetool
status`: `UN` (Cassandra, which does not tell a drain there, and every run) or a
state of its own (`US`, DSE). It matters when the second node of a check is
itself drained: having left gossip it shows itself up and the others as they were
then. A node checked from itself too is told of by its own ring; a resumed one is
checked from the second node only, and the run goes on (finding 2). The nodes
down at such a check are `unseen` until another check passes or they join:
`ActsAlone`, `AtMostOneOut` and `KnownDownStops` leave them out and no other,
`OtherDownStops` is the promise without the exemption.

### ConfigPending

A file is reduced to the version of its content; `cassandra.yaml` has two, its
settings and its seeds, since the seeds can change live. `loaded` and
`liveSeeds` are what the JVM runs with, `record` is the content of
`.ansible_config_at_start.json`. `slips` is history: which of four events the
record cannot follow happened since it was last made (a former content written
back, a start not recorded, seeds changed otherwise than by `seeds_apply.yml`,
an edit by hand in the middle of a run). The properties name the events they
exclude; TLC finds each of them necessary but the last, which
`config_snapshot.yml` cannot detect (it reads the files after the join).

### ApplyConfig

`state` is what a node's unit and its netstats say, `disk` its config files,
`loaded` whether its JVM read the inventory's content, `rec` whether the record
of its last start says so. `atStart` is what the preflight read of the nodes,
`plan` the outcome of each (`cassandra_apply_config_then`, `_todo`, and whether
its unit was in a restart loop), both facts of the run that are not read again.
`left` and `found` belong to the nodes done at once, `found` also to the node
the serial play is at (`_cassandra_down_node`).

| action | code |
|---|---|
| `StartRun`, `Plan` | the preflight's read, then Find what each node needs and the refusal (`DownAtRestart`) |
| `Progress` | `progress.yml`, on the nodes to do |
| `BeginBatch`, `CheckBatchBefore`, `BatchWrite`, `CheckBatchAfter`, `BatchRecord` | `node_operation.yml` on the nodes written at once: each task on all of them before the next |
| `Skip`, `Begin`, `CheckBefore`, `CheckAfter`, `Record` | `node_operation.yml` on one node |
| `ClearUnit`, `CameUp`, `Write`, `Start` | `action_apply_config.yml` |
| `Drain`, `DrainNoAnswer`, `Restart` | `action_restart.yml` |
| `WaitNormal`, `GaveUp` | `main.yml`, `wait_normal.yml`, `config_snapshot.yml` after a start that changed something |
| `Unhealthy` | a check that fails; any node of the ones done at once stops the run |
| `Crash`, `StoppedByHand`, `StartedOtherwise`, `Joined` | the nodes (external) |

`surprised`, `byHand`, `knownDown` and `unseen` are history: what the run found
changed otherwise than by itself, the nodes started by hand and not planned as
running since, the nodes down since before the check of a host, and those of them
the check of a host that may be down could not show, the second node being
drained itself. `seen` is the ring a drained node goes on showing.

What is abstracted: the files are of a former content, of a wrong owner or mode
only, or as the inventory says, and the inventory does not change between two
runs; the record is compared as `ConfigPending` does, with two contents; a node
down is seen down at once by those that gossip (`RollingOperation` has the
delays); a JVM the unit did not start counts as running; `--check` is left out.

### NodetoolTasks, StatusPoll, SchemaPoll

`NodetoolTasks` has the forms a nodetool module of the collection takes: get,
compare, set (timeouts, throughputs, trace probability); a switch read by its
status command, hinted handoff having a third state; one command that always
runs. `task.mod` is the module, `task.asked` its option; `setting` is the
node's, which `Other` changes between two calls; `last` is the task before. A
command fails before its effect or after it (`WriteFails`). One call of a poll
(`StatusPoll`, `SchemaPoll`): the ring (or the schemas) change between two
polls, nodetool fails at any poll. `StatusPoll` also applies `ClusterHealth` to
the result, with the addresses expected down.

### SchemaObjects

`cluster` is the object as Cassandra keeps it, `ask` what the tasks ask, `task`
the one under way with its revokes and grants left to send, `prev` how the one
before ended. `Plan` is the statement about the object itself, `Revoke` and
`Grant` send the permissions and groups of a role one at a time. A statement
fails having been applied or not, and the task is run again (`RunAgain`). Two
permissions stand for the six of a keyspace.

### TopologyPlan, NodeChanges

`TopologyPlan` is the plan as operators on a reading (what each host is in the
ring, in its own netstats, on its disks): the hosts to add and to remove in
order, the seeds before and after, the refusals. `NodeChanges` runs it again and
again: `node`, `data`, `mark`, `file`, `live` and `job` are the hosts, `absent`
and `seeds` the inventory, `pc`, `plan`, `join`, `at` and `todo` the run.

| action | code |
|---|---|
| `Launch` | `preflight.yml`, the reads and the plan of `topology.yml`, its refusal |
| `Reset`, `ResetOver` | `reset_node.yml` on the hosts to add |
| `Prepare`, `PrepareOver` | their configuration, with the seeds they join with |
| `AddCheck`, `MarkBootstrap`, `StartNode`, `WaitJoin`, `Unmark`, `AddedCheck` | `add_node.yml`, `node_operation.yml`, `action_add.yml` on one host |
| `WriteSeeds`, `ReloadSeeds` | `seeds_apply.yml` on one host |
| `LeaveCheck`, `LaunchJob`, `JobRuns`, `WaitLeave`, `WaitStalls`, `StopLeft`, `LeftCheck`, `Close` | `decommission_node.yml`, `action_decommission.yml`, `cassandra_decommission.py` and its asynchronous job |
| `Interrupt` | the controller stops, at any task |
| `EditNodes`, `EditSeeds`, `StartByHand`, `LeaveByHand`, `RemoveDead` | the operator, between two runs |
| `Bootstrapped`, `Leaves`, `Forgotten`, `Fails`, `Crash`, `Repair` | the nodes (external) |

### StreamWait, StreamedOperations

`StreamWait` is what a wait remembers (`w`: the streams' progress and how long
it has not moved, the phase, the answers missed) and what one reading makes of
it: go on, done, or the cause to stop. `StreamedOperations` gives it readings
(`Check`): the node's own netstats, the others', the job,
`nodetool removenode status`, any of them lost. `node`, `sessions` and `ring`
are Cassandra, `run` the playbook with its looks at where things stand
(`LookLeave`, `LookRemoval`) and its launches (`LaunchLeave`, `LaunchRemoval`,
`ForceRemoval`, `Assassinate`); `shown` and `quiet` are history. Time is counted
in checks.

### Tokens, TokenPlans, TokenMoves

`Tokens` states the searches of `cassandra_tokens.py` by what they minimise and
how they break ties, and its loops as functions over the rounds done; `TokenPlans`
the five plans of the filters. A token is a
position in `0 .. Size - 1`: the code's ring is 2^64 long, and the arithmetic is
the same modulo `Size`. In `TokenMoves`, `ring` is the cluster's, `moving` the
moves under way (they go on without the run), `steps` and `cleanup` what is left
of the plan, `record` the note of the cleanups to do; `lost` (the nodes that
truly hold ranges they no longer own) and `placed` are history.

### DiskStack, TunedProfiles, DiskTuning

`DiskStack` walks from the directories of Cassandra down to the disks
(partitions, LVM with its hidden volumes, md, crypt, thin pools) and makes the
list of what to tune, one directory, one stack and one device at a time, as
`cassandra_disk_plan` appends to it (recursive functions over places in those
lists: what they return is proved about). `TunedProfiles`
merges the profiles as tuned does and says which section takes a device.
`DiskTuning` is `disks.yml` task by task: each that changes something is an
action, and `Boot`, `TunedRestart`, `LvmReload`, `EditKb`, `AdminTunes`, `Widen`,
`StartOrStop` come between two runs or during one.

### ResetPaths, NewHost, NodeReset

`ResetPaths` lists the directories of the inventory and of the node's own
`cassandra.yaml`, checks each as it is written and where its links lead, and
tells the entries to delete; `NewHost` is what `add_node` and `replace_node`
check on a host before they install anything. A path is the sequence of its
names. In `NodeReset` a target is `files`, `links`, `jvm`, `boot` (the unit
starts at boot), `inRing` and `mark`, a run its `kind` (`reset_node`,
`add_node`, `replace_node`, `create_cluster`), its `plan` and what it `refused`;
`cut` and `waited` are history.

| action | code |
|---|---|
| `Plan` | the first checks, `reset_node_plan.yml` on every host, the ring checks of `cassandra_node_reset.py` |
| `Stop`, `Disable`, `Empty`, `Unmark` | the tasks of `reset_node.yml`, `Empty` with its second look at the JVM and the directories |
| `Start` | the host is installed and started (`NodeChanges` has the bootstrap) |
| `Stopped` | the operator answers no, or the run stops |
| `Starts`, `GoesDown`, `Joins`, `Relinked` | the hosts (external), while a run waits or between two |

Assumed: a host changes at most once while a run waits; nothing comes between
the second look and the delete; an address a host had is not another host's of
the inventory; a member has its `cassandra.yaml`; the paths a reset must not
touch are compared as they are written. Left out: the load check, what a package
needs (an input), the options that switch the checks off, the wording. A host
with nothing to delete is not looked at again, so that `StartsClean` is stated
of hosts nobody changed while the run waited (`waited = 0`) and, for `add_node`,
of the directories it looks at (`NotLookedAt` tells the others). A `create_cluster` stopped in the
middle of its reset is refused by the next one, by design: `CanGoOn` leaves it
out.

### InventoryLayout, InventoryImport

A setting goes to the highest level its nodes agree on (all, datacenter, rack,
host), a template where each node has a value made of its name; over the user's
own files, only what they do not give. `InventoryImport` writes that: the
leftovers of an earlier import removed (`Remove`), the hosts file written once,
marked NOT VALID when the self-check failed (`WriteHosts`), then the variables
files one by one (`WriteVars`); `files` and `hosts` are the directory, the user's
files among them, `live` what the nodes have.

### ConfigImport

`file` gives each top-level key of `cassandra.yaml` the lines that set it, a line
its value and whether it is written as the template's; a key with no line and one
with no value are both `Null` to Cassandra, and are not the same to the code.
`Settings` is what the programs that read the file get, the directories left out
under the storage directory of the JVM. `inv` is the inventory, `was` and `told`
the file as it was imported and the keys the report named.

| action | code |
|---|---|
| `Import` | `cassandra_config_import`, the hand edits (`HandEdits`), `cassandra_import_check` (`Told`) |
| `Compare`, `Write`, `Declined` | `cassandra_config`: its refusals, `same_settings`, the write or the operator's no |
| `Start`, `Stop` | Cassandra (external): `Accepted` is what its release refuses |
| `HandEdit`, `Edit`, `Install` | the operator: the file, the inventory, another release of the package |

Left out: the keys below a top-level one, the other files (`.properties`,
`.options`, `.sh`, `.xml`, the JMX users', the rack), the one step forward that
`storage_compatibility_mode` may take, `cassandra_config_force_identity_change`
and a node not initialized yet.

### FilePermissions

A file or directory has an owner, a group and a mode, which gives the owner, the
group and the others their bits. `perm` and `dir` are the node's, `unit` the
account its unit runs it as, `inv` the variables of the inventory, `unread` and
`told` what the import could not read and what its report announced.

| action | code |
|---|---|
| `Import` | `cassandra_permissions_import`: the commonest values, the files that differ, `permission_differences` |
| `AccountCheck` | `account_check.yml`, `cassandra_unreadable_config` |
| `LookAtDirs`, `CreateDirs`, `GiveDirs` | `cassandra_dir_permission_changes` and the tasks on directories |
| `WriteFiles`, `WriteJmx` | the tasks of `cassandra_config` |
| `Starts`, `Stopped` | `unit.yml` and the start; a run stopped at any task |
| `Edit` | the operator changes the inventory |

Assumed: no mode gives the others more than the group (`PermsAssumption`): a
directory like 0707 whose group is one of the account's other groups is taken as
usable by `_usable`, which knows the account's own group only, and is not; the
group given by `Group=` in the unit is the one `runuser` tries directories with.
Left out: a refusal of the settings themselves, ACLs.

## The runs

| run | question | answer |
|---|---|---|
| `rolling_any_run` | three nodes, restarts and reboots, any sequence of fresh and resumed runs, a crash, an interruption at any task, `DrainedShowsItselfUp = TRUE` | one node out at a time (`ActsAlone`, `AtMostOneOut`), a node known down stops the run (`KnownDownStops`), but for those a drained second node hid; none forgotten or repeated (`CompleteMeansAll`, `NoRepeat`), implements `OneNodeAtATime` (`RestartKeepsPromise`) |
| `rolling_hidden_peer` | the same, "any other node down still stops the run" without the exemption | violated: finding 2 |
| `rolling_resumed` | the same with `DrainedShowsItselfUp = TRUE`, every stopped run resumed | it ends (`RunCompletes`), and every node taken down comes back (`TakenComesBack`) |
| `apply_config` | three nodes in any of five conditions (stopped, or running with files to change, a restart pending, only modes to set, nothing to do), fresh, limited and resumed runs, two faults (a node then failed or in a restart loop among them) | a restart waits for every other node, but for those a drained second node hid (`RestartWaits`), a run not refused is not stopped by a node its plan knew down (`OwnPlanHolds`), a node stopped on purpose stays so (`StaysStopped`), a run that ends has applied the config (`AppliedAtEnd`) |
| `one_node` | two tasks of any nodetool module, or a health check's poll, or any order of writes, starts, stops, reloads, edits and interruptions over the record of the configuration, or two tasks in a row on any keyspace, table or role they may find, a statement failing at any point | what is asked is done and told, and a second run sends nothing (`AsAskedOnce`); no ring is believed that was not just read (`HealthyWhenAnswered`); no change escapes the record (`SettingsTold`), none is invented (`PendingIsReal`); the object and its permissions end as asked, and a second run is quiet (`ObjectsAsAskedOnce`) |
| `schema_agreement` | `cassandra_schema` as documented | violated: finding 1 |
| `node_changes` | `topology` run over and over on three hosts while the inventory is edited, a run stopped, a node crashing, a bootstrap or a decommission failing | a node leaves when the rest can do without it (`LeavesSafely`), data are kept (`DataKept`), a node bootstraps through a member (`JoinsThroughMember`), and the runs converge to the inventory (`Converges`) |
| `streamed_operations` | a join, a leave, a removal waited for, readings lost, JVMs stopped, jobs lost, runs begun again, operators' own operations | done means over (`DoneIsOver`), a stop has its cause (`StopsForCause`), the wait ends (`WaitEnds`), one removal at a time (`OneRemoval`) |
| `token_moves` | create, add and move on a single-token cluster of two datacenters, interrupted, the keyspaces read or not, with the SimpleStrategy or not, a move or a cleanup failing | no node started at or moved to a token another one holds (`TokensFree`), a run that ends leaves an even ring, each node moved once (`EndsEven`), no cleanup forgotten but of the nodes no plan lists (`CleanupsKept`) |
| `one_host` | two runs of `disks.yml` on ten kinds of storage, stopped anywhere, with tuned, LVM, boots and changes between and during them; or two runs that reset two hosts of any kind, stopped anywhere, rings and keyspaces not read, a host that changes while a run waits | what a run says holds at the next boot (`ReadAsAsked`), no volume of the OS is suspended (`OsVolumesNotReloaded`), a run again changes nothing (`SettledRunQuiet`); no data that counts is deleted (`MembersKept`), a new node starts with empty directories (`StartsClean`), a reset stopped halfway can be run again (`CanGoOn`) |
| `inventory_import` | two imports of three nodes in two datacenters, into directories that hold another cluster, an earlier import's or release's files and the user's, with nodes not read, edits, interruptions; or a `cassandra.yaml` of any shape, imported, compared, written, with Cassandra up or down, edits and another release; or files and directories of any owner and mode, imported, set, used | a node read gets each setting as it has it or is told of (`AsFound`), a second import writes nothing (`ReimportQuiet`), another cluster's files stay (`OthersKept`); an imported file says what it said (`AsImported`), owners and modes stay (`KeptAsFound`), what the roles leave Cassandra starts with and its account can use (`CanStart`) |
| `import_own_dc` | the same as documented, for the datacenter of a node in a file of the user's | violated: finding 3 |

Bounds. Rolling operations and `apply_config`: three nodes are a host acted on,
a node left out by an earlier run and a second node to read the ring from, which
is what the checks distinguish (for `apply_config`: one before, one at and one
after the host of the play); a fourth adds only copies of the last. One crash and
one interruption: with a fresh run and a resumed one this gives every pair of
"stopped here" and "down there". Two operations: a reboot in the middle of an
unfinished restart. In `apply_config` two limits (all, all but the first) leave
one out of the run; the five conditions, and a crash before a run, give each
outcome of the plan for each of its reasons; two faults are a run stopped, then
something that happens to the resumed one.

`one_node`: `MaxOthers = 1` puts somebody else's change before, between and after
the two tasks; `Poll = 3` has a first, a middle and a last read; two contents per
file are enough to bring a former one back; two keyspaces and
two groups make one that is asked about and one that is not. `node_changes`:
three hosts, one datacenter of one node and one of two with a replication factor
of one, so that a removal is allowed and refused; three seed lists; one failure,
one interruption and two edits, which make a host absent and present again or
two hosts change. `streamed_operations`: one streaming session, two runs of a
leave or a removal (begun, and begun again), a stall after one check, a quiet
operation after twice that. `token_moves`: 60 positions, the least common
multiple that lets rings of three to six nodes be even; six nodes in two racks,
three runs, one failure. `one_host`, disks: one host of each kind (partitions, LVM,
md with crypt, thin pools, devices set by hand, not mounted yet...), two runs,
two events; resets: two targets and two members that stay up, a first
target of each kind of `ResetHosts` (they differ in one thing at a time from a
new node, a package's own instance, a failed bootstrap, a former member, a
member), a second that is blank, failed or a member, two runs, one change.
`inventory_import`: a setting that is missing, common or made of the
node's name, one the user keeps, one of policy, the login; six candidate user
files, six earlier directories, one change between two imports. Its
`cassandra.yaml`: a key of each kind the code treats apart, written in each way it
reads apart, one key (or one and a key that is not the template's) other than the
role writes it; three storage directories, two releases that reject one key or
two, one change by the operator. Its permissions: one file of each kind (the YAML,
the JVM's options, another, the JMX users'), a directory and a mistyped one, three
and four sets of owner, group and mode, two accounts, one edit.

The safety properties with a theorem are proved for every value of these bounds.
`CHECK_DEADLOCK FALSE` is set where the system comes to rest: no run left to
start and no fault left to happen.

Fairness. `rolling_resumed`: a run that goes on goes on (an Ansible run has no
scheduler to starve it; interruptions are bounded by `MaxFaults`); a stopped run
is resumed, which is what its last message asks; gossip notices, a start, a boot
and a drain end; a node that stopped by itself is started by its unit or by
hand, one that an operation took down by nobody but the resumed run: that it
comes back is what the property is about. `FollowsHint` keeps the operator from
starting over or running the other operation before the stopped one is done.
`node_changes`: the controller's steps, the launch of a run included, are weakly
fair (a run that is stopped is launched again), and so are together the nodes'
own (a bootstrap, a decommission or a start ends) and the operator's repairs.
`streamed_operations`: a run that waits keeps checking; it is stated without
ENABLED, as a wait that is not left for good checks infinitely often.

## Findings

1. `cassandra_schema` counts the polls, not the versions: it succeeds on the
   first answer whatever it lists (`schema_agreement`).
2. A resumed rolling run takes the ring from the first other host of the
   inventory, drained or not (`cluster_health.yml:29`). One that another operation
   drained before it was stopped shows itself up, and the others as they were: the
   run restarts its host with two nodes out, where `node_operation.yml:15` says
   "Any other node down [...] still stops the run" (`rolling_hidden_peer`).
3. The import compares the datacenter of a node in a file of the user's with the
   collection's default, not with the node's, and writes the default over it
   (`import_own_dc`).

## The code and its comments

Met while modelling, modelled as the code does, and excluded by name from the
property concerned:

* `cassandra_status` keeps the ring of an earlier poll when the last one fails; a
  check that tolerates a down node passes on it (`cassandra_status.py:234`). This
  is why `HealthyOnlyWhenAnswered` assumes no node expected down.
* `cassandra_schema`'s option `is` never fails (`cassandra_schema.py:206`).
* A start nobody recorded, then a former content written back, is not told
  pending; seeds applied live by `cassandra_config` stay pending, and so do seeds
  found already right by a second `seeds_apply.yml` after a first one stopped
  between its write and its reload.
* A resumed run that reads the ring from a node drained itself goes on with two
  nodes down (finding 2), `apply_config` as the rolling operations: the exemption
  is `unseen` in both, and `ResumedFirstActsAlone`, `RestartWaitsUnexempted` say
  when there is none. Nothing locks the cluster against two controllers
  (`rolling_restart.yml:19`).
* A resumed `apply_config` plans a node that was written, left stopped and
  recorded as one to start, then skips it as done: it stays down and stops the
  run each time it is resumed (`apply_config.yml:378`).
* nodetool modules: `stopdaemon` succeeds, unchanged, when its command fails;
  handoff with a datacenter disabled is told neither on nor off;
  `fullquerylog` always differs, and its "disabled" runs under check mode
  (`cassandra_fullquerylog.py:272`); the enable/disable modules say changed at
  each run.
* Schema modules: a NetworkTopologyStrategy keyspace with `durable_writes: false`
  and no `data_centres` is altered to SimpleStrategy without a word
  (`cassandra_keyspace.py:12`), since `durable_writes` always reads true; a role
  without login is created or dropped under check mode; the permissions of a
  role's groups count as its own and the groups are revoked afterwards
  (`cassandra_role.py:452`); a type is never found; `keyspace_permissions: {}`
  meets an unbound name; `all_keyspaces` is never narrowed.
* `topology`: a run stopped between the write of the seeds and their reload
  leaves files that are never reloaded; a stale mark of a bootstrap lets the
  data of a former member be wiped (`guide_roles.rst:588`,
  `reset_node_plan.yml:226`); a present host that is leaving, or whose
  decommission failed, is taken for a member.
* Streaming: during a removal, when the first host's netstats fails the other
  side is taken for empty and the wait may say "stalled" (`StopsForCause` exempts
  removals); gossip is read with `failed_when: false`, so that a second
  removenode is possible (`OneRemoval` exempts a lost gossip); a removal begun
  again whose coordinator restarted is told done (the health check after it finds
  it); the force of removenode also finishes a leave begun since the plan.
* Tokens: `add_node` may plan while the move of an interrupted run is under way.
  `move_node` that cannot read the keyspaces (`move_node.yml:156`) goes on and
  lists the nodes of the datacenters that move, as `guide_roles.rst:449` says and
  the plan warns; a keyspace with the SimpleStrategy over two datacenters has nodes
  of the other one lose ranges too, which nothing lists, where `move_node.yml:268`
  says "a run that stops forgets none" (`CleanupsKept` exempts them, `unread`).
* Disks: a tuned section pinned before the role's own keeps its device
  (`OursFirst`); an import looks at LVM's read-ahead only when the role's udev
  rule is missing; a whole disk set by hand with data on its partition is warned
  of for nothing.
* Reset: a directory refused as it is written is left out of those that are
  looked at, so that `add_node`'s plan sees no data in it
  (`reset_node_plan.yml:293`) while its first checks leave it to the reset
  (`cassandra_new_node.py:134`): the host is started on its old data, where
  `argument_specs.yml:179` of the role says "Paths that look wrong are refused
  too" (`StartsClean` exempts it, `NotLookedAt`).
* Import: the user's `group_vars/<cluster>.yml` and `host_vars/<node>.yml` are no
  longer read once the import has written the directory of that name; the login
  is kept only from the cluster's own group, so that a host file that gives the
  same one makes the next import drop it; names of datacenters and racks that
  become the same name collide; the files sorted between `main.yml` and
  `secrets.yml` may be missed or misnamed when told which one wins; an import
  stopped halfway may leave the inventory file unmarked over variables half
  written.
* A key Cassandra rejects that has no value (`key:`) is told as left out by the
  report (`cassandra_import_report.py:595`), but `same_settings` does not see it
  (`cassandra_settings.py:88`), so that the file is kept with it and the next
  start is refused (`CanStart` exempts a key with no value). A file kept by
  `cassandra_config_keep_files` may hold a rejected key too.
* When the command that reads the owners and modes of the files fails, nothing is
  announced (`import_cluster.yml:885`): the role then sets its defaults
  (`KeptAsFound` exempts it, `imported = "nothing"`). No check looks at whether
  the account can read the JMX users' files.

## The proofs

`RollingOperationProofs` proves, for every set of nodes, every order, every bound
and both operations:

* `TypeCorrect`: the type invariant.
* `TouchesAlone`, `OneOutAtMost`, `KnownDownIsRespected`: one node at a time,
  the nodes a drained second node hid left out, whichever way a drained node
  shows itself. Neither is inductive: a run past its checks relies on what it
  read. `AloneInv` adds that a node out (or known down) and not `unseen` is
  *hidden*: not in Mode NORMAL, and shown down by every node that is (`Hidden`),
  which is kept by every step until it joins (`HiddenStep`) and is found by the
  node's own checks if it is asked (`HiddenIsFoundBySelf`), by the second node's
  ring otherwise. So no check passes while another node is out, unless it rests
  on a drained second node alone, and the checks of a resumed node forgive only
  that one.
* `ResumedFirstActsAlone`: `OtherDownStops`, with no exemption, where a stopped
  run is resumed before any other (`FollowsHint`) or a drained node does not show
  itself up. `NothingUnseen` shows that no check is blind there: a node drained is
  one the operations took down (`DrainedInv`), so the host of the unfinished run
  (`HintInv`), which is never its own second node.
* `NoHostLeftBehind`, `NeverTwice`: what the progress file says. `ProgressInv`
  relates the file to the hosts the play went past: `file[op] = done \cup
  Passed`, and to the restarts: a file lists only restarted hosts, the host acted
  on was restarted, then came back.
* `ImplementsPromise`: `Spec => RestartKeepsPromise`, the refinement of
  `OneNodeAtATime`, from these invariants: each action maps to one of its
  steps or to a stutter (`PromiseStep`). The blind check is a step of its own
  there (`Overlook`), allowed only where `Overlooks` holds.

`ApplyConfigProofs` proves, for every cluster, order, set of limits, initial
condition of the nodes and bound:

* `TypeCorrect`, from `TypeInv`: also, the host of the play exists once one was
  chosen, and what is to do is in the run.
* `RestartWaitsForAll`: `WaitInv` adds that a node known down is still not up
  (`Joined` takes it out), that the serial play is at a node to restart or to
  start, and that the one about to be written, if it is to restart, is the only
  one known down and not `unseen`. The check is what establishes it
  (`CheckShows`): it expects none of the others down before a restart, so the
  ring of a second node that is up shows it.
* `RestartWaitsUnexempted`: from the same invariant, nothing is exempted of a run
  that is not resumed, nor where a drained node does not show itself up.
* `LeftStopped`: `StoppedInv` says that while nothing but the run changed the
  nodes, one found stopped by the preflight still is when the plan is made, and
  is not planned for a start but by a resumed run.
* `AppliedWhenEnded`: `AppliedInv` says what each record rests on. A node in the
  progress file, now or from an interrupted run, is applied or was started by
  hand since it was planned (`FileFacts`); so is one the plan has nothing to do
  on, and one planned for a start has loaded nothing else (`PlanFacts`); the
  nodes written at once get their lines together, the serial ones in their order
  (`BatchFacts`, `PlayFacts`). A run ends past its last host.
* `OwnPlanStopsNothing`: `OwnInv` adds, while a new run is alone, that the nodes
  its plan counts on are up but for the one it restarts, and so are those it
  started (`CountedOn`). A check then finds down only what the plan says is
  (`BatchFindsNothing`, `SerialFindsNothing`): for a serial host, the nodes to
  start after it, which its place in the order tells (`LeastIndex`, by
  well-foundedness).

`TasksProofs` proves, for any number of changes by others, polls and versions,
any set of addresses and of files:

* `TasksDoAsAskedOnce`, from two lemmas: `AsAskedInv` says what a task under
  way has read and sent so far; `SecondRunInv` that a second task of the same
  module, with nobody's change since the first started, reads what the first
  left. Both rest on `TaskTyped`, which ties each module to the readings it can
  have.
* `HealthyOnlyWhenAnswered`, assuming `DownExpected = {}`: a ring kept from an
  earlier poll is one a node was down in (`ReadBeforeIsDown`), so the health
  check refuses it (`DownIsFound`).
* `NoSettingEscapes`, `NoRestartForNothing`: `RecordInv` relates
  the record to the content the JVM loaded and to the slips it cannot follow.

`NodeChangesProofs` proves, for any group of hosts, datacenters, racks,
replication factors and seed lists, and any number of faults, interruptions and
edits: `LeavesOnlySafely`, `NoDataLost`, `NodesBootstrap`. None is inductive: a
step of a run relies on a plan made long before. `RunsKeepInv` is the invariant
they share:

* `PlanInv`: the plan stays true to the inventory while the run lasts (an edit
  waits for the end of the run): the hosts to remove still in the ring are
  planned, none of them is a seed of the plan, and the hosts kept are enough.
* `JobInv`: a decommission not begun yet is of a host to remove; none is while
  the run still adds, since a launch waits for it (`Quiet`).
* `ResetInv`, `JoinInv`: the hosts to reset and to start are the plan's; the
  seeds they join with are members.
* `StreamedInv`, `SeedsInv`: a host about to be stopped has its data streamed;
  the seeds are off a host before it leaves.
* `SparedInv`: what is left can do without the host whose job was launched.

The step that makes it true is the health check before a leave
(`LeaveCheckSeesAll`): it counts the ring against the hosts present, the others
still to remove and the one leaving, so that every host present is in the ring
and normal.

`TasksProofs` also proves, for any keyspaces, groups, permissions, objects found
and tasks asked of the schema modules: `TasksEndAsAskedOnce`.
`SchemaInv` says where a task under way leads: past its first statement the object
is as asked, and settled where what is read can be compared (`ObjectInv`); what is
held, less the revokes and with the grants left to send, is what was asked, and a
role gets a group only once it holds it (`PermsInv`, from `LeadsToAsked`,
`GrantsKeep`); after a task that succeeded the next has nothing to send
(`QuietInv`, from `AskedIsQuiet`). The code counts the rows of a role to tell ALL:
`HasAll` is that counting, by injection and cardinality.

`StreamedOperationsProofs` proves, for any hosts, sessions, numbers of runs and
of faults, stall times, and every order of the answers lost and given:

* `DoneMeansOver`, `RemovalIsAlone`, from `OperationInv`: a job that changed or
  found nothing to change is over, and a node is seen joined only once it has
  (`OverInv`); a removal going on is marked in gossip, and from the look at the
  removals to the launch none begins (`RemovalInv`, established by `LookFinds`).
  The verdicts of a wait are a list of which the first that holds counts:
  `SomeVerdict` gives the least index by well-foundedness, `WordsMean` what each
  word tells.
* `StopsAreForCause`, with `StallInv`: what the wait remembers is what the hosts
  showed when they last answered; a session remembered stands no further than the
  real one, and one of an operation that began again is another (`Stands`). Hence
  a check it counts as idle is one where nothing new is shown (`QuietIsShown`),
  though an unanswering host tells nothing; and its count is never ahead of the
  quiet checks. For joins and leaves, as the property.

`ImportProofs` proves, for any nodes, settings, clusters, keys, files, releases,
storage directories, accounts, groups, modes and edits:

* `OthersFilesKept`: an import checks for conflicts, then removes and writes its
  files one at a time, so `OthersInv` says what is left to do (`TodoSpares`): no
  file to remove is another cluster's, each one to write is for a group or host
  that no other cluster's hosts file names (`Apart`), over files of its own or of
  the user's. It rests on two lemmas: a layout, whatever the rounds do over the
  user's files, is for the groups and hosts of the nodes, which the new hosts file
  names (`LaidPlaces`, `FilesNamed`); a file taken as the cluster's is no other's
  (`OwnedApart`).
* `ImportedSaysTheSame`: `ImportedInv` adds what the report is about (each key it
  does not name is the same in the file the role would write, `ReportHolds`), that
  the file is the imported one or that one (`FileIs`), and that a role that has
  compared a file nothing was told of keeps it (`KeepsIt`). The last needs the
  storage directory of the inventory: with Cassandra down, the role compares under
  none, which says the same only if both files name every directory
  (`SameAnywhere`).
* `OwnersAndModesStay`: `KeptInv` says that what the role would write of each file
  read is what it has (`FilesAsRead`, from `SettingsReadAs`: the settings read name
  each file that differs from the commonest), that the account is the unit's
  (`AccountAsRead`), and that a directory planned for a change is one the account
  cannot use (`PlanNeeded`).
* `ImportedCanStart`: `UseInv` follows the role's tasks (`FilesWritten`,
  `DirsLookedAt`; what `_usable` lets through the kernel does, `UsableMay`),
  `StartsInv` the keys the installed release rejects, from the refusal to the
  write (`FoundFit`).

`OneHostProofs` proves, for any hosts to reset, members, keyspaces, kinds of run,
changes meanwhile, and any profiles of hosts (files, links, `cassandra.yaml`,
what the rings show) that `HostsAssumption` admits:

* `NeverReset`, from `ResetInv`. A reset relies on a plan made long before, so
  the invariant follows the plan (`PlanInv`): it lists what its host still holds,
  and that may go (`Fits`); nothing starts there unnoticed, since the unit is
  disabled, or the second look finds its JVM. That what a plan lists may go comes
  from the checks (`NotRefused`): a node that is down with data is in the ring of
  every member, whichever answers (`DownMemberSeen`); one that runs and is not
  refused is in no ring but its own (`RunsAlone`, which counts that ring); a
  cluster reset as a whole has no other node (`ClusterWhole`). The second look
  (`StillThere`) finds the directories where the plan's links led (`SamePlaces`).
* `StartsEmpty`, from `StartInv`: once a reset has emptied a host nobody changed
  meanwhile, the directories the new node will use hold nothing and are mounted
  (`EntriesGone`, `SameMount`), whatever the run deleted, all or what was still
  below when an earlier run had stopped halfway. It says nothing of a host changed
  while the run waited, nor of a directory `add_node` refuses as it is written
  (`NotLookedAt`).

and, for any stack of devices, directories, inventory and profiles of a host
that `HostsAssumption` of `DiskTuning` admits:

* `OsVolumesStay`, from `DisksInv`: the plan of the host, made once and read by
  every task, says of a device that it is free of the OS only if nothing above it
  is mounted by the OS; a run keeps the plan it was launched with, and what it
  has left to reload by LVM is of those devices. That the plan says so follows
  the walk that makes it: an entry is added once, its `os` is read when it is
  added, and no later entry changes it (`FreeOfOs`, from `AddStackType`,
  `AddStacksType`, `PlanType`).

`TokenMovesProofs` proves, for any nodes, racks, datacenters, replication, rings,
tokens given and asked, interruptions and faults:

* `CleanupsAreListed`, from `ListInv`. A node that loses a range to a move has
  to be cleaned up, a run may stop between the move and the cleanup, and the
  ring of the next run no longer tells. The invariant says that what a move under
  way will take away is listed before it is launched (`LossListed`), that the
  moves left are those of the plan whose cleanups were recorded (`StepsSo`), and
  that a run cleans up only what its own moves are over for (`CleanSo`), so that
  `record` always holds `lost`, but for `unread`: the nodes of another datacenter
  than that of a move planned without the keyspaces, while one has the
  SimpleStrategy. The least obvious part is that the cleanups
  computed from the planned ring cover each step of the ring between: they are
  what the moves done one by one lose (`LeadsFrom`, over the order of the moves).
* `TokensNeverTaken`, from `ListInv` and `FreeInv`. A plan is made once, for a ring
  that its own steps change, in several datacenters that share the positions. New
  nodes: their places differ from each other and from every position taken
  (`PlacesFree`): whatever the scores choose, a search gives numbers (`BestOne`),
  `_nudge` goes past what is held and ends since the ring is larger than that,
  and the new ring is checked whole (`Checked`). Moves: a node goes only where nobody
  is by then (`WayFree`, which `MoveOrder` keeps: each node it takes has its place free,
  `MoveOrderFree`; moves that block each other are refused), and the ways of two
  datacenters do not meet (`MovesGoApart`). The invariant says so of the steps left
  over the ring as it is; each step done leaves it true of the rest (`WayOn`). A
  move that goes on after its run stopped ends at a place nobody holds: nothing is
  started or moved meanwhile (`MovingFree`). The property leaves out the plans
  made while such a move was under way: there the code may choose its target.

What the recursive functions of these two components return is proved by an
induction on numbers made from well-foundedness (`StepInduction`), with the
predicate as a set: the library's induction theorems take it as an operator.

The assumptions are the named ones of the modules, which TLC evaluates: an order
or a group lists each host once, the replication factors are numbers, the seeds
are hosts of the group, a node with files of a former content did not load the
inventory's; what is asked of an object is one of its kind, and the names of
keyspaces, permissions and groups do not meet those the code reserves; the stall
time and the quiet factor are positive; the keys the template lacks are not its
own, each directory has a default; the imports an inventory directory had before
shared no group or host; a file's permissions are an owner, a group and
a mode, which gives the others no more than the group; the hosts to reset are not
members, those of another ring have its name and keep peers whatever their links,
the root is mounted, and the directories that the path checks let through hold
nothing that is not Cassandra's; the devices of a host are finitely many, their
parents and the devices under its directories among them; a ring read first gives
nodes of the inventory a position each, no two the same (the code refuses others),
the tokens given and asked are positions (the code takes them modulo the ring),
the nodes to add are the inventory's, which is in an order; the names of
datacenters and racks have one too, and the ring has more than three positions per
node (the code's has 2^64).

Model-checked only:

* liveness (`RunCompletes`, `TakenComesBack`, `Converges`, `WaitEnds`): fairness
  and ENABLED are out of the prover's reach;
* `EndsEven`: that the ring is as even as it gets, and a plan made again moves
  no node back, is what the searches compute: minima, over rankings, of shares
  summed by folds (the prover knows nothing of a fold, or of `SelectSeq`). What
  `TokensNeverTaken` needs of them holds whatever they choose;
* `ReadAsAsked`, `SettledRunQuiet`: they rest on what tuned makes of a chain of
  profiles, merged by folds;
* `AsFound`, `ReimportQuiet`: they rest on the search for the layout, and on the
  rounds over the user's files, repeated until nothing changes;
* `CanGoOn`, which does not hold of every instance: where a second dead node is to be
  replaced, or another member goes down meanwhile, the checks may refuse a host
  whose reset was stopped. It says that the steps of a reset themselves never
  leave a host that a new run refuses, over the hosts of `one_host`.

## What is not modelled, and the plan

Next: the rack form of the rolling operations (`restart_batch.yml`), `replace_node` (a bootstrap like the
others, another address to take over), the phases of `upgrade` and its mixed
versions, `change_seeds` with its own plan.

Not planned: texts (templates, output, help, report), package and host settings,
where one task follows another and nothing interleaves. Left out of the modules
there are: two controllers at once, `--check` of the playbooks (the modules'
check mode is modelled), `cassandra_service_health_force`, vnodes (refused by the
token playbooks), placements of more than seven new nodes at once, vaulted files
and the layouts of `hosts.yml`.
