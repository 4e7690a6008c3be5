--------------------------- MODULE ConfigPending ---------------------------
(***************************************************************************)
(* How the roles tell, on one node, that the running Cassandra still has   *)
(* to pick up a change of its configuration (config_pending.yml): by the   *)
(* checksums of the files it started with, recorded by config_snapshot.yml *)
(* after each start the roles make, by config_seed.yml before they first   *)
(* change a node started another way, and by seeds_apply.yml when a change *)
(* of the seeds was made live.                                             *)
(*                                                                         *)
(* A file is reduced to its version, cassandra.yaml to the version of its  *)
(* settings and the one of its seeds.                                      *)
(***************************************************************************)
EXTENDS Naturals

CONSTANTS
    Yaml,              \* cassandra.yaml
    OtherFiles,        \* the other files cassandra_config writes
    Unit,              \* the systemd unit
    MaxVersion         \* bound: versions of a file

ConfigFiles == {Yaml} \cup OtherFiles
Files == ConfigFiles \cup {Unit}
Versions == 0 .. MaxVersion

FilesAssumption == Yaml \notin OtherFiles /\ Unit \notin ConfigFiles /\ MaxVersion \in Nat

VARIABLES
    running,    \* a Cassandra JVM runs
    disk,       \* file -> version on disk
    seeds,      \* version of the seeds in cassandra.yaml
    loaded,     \* file -> version the JVM read when it started
    liveSeeds,  \* version of the seeds the JVM uses
    written,    \* files whose ctime is after the start of the JVM
    record,     \* file -> checksum (.ansible_config_at_start.json)
    recorded,   \* the record exists
    pc,         \* step of the role run going on
    before,     \* cassandra_seeds_file_before, of the run going on
    slips       \* history: what the record may have missed since it was made

jvm  == <<running, loaded, liveSeeds>>
conf == <<disk, seeds, written>>
vars == <<running, disk, seeds, loaded, liveSeeds, written, record, recorded,
          pc, before, slips>>

(* A content the file had before is written back; a start is not recorded; *)
(* the seeds are changed otherwise than by a seeds_apply.yml that goes to  *)
(* its end; a file is edited by hand while a run of the roles goes on.     *)
Slips == {"former", "unrecorded", "seeds", "edited"}

Checksum(f) == <<disk[f], IF f = Yaml THEN seeds ELSE 0>>
Checksums == Versions \X Versions

(* Not one of the files Cassandra started with, by the record.             *)
Absent == <<>>

TypeOK ==
    /\ running \in BOOLEAN
    /\ disk \in [Files -> Versions]
    /\ seeds \in Versions
    /\ loaded \in [Files -> Versions]
    /\ liveSeeds \in Versions
    /\ written \subseteq Files
    /\ record \in [Files -> Checksums \cup {Absent}]
    /\ recorded \in BOOLEAN
    /\ pc \in {"idle", "started", "config_written", "seeds_written", "seeds_reloaded"}
    /\ pc \in {"seeds_written", "seeds_reloaded"} => before \in Checksums
    /\ slips \subseteq Slips

(* An imported node: started by something else, no record, files perhaps   *)
(* written since.                                                          *)
Init ==
    /\ running = TRUE
    /\ disk = [f \in Files |-> 0]
    /\ seeds = 0
    /\ loaded = disk
    /\ liveSeeds = 0
    /\ written = {}
    /\ record = [f \in Files |-> Absent]
    /\ recorded = FALSE
    /\ pc = "idle"
    /\ before = Absent
    /\ slips = {}

-----------------------------------------------------------------------------
(* _changed of config_pending.yml: by content, except the unit when the    *)
(* record lacks it, told by its ctime and the JVM's start.                 *)
Changed ==
    {f \in Files : recorded /\
        IF record[f] # Absent \/ f # Unit
        THEN record[f] # Checksum(f)
        ELSE running /\ f \in written}

(* cassandra_config_restart_pending                                        *)
Pending == Changed # {}

(* A write changes the content, to a new version or to a former one.       *)
Former(v, w) == IF w < v THEN {"former"} ELSE {}

WriteSettings(f, w) ==
    /\ w # disk[f]
    /\ disk' = [disk EXCEPT ![f] = w]
    /\ written' = written \cup {f}
    /\ UNCHANGED seeds

WriteSeedsLine(w) ==
    /\ w # seeds
    /\ seeds' = w
    /\ written' = written \cup {Yaml}
    /\ UNCHANGED disk

(* Mutant: the files written since the start are recorded too.             *)
SeedAll ==
    IF recorded \/ ~running
    THEN UNCHANGED <<record, recorded>>
    ELSE record' = [f \in Files |-> Checksum(f)] /\ recorded' = TRUE

(* config_seed.yml: no record yet, the files not written since the start.  *)
(* Without a JVM there is no start to compare with: nothing is recorded.   *)
Seed ==
    IF recorded \/ ~running
    THEN UNCHANGED <<record, recorded>>
    ELSE /\ record' = [f \in Files |-> IF f \in written THEN Absent ELSE Checksum(f)]
         /\ recorded' = TRUE

(* cassandra_config writes a file, unit.yml the unit: only a change is     *)
(* seeded and written.                                                     *)
RoleWrites(f, w) ==
    /\ pc = "idle"
    /\ Seed
    /\ WriteSettings(f, w)
    /\ slips' = slips \cup Former(disk[f], w)
    /\ UNCHANGED <<jvm, pc, before>>

(* The same of the seeds in cassandra.yaml, which cassandra_config reloads *)
(* on a running node (cassandra_config_reload_seeds); apply_config, which  *)
(* restarts it, does not.                                                  *)
RoleWritesSeeds(w) ==
    /\ pc = "idle"
    /\ Seed
    /\ WriteSeedsLine(w)
    /\ slips' = slips \cup Former(seeds, w) \cup {"seeds"}
    /\ pc' \in {"idle"} \cup (IF running THEN {"config_written"} ELSE {})
    /\ UNCHANGED <<jvm, before>>

ConfigReloads ==
    /\ pc = "config_written"
    /\ liveSeeds' = seeds
    /\ pc' = "idle"
    /\ UNCHANGED <<running, loaded, conf, record, recorded, before, slips>>

Edited == IF pc = "idle" THEN {} ELSE {"edited"}

HandEdits ==
    /\ \E w \in Versions :
        \/ \E f \in Files : /\ WriteSettings(f, w)
                             /\ slips' = slips \cup Former(disk[f], w) \cup Edited
        \/ /\ WriteSeedsLine(w)
           /\ slips' = slips \cup Former(seeds, w) \cup Edited \cup {"seeds"}
    /\ UNCHANGED <<jvm, record, recorded, pc, before>>

Starts ==
    /\ running' = TRUE
    /\ loaded' = disk
    /\ liveSeeds' = seeds
    /\ written' = {}
    /\ slips' = IF recorded THEN slips \cup {"unrecorded"} ELSE slips

(* main.yml: started when it is not running, or restarted.                 *)
RoleStarts ==
    /\ pc = "idle"
    /\ Starts
    /\ pc' = "started"
    /\ UNCHANGED <<disk, seeds, record, recorded, before>>

(* config_snapshot.yml, once the node has joined: the files on disk then.  *)
Snapshot ==
    /\ pc = "started"
    /\ record' = [f \in Files |-> Checksum(f)]
    /\ recorded' = TRUE
    /\ slips' = slips \cap {"edited"}
    /\ pc' = "idle"
    /\ UNCHANGED <<jvm, conf, before>>

(* By hand, by the enabled unit of a host that boots, by action_reboot.yml *)
(* (main.yml then finds it started: nothing is recorded).                  *)
OtherStart ==
    /\ pc = "idle"
    /\ Starts
    /\ UNCHANGED <<disk, seeds, record, recorded, pc, before>>

(* stop_rack, a crash.                                                     *)
Stops ==
    /\ pc = "idle"
    /\ running
    /\ running' = FALSE
    /\ UNCHANGED <<conf, loaded, liveSeeds, record, recorded, pc, before, slips>>

-----------------------------------------------------------------------------
(* seeds_apply.yml                                                         *)

(* Checksum, then write; reloaded even when the file was already right.    *)
WriteSeeds(w) ==
    /\ pc = "idle"
    /\ WriteSeedsLine(w) \/ (w = seeds /\ UNCHANGED conf)
    /\ before' = IF running THEN Checksum(Yaml) ELSE Absent
    /\ slips' = slips \cup Former(seeds, w)
    /\ pc' = IF running THEN "seeds_written" ELSE "idle"
    /\ UNCHANGED <<jvm, record, recorded>>

(* nodetool reloadseeds reads cassandra.yaml again.                        *)
ReloadSeeds ==
    /\ pc = "seeds_written"
    /\ liveSeeds' = seeds
    /\ pc' = "seeds_reloaded"
    /\ UNCHANGED <<running, loaded, conf, record, recorded, before, slips>>

(* Mutant: recorded whatever else waits for a restart.                     *)
RecordSeedsAlways ==
    /\ pc = "seeds_reloaded"
    /\ record' = IF recorded THEN [record EXCEPT ![Yaml] = Checksum(Yaml)] ELSE record
    /\ pc' = "idle"
    /\ before' = Absent
    /\ UNCHANGED <<jvm, conf, recorded, slips>>

(* Mutant: the seeds made live are not recorded.                           *)
RecordSeedsNever ==
    /\ pc = "seeds_reloaded"
    /\ pc' = "idle"
    /\ before' = Absent
    /\ UNCHANGED <<jvm, conf, record, recorded, slips>>

(* Record the live seeds, unless another change waits for a restart.       *)
RecordSeeds ==
    /\ pc = "seeds_reloaded"
    /\ record' = IF recorded /\ record[Yaml] = before
                 THEN [record EXCEPT ![Yaml] = Checksum(Yaml)]
                 ELSE record
    /\ pc' = "idle"
    /\ before' = Absent
    /\ UNCHANGED <<jvm, conf, recorded, slips>>

(* A task fails, the node does not join in time, the controller stops.     *)
RunStops ==
    /\ pc # "idle"
    /\ slips' = slips \cup (IF pc = "started" THEN {} ELSE {"seeds"})
    /\ pc' = "idle"
    /\ before' = Absent
    /\ UNCHANGED <<jvm, conf, record, recorded>>

-----------------------------------------------------------------------------
Next ==
    \/ \E f \in Files, w \in Versions : RoleWrites(f, w)
    \/ \E w \in Versions : RoleWritesSeeds(w) \/ WriteSeeds(w)
    \/ HandEdits \/ RoleStarts \/ Snapshot \/ OtherStart \/ Stops
    \/ ConfigReloads \/ ReloadSeeds \/ RecordSeeds \/ RunStops

Spec == Init /\ [][Next]_vars

-----------------------------------------------------------------------------
(* Between the runs of the roles, of a node with a record.                 *)
Settled == running /\ pc = "idle" /\ recorded

NoneOf(S) == slips \cap S = {}

(* apply_config restarts "a node still running with an older configuration *)
(* than the one on disk" (guide_roles.rst): no change of a setting or of   *)
(* the unit escapes it, whoever made it and in whatever order with the     *)
(* seeds, the starts, the stops and the runs that stopped halfway; but one *)
(* that brings a former content back after a start that was not recorded.  *)
(* Nor does a change of the seeds, while no former content comes back.     *)
SettingsTold ==
    Settled /\ NoneOf({"edited"}) =>
        /\ disk # loaded /\ ~{"former", "unrecorded"} \subseteq slips => Pending
        /\ seeds # liveSeeds /\ NoneOf({"former"}) => Pending

(* "a file rewritten with the same content, or a change applied live, is   *)
(* not pending" (config_snapshot.yml): a record of every file never has a  *)
(* node restarted for nothing, while every start is recorded and the seeds *)
(* are left to seeds_apply.yml.                                            *)
PendingIsReal ==
    Settled /\ NoneOf({"edited", "former", "unrecorded", "seeds"})
            /\ Pending /\ (\A f \in Files : record[f] # Absent)
        => disk # loaded \/ seeds # liveSeeds

(* What the documents say of it without those conditions.  "The ones it    *)
(* started with, recorded by config_snapshot.yml at each start"            *)
(* (config_pending.yml): any content on disk that is not the one it        *)
(* started with is pending.                                                *)
StartedWithTold == Settled /\ NoneOf({"edited"}) /\ disk # loaded => Pending

(* "A change applied live is not pending": nor are the seeds, whichever    *)
(* role applied them.                                                      *)
LiveIsNotPending ==
    Settled /\ NoneOf({"edited", "former", "unrecorded"})
            /\ Pending /\ (\A f \in Files : record[f] # Absent)
        => disk # loaded \/ seeds # liveSeeds

=============================================================================
