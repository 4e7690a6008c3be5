------------------------------- MODULE MCImport -------------------------------
(***************************************************************************)
(* A running cluster brought under the collection, for TLC: the inventory  *)
(* an import writes (InventoryImport), what the import and the roles make  *)
(* of cassandra.yaml (ConfigImport), of owners, groups and modes           *)
(* (FilePermissions).  They share nothing here: a behaviour is of one of   *)
(* them, the other two stay at one of their initial states.                *)
(***************************************************************************)
EXTENDS MCInventoryImport

CONSTANTS
    Yaml, JvmOptions, PublicFiles, JmxFiles, Dirs, SystemDirs, Perms, DirPerms,
    Accounts, OtherGroups, Edits, MaxEdits,
    Life, Unwritten, Texts, Numbers, Toggles, Data, OtherDirs, Extras, Default, Under,
    Rejects, Files, Edited, Storages, Added, NoDir,
    NotThere, Unread, Null

VARIABLES
    part,       \* whose behaviour it is
    perm, dir, unit, unitKept, jmx, settings, settingsRead, unread, announced, plan, step, reads, edits,
    file, storage, up, runs, installed, yaml, yamlRead, was, told, applied, keptFile, task, yamlChanges

Permissions == INSTANCE FilePermissions WITH
    Missing <- NotThere, MaxImports <- MaxEdits,
    inv <- settings, imported <- settingsRead, told <- announced, pc <- step, imports <- reads
Config == INSTANCE ConfigImport WITH
    Missing <- NotThere, Changes <- Added,
    inv <- yaml, imported <- yamlRead, kept <- keptFile, pc <- task, changes <- yamlChanges

ASSUME PermissionsAssumption == Permissions!PermsAssumption
ASSUME ConfigAssumption      == Config!KeysAssumption

permissionVars == <<perm, dir, unit, unitKept, jmx, settings, settingsRead, unread, announced, plan,
                    step, reads, edits>>
configVars     == <<file, storage, up, runs, installed, yaml, yamlRead, was, told, applied, keptFile,
                    task, yamlChanges>>
allVars        == <<part, vars, permissionVars, configVars>>

-----------------------------------------------------------------------------
(* Nodes as the packages make them, their account another, their files      *)
(* edited by hand or made by another tool.                                  *)
Mode(o, g, w)  == [owner |-> o, group |-> g, other |-> w]
Owned(o, g, m) == [owner |-> o, group |-> g, mode |-> m]
RW  == {"r", "w"}
RX  == {"r", "x"}
RWX == {"r", "w", "x"}

MCPerms == {Owned("root", "cassandra", Mode(RW, {"r"}, {})),
            Owned("dbsvc", "dbsvc", Mode(RW, {}, {})),
            Owned("root", "ops", Mode(RW, {"r"}, {"r"}))}
MCDirPerms == {Owned("cassandra", "cassandra", Mode(RWX, RX, {})),
               Owned("cassandra", "cassandra", Mode(RX, RWX, {})),
               Owned("root", "ops", Mode(RWX, RWX, {})),
               Owned("dbsvc", "dbsvc", Mode(RWX, {}, {}))}
MCAccounts    == {[user |-> "cassandra", group |-> "cassandra"], [user |-> "dbsvc", group |-> "ops"]}
MCOtherGroups == [u \in {"cassandra", "dbsvc", "root"} |-> IF u = "dbsvc" THEN {"cassandra"} ELSE {}]
MCEdits       == {[files |-> (<<"env", "mode">> :> Mode({"r"}, {}, {}))],
                  [user |-> "dbsvc", userGroup |-> "ops"]}

Packaged == Owned("root", "cassandra", Mode(RW, {"r"}, {}))
Made     == Owned("cassandra", "cassandra", Mode(RWX, RX, {}))

(* Each key as the role writes it, then one of them, or one and a key that  *)
(* is not the template's, otherwise.                                        *)
TemplateOf == Life \cup Texts \cup Numbers \cup Toggles \cup {Data} \cup OtherDirs
KeysOf     == TemplateOf \cup Extras
Line(v, h) == <<[value |-> v, how |-> h]>>
MCDefault  == "cluster" :> "Test" @@ "tokens" :> "16" @@ "text" :> "d" @@ "number" :> "8" @@
              "toggle" :> Null @@ "data" :> "/data" @@ "hints" :> "/hints"
Stock      == [k \in KeysOf |->
                  IF k \in Extras \cup Toggles THEN <<>> ELSE Line(MCDefault[k], "plain")]
Ways(k)    == {Line("v", "plain"), Line(Null, "plain")} \cup
              IF k \in Extras THEN {}
              ELSE {<<>>, Line("v", "odd"), Line(Null, "odd"), Line("w", "plain") \o Line("v", "plain")}
With(k, w) == [Stock EXCEPT ![k] = w]
MCFiles    == UNION {{With(k, w) : w \in Ways(k)} : k \in KeysOf} \cup
              {[With(k, w) EXCEPT ![e] = Line("v", "plain")] :
                  k \in TemplateOf \ Life, w \in {<<>>, Line("v", "plain"), Line("v", "odd")}, e \in Extras}
MCEdited   == {With("old", Line("v", "plain")), With("text", <<>>)}
MCStorages == {NoDir, "pkg", "tar"}
MCUnder    == "pkg" :> ("data" :> "/data" @@ "hints" :> "/hints") @@
              "tar" :> ("data" :> "/t/data" @@ "hints" :> "/t/hints")
MCRejects  == 1 :> {"old", "new"} @@ 2 :> {"old"}
MCAdded    == {"new" :> "v", "old" :> "v", "text" :> "v"}
MCUnwritten == "tokens" :> "1"

-----------------------------------------------------------------------------
(* What the parts that do not run stay at.                                  *)
Empty      == live = (CHOOSE l \in Lives : TRUE) /\ files = {} /\ hosts = {}
AsPackaged == /\ perm = [n \in {Yaml} \cup JvmOptions \cup PublicFiles \cup JmxFiles |-> Packaged]
              /\ dir = [d \in Dirs |-> Made]
              /\ unit = [user |-> "cassandra", group |-> "cassandra"]
AsWritten  == file = Stock /\ storage = NoDir /\ up = TRUE /\ installed = 1 /\ runs = 1

(* What directories have matters where the files are as packaged, and the   *)
(* other way round; a node has its cassandra.yaml and JVM options, the JMX  *)
(* users' files or none.                                                    *)
ImportInit ==
    /\ \/ part = "inventory" /\ AsPackaged /\ AsWritten
       \/ part = "permissions" /\ Empty /\ AsWritten
       \/ part = "config" /\ Empty /\ AsPackaged
    /\ Init /\ Config!Init /\ Permissions!Init
    /\ \/ \A d \in Dirs : dir[d] = Made
       \/ \A n \in DOMAIN perm : perm[n] = Packaged
    /\ \A n \in {Yaml} \cup JvmOptions : perm[n] # NotThere
    /\ \A n \in JmxFiles : perm[n] \in {Packaged, NotThere}

Inventories == part = "inventory" /\ Next /\ UNCHANGED <<part, permissionVars, configVars>>
OwnersModes == part = "permissions" /\ Permissions!Next /\ UNCHANGED <<part, vars, configVars>>
YamlFiles   == part = "config" /\ Config!Next /\ UNCHANGED <<part, vars, permissionVars>>

ImportSpec == ImportInit /\ [][Inventories \/ OwnersModes \/ YamlFiles]_allVars

(* FilePermissions: an imported node's owners, groups and modes stay.       *)
KeptAsFound == Permissions!KeptAsFound

(* ConfigImport: an imported cassandra.yaml says what it said.              *)
AsImported == Config!AsImported

(* FilePermissions, ConfigImport: what the roles leave, Cassandra's account *)
(* can use and its release starts with.                                     *)
CanStart == Permissions!AccountCanUse /\ Config!StartsAgain
=============================================================================
