----------------------------- MODULE ImportProofs -----------------------------
(***************************************************************************)
(* Proofs about a running cluster brought under the collection: what       *)
(* becomes of cassandra.yaml, for any keys, files, edits and releases; what *)
(* becomes of owners, groups and modes, for any files, directories,        *)
(* accounts and groups; what Cassandra can start with and use after it;    *)
(* what becomes of the other clusters' files of the inventory directory.   *)
(***************************************************************************)
EXTENDS MCImport, TLAPS

ImportNext == Inventories \/ OwnersModes \/ YamlFiles

(* A step of the whole is a step of each part, or leaves it as it is.      *)
LEMMA StepOfEach ==
    ASSUME [ImportNext]_allVars
    PROVE  [Permissions!Next]_permissionVars /\ [Config!Next]_configVars
BY DEF ImportNext, Inventories, OwnersModes, YamlFiles, allVars, permissionVars, configVars

-----------------------------------------------------------------------------
(* cassandra.yaml.                                                         *)

(* A key's value in the template rendered.                                 *)
LEMMA ValueRendered ==
    ASSUME NEW i, NEW k \in Config!Keys
    PROVE  Config!Value(Config!Rendered(i), k) =
             IF k \in Config!Template THEN i.vars[k]
             ELSE IF k \in DOMAIN i.extras THEN i.extras[k] ELSE Null
<1> DEFINE line(v) == <<[value |-> v, how |-> "plain"]>>
<1>1. ASSUME NEW v PROVE line(v) # <<>> /\ Config!Last(line(v)).value = v
  BY DEF Config!Last
<1>2. Config!Rendered(i)[k] =
        IF k \in Config!Template THEN IF k \in Toggles /\ i.vars[k] = Null THEN <<>> ELSE line(i.vars[k])
        ELSE IF k \in DOMAIN i.extras THEN line(i.extras[k]) ELSE <<>>
  BY DEF Config!Rendered
<1> HIDE DEF line
<1> QED BY <1>1, <1>2 DEF Config!Value

(* What is read of a directory the file names is not left empty.           *)
LEMMA DirectoriesRead ==
    ASSUME NEW f, NEW d, NEW k \in Config!Directories, Config!Value(f, k) # Null
    PROVE  Config!Variable(f, d, k) # Null
BY ConfigAssumption DEF Config!KeysAssumption, Config!Variable, Config!LeftOut, Config!Found

(* Where both files name each directory, the storage directory says nothing. *)
LEMMA SameAnywhere ==
    ASSUME NEW f, NEW g, NEW d,
           \A k \in Config!Directories : Config!Value(f, k) # Null /\ Config!Value(g, k) # Null,
           \A k \in Config!Keys : Config!Settings(f, d)[k] = Config!Settings(g, d)[k]
    PROVE  Config!SameSettings(f, g, NoDir)
<1>1. ASSUME NEW k \in Config!Keys PROVE Config!Value(f, k) = Config!Value(g, k)
  BY <1>1 DEF Config!Settings
<1> QED BY <1>1 DEF Config!SameSettings, Config!Settings

(* What a key the template does not have is, under any storage directory.  *)
LEMMA ExtraValue ==
    ASSUME NEW f, NEW g, NEW d, Config!SameSettings(f, g, d), NEW k \in Extras
    PROVE  Config!Value(f, k) = Config!Value(g, k)
<1>1. k \in Config!Keys /\ k \notin Config!Directories
  BY ConfigAssumption DEF Config!KeysAssumption, Config!Keys, Config!Template
<1>2. Config!Settings(f, d)[k] = Config!Settings(g, d)[k]
  BY DEF Config!SameSettings
<1> QED BY <1>1, <1>2 DEF Config!Settings

(* What the report says, of the file as it was then: a key it does not name *)
(* is the same in the file the role would write; and the storage directory *)
(* the inventory has for it is the node's, unless nothing is left to it.   *)
ReportHolds ==
    /\ \A k \in Config!Keys \ told :
         yaml.keep \/ Config!Settings(was, storage)[k] = Config!Settings(Config!Rendered(yaml), storage)[k]
    /\ yaml.storageDir \in {storage, NoDir}
    /\ yaml.storageDir = NoDir =>
         \/ storage = NoDir
         \/ \A k \in Config!Directories :
              Config!Value(was, k) # Null /\ Config!Value(Config!Rendered(yaml), k) # Null

(* The file is the one imported, or the one written where a change was told. *)
FileIs == file = was \/ (~yaml.keep /\ told # {} /\ file = Config!Rendered(yaml))

(* The role keeps the file where nothing was told, or it is asked to.      *)
KeepsIt == task = "confirm" /\ (told = {} \/ yaml.keep) => keptFile

ImportedInv == (yamlRead => ReportHolds /\ FileIs /\ KeepsIt)

LEMMA ImportedInit == ImportInit => ImportedInv
BY DEF ImportInit, Config!Init, ImportedInv

LEMMA ImportedStep == ImportedInv /\ [Config!Next]_configVars => ImportedInv'
<1> SUFFICES ASSUME ImportedInv, [Config!Next]_configVars PROVE ImportedInv'
  OBVIOUS
<1>1. CASE UNCHANGED configVars
  BY <1>1 DEF configVars, ImportedInv, ReportHolds, FileIs, KeepsIt, Config!Rendered
<1>2. CASE Config!Import
  <2> DEFINE i == yaml'
             read == Config!Imported(file, storage, Config!Judged)
  <2>1. /\ told' = Config!Told(file, i, storage, Config!Judged)
        /\ was' = file /\ file' = file /\ storage' = storage /\ task' = task /\ task = "idle"
    BY <1>2 DEF Config!Import, Config!Node
  <2>2. i.vars = [k \in Config!Template |-> Config!Variable(file, storage, k)]
        /\ i.storageDir = Config!StorageDir(file, storage)
    BY <1>2 DEF Config!Import, Config!Imported
  <2> HIDE DEF i
  <2>3. ASSUME NEW k \in Config!Keys \ told', ~i.keep
        PROVE  Config!Settings(file, storage)[k] = Config!Settings(Config!Rendered(i), storage)[k]
    BY <2>1, <2>3 DEF Config!Told, Config!Differences
  <2>4. i.storageDir \in {storage, NoDir}
    BY <2>2 DEF Config!StorageDir
  <2>5. ASSUME i.storageDir = NoDir, storage # NoDir, NEW k \in Config!Directories
        PROVE  Config!Value(file, k) # Null /\ Config!Value(Config!Rendered(i), k) # Null
    <3>1. Config!Value(file, k) # Null
      BY <2>2, <2>5 DEF Config!StorageDir
    <3>2. k \in Config!Template /\ k \in Config!Keys
      BY DEF Config!Template, Config!Keys
    <3>3. i.vars[k] # Null
      BY <2>2, <3>1, <3>2, DirectoriesRead
    <3> QED BY <3>1, <3>2, <3>3, ValueRendered
  <2>6. ReportHolds'
    BY <2>1, <2>3, <2>4, <2>5 DEF ReportHolds, i
  <2> QED BY <2>1, <2>6 DEF ImportedInv, FileIs, KeepsIt
<1>3. CASE Config!Compare
  <2>1. UNCHANGED <<file, storage, yaml, yamlRead, was, told>>
    BY <1>3 DEF Config!Compare, Config!Node, Config!Inventory
  <2>2. ASSUME yamlRead, told = {}, ~yaml.keep PROVE keptFile'
    <3> DEFINE d == IF yaml.storageDir # NoDir THEN yaml.storageDir ELSE IF up THEN storage ELSE NoDir
               g == Config!Rendered(yaml)
    <3>1. keptFile' = (yaml.keep \/ Config!SameSettings(file, g, d))
      BY <1>3 DEF Config!Compare
    <3>2. file = was /\ ReportHolds
      BY <2>2 DEF ImportedInv, FileIs
    <3>3. \A k \in Config!Keys : Config!Settings(file, storage)[k] = Config!Settings(g, storage)[k]
      BY <2>2, <3>2 DEF ReportHolds
    <3>4. Config!SameSettings(file, g, storage)
      BY <3>3 DEF Config!SameSettings, Config!Settings
    <3>5. d = storage \/ (d = NoDir /\ yaml.storageDir = NoDir)
      BY <3>2 DEF ReportHolds
    <3>6. ASSUME yaml.storageDir = NoDir, storage # NoDir PROVE Config!SameSettings(file, g, NoDir)
      <4>1. \A k \in Config!Directories : Config!Value(file, k) # Null /\ Config!Value(g, k) # Null
        BY <3>2, <3>6 DEF ReportHolds
      <4> HIDE DEF g
      <4> QED BY <4>1, <3>3, SameAnywhere
    <3> HIDE DEF d, g
    <3> QED BY <3>1, <3>4, <3>5, <3>6
  <2>3. yaml.keep => keptFile'
    BY <1>3 DEF Config!Compare
  <2> QED BY <2>1, <2>2, <2>3 DEF ImportedInv, ReportHolds, FileIs, KeepsIt
<1>4. CASE Config!Write
  <2>1. UNCHANGED <<storage, yaml, yamlRead, was, told>> /\ task = "confirm" /\ task' = "idle"
        /\ file' = IF keptFile THEN file ELSE Config!Rendered(yaml)
    BY <1>4 DEF Config!Write, Config!Node, Config!Inventory
  <2> QED BY <2>1 DEF ImportedInv, ReportHolds, FileIs, KeepsIt
<1>5. CASE Config!Declined \/ Config!Start \/ Config!Stop \/ Config!Install
  <2>1. UNCHANGED <<file, storage, yaml, yamlRead, was, told, keptFile>> /\ task' \in {task, "idle"}
    BY <1>5 DEF Config!Declined, Config!Start, Config!Stop, Config!Install, Config!Change,
         Config!Node, Config!Inventory
  <2> QED BY <2>1 DEF ImportedInv, ReportHolds, FileIs, KeepsIt
<1>6. CASE Config!HandEdit \/ Config!Edit
  BY <1>6 DEF Config!HandEdit, Config!Edit, ImportedInv
<1> QED BY <1>1, <1>2, <1>3, <1>4, <1>5, <1>6 DEF Config!Next

(* An imported cassandra.yaml says what it said: whatever the role does,   *)
(* Cassandra gets the settings it got, but those the report named; where   *)
(* it named none, the file is not touched.                                 *)
THEOREM ImportedSaysTheSame == ImportSpec => []AsImported
<1>1. ImportedInv => AsImported
  BY DEF ImportedInv, ReportHolds, FileIs, AsImported, Config!AsImported
<1>2. ImportedInv /\ [ImportNext]_allVars => ImportedInv'
  BY StepOfEach, ImportedStep
<1> QED BY ImportedInit, <1>1, <1>2, PTL DEF ImportSpec, ImportNext

-----------------------------------------------------------------------------
(* What the installed release refuses to start with.                       *)
NothingRejected == \A k \in Extras \cap Rejects[installed] : Config!Value(file, k) = Null

(* What the role found before it asked: a file it will write has no key the *)
(* release rejects, nor has one it keeps for its settings.                 *)
FoundFit ==
    task = "confirm" =>
        \/ yaml.keep
        \/ DOMAIN yaml.extras \cap Rejects[installed] = {} /\ (keptFile => NothingRejected)

StartsInv == (applied => NothingRejected) /\ FoundFit

LEMMA RenderedFit ==
    ASSUME DOMAIN yaml.extras \cap Rejects[installed] = {}, NEW k \in Extras \cap Rejects[installed]
    PROVE  Config!Value(Config!Rendered(yaml), k) = Null
<1>1. k \in Config!Keys /\ k \notin Config!Template
  BY ConfigAssumption DEF Config!KeysAssumption, Config!Keys
<1> QED BY <1>1, ValueRendered

LEMMA StartsInit == ImportInit => StartsInv
BY DEF ImportInit, Config!Init, StartsInv, FoundFit

LEMMA StartsStep == StartsInv /\ [Config!Next]_configVars => StartsInv'
<1> SUFFICES ASSUME StartsInv, [Config!Next]_configVars PROVE StartsInv'
  OBVIOUS
<1>1. CASE UNCHANGED configVars
  BY <1>1 DEF configVars, StartsInv, NothingRejected, FoundFit
<1>2. CASE Config!Import
  <2>1. UNCHANGED <<file, installed, applied, task>> /\ task = "idle"
    BY <1>2 DEF Config!Import, Config!Node
  <2> QED BY <2>1 DEF StartsInv, NothingRejected, FoundFit
<1>3. CASE Config!Compare
  <2> DEFINE d == IF yaml.storageDir # NoDir THEN yaml.storageDir ELSE IF up THEN storage ELSE NoDir
             g == Config!Rendered(yaml)
  <2>1. UNCHANGED <<file, installed, yaml, applied>> /\ DOMAIN yaml.extras \cap Rejects[installed] = {}
        /\ keptFile' = (yaml.keep \/ Config!SameSettings(file, g, d))
    BY <1>3 DEF Config!Compare, Config!Node, Config!Inventory, Config!Refuses
  <2>2. ASSUME Config!SameSettings(file, g, d), NEW k \in Extras \cap Rejects[installed]
        PROVE  Config!Value(file, k) = Null
    <3>1. Config!Value(g, k) = Null
      BY <2>1, RenderedFit
    <3> HIDE DEF d, g
    <3> QED BY <2>2, <3>1, ExtraValue
  <2> HIDE DEF d, g
  <2> QED BY <2>1, <2>2 DEF StartsInv, NothingRejected, FoundFit
<1>4. CASE Config!Write
  <2>1. UNCHANGED <<installed, yaml>> /\ task = "confirm" /\ task' = "idle" /\ applied' = ~yaml.keep
        /\ file' = IF keptFile THEN file ELSE Config!Rendered(yaml)
    BY <1>4 DEF Config!Write, Config!Node, Config!Inventory
  <2> QED BY <2>1, RenderedFit DEF StartsInv, NothingRejected, FoundFit
<1>5. CASE Config!Declined \/ Config!Start \/ Config!Stop
  <2>1. UNCHANGED <<file, installed, yaml, applied, keptFile>> /\ task' \in {task, "idle"}
    BY <1>5 DEF Config!Declined, Config!Start, Config!Stop, Config!Node, Config!Inventory
  <2> QED BY <2>1 DEF StartsInv, NothingRejected, FoundFit
<1>6. CASE Config!HandEdit \/ Config!Install
  BY <1>6 DEF Config!HandEdit, Config!Install, Config!Change, StartsInv, FoundFit
<1>7. CASE Config!Edit
  <2>1. UNCHANGED <<file, installed, applied, task>> /\ task = "idle"
    BY <1>7 DEF Config!Edit, Config!Change, Config!Node
  <2> QED BY <2>1 DEF StartsInv, NothingRejected, FoundFit
<1> QED BY <1>1, <1>2, <1>3, <1>4, <1>5, <1>6, <1>7 DEF Config!Next

(* A file the role wrote or kept for its settings has no key, with a value, *)
(* that the installed release refuses to start with.                       *)
LEMMA WrittenStartsAgain == ImportSpec => []Config!StartsAgain
<1>1. StartsInv => Config!StartsAgain
  BY DEF StartsInv, NothingRejected, Config!StartsAgain
<1>2. StartsInv /\ [ImportNext]_allVars => StartsInv'
  BY StepOfEach, StartsStep
<1> QED BY StartsInit, <1>1, <1>2, PTL DEF ImportSpec, ImportNext

-----------------------------------------------------------------------------
(* Owners, groups and modes.                                               *)

(* The account the inventory gives, and what it may do with a directory.   *)
AccountMay(d) == Permissions!May(settings.user, Permissions!Groups(Permissions!Given), dir[d], Permissions!Bits)

(* What a file is to have never depends on the files named one by one but  *)
(* where these name it.                                                    *)
LEMMA BaseAlike ==
    ASSUME NEW s, NEW t, NEW n,
           /\ s.user = t.user /\ s.userGroup = t.userGroup /\ s.owner = t.owner
           /\ s.group = t.group /\ s.mode = t.mode /\ s.public = t.public
    PROVE  Permissions!Base(n, s) = Permissions!Base(n, t)
BY DEF Permissions!Base

(* What most of the files have: settings with no file named, the account   *)
(* the one the settings start from.                                        *)
LEMMA CommonShape ==
    ASSUME NEW read, NEW known \in BOOLEAN
    PROVE  LET a == Permissions!AccountSettings(known)
           IN  \E o, g, m, p : Permissions!CommonSettings(read, known) =
                 [user |-> a.user, userGroup |-> a.userGroup, owner |-> o, group |-> g, mode |-> m,
                  public |-> p, files |-> <<>>]
<1> DEFINE a == Permissions!AccountSettings(known)
<1>1. PICK u, ug, g1 : a = [user |-> u, userGroup |-> ug, owner |-> "root", group |-> g1,
                  mode |-> Permissions!M0640, public |-> Permissions!M0644, files |-> <<>>]
  BY DEF Permissions!AccountSettings, Permissions!RoleDefaults
<1>2. PICK o, g, m, p : Permissions!CommonSettings(read, known) =
        [a EXCEPT !.owner = o, !.group = g, !.mode = m, !.public = p]
  BY DEF Permissions!CommonSettings
<1> HIDE DEF a
<1>3. Permissions!CommonSettings(read, known) =
        [user |-> a.user, userGroup |-> a.userGroup, owner |-> o, group |-> g, mode |-> m,
         public |-> p, files |-> <<>>]
  BY <1>1, <1>2
<1> QED BY <1>3, Zenon DEF a

(* A file that was read is to have what it has.                            *)
LEMMA SettingsReadAs ==
    ASSUME NEW read, NEW known \in BOOLEAN, NEW n \in Permissions!ThereIn(read),
           read[n] = [k \in Permissions!Keys |-> read[n][k]]
    PROVE  Permissions!Wanted(n, Permissions!SettingsRead(read, known)) = read[n]
<1> DEFINE acc == Permissions!AccountSettings(known)
           common == Permissions!CommonSettings(read, known)
           differ == {d \in Permissions!ThereIn(read) \X Permissions!Keys :
                        read[d[1]][d[2]] # Permissions!Wanted(d[1], common)[d[2]]}
           named == [d \in differ |-> read[d[1]][d[2]]]
           s == [common EXCEPT !.files = named]
<1>1. PICK o, g, m, p : common =
        [user |-> acc.user, userGroup |-> acc.userGroup, owner |-> o, group |-> g, mode |-> m,
         public |-> p, files |-> <<>>]
  BY CommonShape
<1>2. s = [user |-> acc.user, userGroup |-> acc.userGroup, owner |-> o, group |-> g, mode |-> m,
           public |-> p, files |-> named]
  BY <1>1
<1>3. Permissions!SettingsRead(read, known) = s
  BY DEF Permissions!SettingsRead
<1>4. Permissions!Base(n, s) = Permissions!Base(n, common) /\ s.files = named /\ common.files = <<>>
  <2> HIDE DEF named, s, common
  <2> QED BY <1>1, <1>2, BaseAlike
<1>5. ASSUME NEW k \in Permissions!Keys
      PROVE  Permissions!Wanted(n, s)[k] = read[n][k]
  <2>1. <<n, k>> \in differ <=> read[n][k] # Permissions!Wanted(n, common)[k]
    OBVIOUS
  <2>2. Permissions!Wanted(n, common)[k] = Permissions!Base(n, common)[k]
    <3> HIDE DEF common
    <3>1. <<n, k>> \notin DOMAIN common.files
      BY <1>4
    <3> QED BY <3>1 DEF Permissions!Wanted
  <2>3. <<n, k>> \in differ => named[<<n, k>>] = read[n][k]
    OBVIOUS
  <2>4. DOMAIN named = differ
    OBVIOUS
  <2> HIDE DEF named, s, common, differ
  <2> QED BY <2>1, <2>2, <2>3, <2>4, <1>4 DEF Permissions!Wanted
<1> HIDE DEF s
<1> QED BY <1>3, <1>5 DEF Permissions!Wanted

(* Known, it is the account the settings give.                             *)
LEMMA SettingsReadAccount ==
    ASSUME NEW read, NEW known \in BOOLEAN, known
    PROVE  LET s == Permissions!SettingsRead(read, known)
           IN  s.user = unit.user /\ s.userGroup = unit.group
<1> DEFINE common == Permissions!CommonSettings(read, known)
           a      == Permissions!AccountSettings(known)
<1>1. PICK o, g, m, p : common =
        [user |-> a.user, userGroup |-> a.userGroup, owner |-> o, group |-> g, mode |-> m, public |-> p, files |-> <<>>]
  BY CommonShape, Zenon
<1>2. a.user = unit.user /\ a.userGroup = unit.group
  BY DEF Permissions!AccountSettings, Permissions!RoleDefaults
<1>3. PICK fs : Permissions!SettingsRead(read, known) = [common EXCEPT !.files = fs]
  BY DEF Permissions!SettingsRead
<1> HIDE DEF common, a
<1> QED BY <1>1, <1>2, <1>3

(* What the roles write of an imported node is what it has, but where the  *)
(* import could not read it, and it said so.                               *)
Whole == \A n \in Permissions!AllFiles :
             perm[n] = NotThere \/ perm[n] = [k \in Permissions!Keys |-> perm[n][k]]
Written == Permissions!ConfigFiles \cup (IF jmx THEN JmxFiles ELSE {})
FilesAsRead ==
    settingsRead \in {"all", "files"} => \A n \in Written :
        perm[n] = NotThere \/ perm[n] = Permissions!Wanted(n, settings) \/ n \in unread \cap announced
AccountAsRead == settingsRead = "all" => settings.user = unit.user /\ settings.userGroup = unit.group
PlanNeeded ==
    /\ plan \subseteq Dirs
    /\ step \in {"write", "create", "give"} => \A d \in plan : dir[d] # NotThere /\ ~AccountMay(d)

KeptInv == Whole /\ FilesAsRead /\ AccountAsRead /\ PlanNeeded

LEMMA WantedWhole ==
    ASSUME NEW n, NEW s
    PROVE  Permissions!Wanted(n, s) = [k \in Permissions!Keys |-> Permissions!Wanted(n, s)[k]]
BY DEF Permissions!Wanted

LEMMA KeptInit == ImportInit => KeptInv
<1> SUFFICES ASSUME ImportInit PROVE KeptInv
  OBVIOUS
<1>1. Permissions!Init
  BY DEF ImportInit
<1>2. Whole
  BY <1>1, PermissionsAssumption DEF Permissions!Init, Permissions!PermsAssumption, Permissions!Whole, Whole
<1> QED BY <1>1, <1>2 DEF Permissions!Init, KeptInv, FilesAsRead, AccountAsRead, PlanNeeded

LEMMA KeptImport == KeptInv /\ Permissions!Import => KeptInv'
<1> SUFFICES ASSUME KeptInv, Permissions!Import PROVE KeptInv'
  OBVIOUS
<1>1. PICK all \in BOOLEAN, users \in BOOLEAN, known \in BOOLEAN, role \in BOOLEAN,
           lost \in {{}} \cup {{n} : n \in Permissions!AllFiles} :
        LET read == [n \in IF all THEN Permissions!ConfigFiles \cup (IF users THEN JmxFiles ELSE {}) ELSE {}
                      |-> IF n \in lost THEN Unread ELSE perm[n]]
        IN  /\ settings' = Permissions!SettingsRead(read, known)
            /\ unread' = {n \in DOMAIN read : read[n] = Unread}
            /\ announced' = Permissions!Differences(settings', read)
            /\ settingsRead' = IF ~all THEN "nothing" ELSE IF known THEN "all" ELSE "files"
            /\ jmx' = users /\ unitKept' = ~role
  BY Zenon DEF Permissions!Import
<1> DEFINE read == [n \in IF all THEN Permissions!ConfigFiles \cup (IF users THEN JmxFiles ELSE {}) ELSE {}
                     |-> IF n \in lost THEN Unread ELSE perm[n]]
<1>2. UNCHANGED <<perm, dir, unit, plan, step>> /\ step = "idle"
  BY DEF Permissions!Import
<1>3. ASSUME settingsRead' \in {"all", "files"}, NEW n \in Written'
      PROVE  perm[n] = NotThere \/ perm[n] = Permissions!Wanted(n, settings') \/ n \in unread' \cap announced'
  <2>1. n \in DOMAIN read /\ all
    BY <1>1, <1>3 DEF Written
  <2>2. read[n] = IF n \in lost THEN Unread ELSE perm[n]
    BY <2>1
  <2>3. settings' = Permissions!SettingsRead(read, known) /\ unread' = {q \in DOMAIN read : read[q] = Unread}
        /\ announced' = Permissions!Differences(settings', read)
    BY <1>1
  <2> HIDE DEF read
  <2>4. CASE read[n] = Unread
    BY <2>1, <2>3, <2>4 DEF Permissions!Differences
  <2>5. CASE read[n] # Unread /\ perm[n] # NotThere
    <3>1. read[n] = perm[n] /\ n \in Permissions!ThereIn(read)
      BY <2>1, <2>2, <2>5 DEF Permissions!ThereIn
    <3>2. n \in Permissions!AllFiles
      BY <1>3 DEF Written, Permissions!AllFiles
    <3>3. read[n] = [k \in Permissions!Keys |-> read[n][k]]
      BY <3>1, <3>2, <2>5 DEF KeptInv, Whole
    <3> QED BY <2>3, <3>1, <3>3, SettingsReadAs
  <2> QED BY <2>4, <2>5
<1>4. AccountAsRead'
  BY <1>1, <1>2, SettingsReadAccount DEF AccountAsRead
<1> QED BY <1>2, <1>3, <1>4 DEF KeptInv, Whole, FilesAsRead, PlanNeeded

(* The account of the inventory, in the settings alone.                    *)
LEMMA MayAlike ==
    ASSUME settings' = settings, NEW d, dir'[d] = dir[d]
    PROVE  AccountMay(d)' <=> AccountMay(d)
BY DEF AccountMay, Permissions!Given, Permissions!Groups, Permissions!May, Permissions!Class

LEMMA KeptStep == KeptInv /\ [Permissions!Next]_permissionVars => KeptInv'
<1> SUFFICES ASSUME KeptInv, [Permissions!Next]_permissionVars PROVE KeptInv'
  OBVIOUS
<1>1. CASE UNCHANGED permissionVars
  BY <1>1 DEF permissionVars, KeptInv, Whole, Written, FilesAsRead, AccountAsRead, PlanNeeded,
       AccountMay, Permissions!Given, Permissions!Groups, Permissions!May, Permissions!Class
<1>2. CASE Permissions!Import
  BY <1>2, KeptImport
<1>3. CASE Permissions!AccountCheck \/ Permissions!Stopped
  <2>1. /\ UNCHANGED <<perm, dir, unit, jmx, settings, settingsRead, unread, announced, plan>>
        /\ step' \in {"look", "idle"}
    BY <1>3 DEF Permissions!AccountCheck, Permissions!Stopped, Permissions!Rest
  <2> QED BY <2>1 DEF KeptInv, Whole, Written, FilesAsRead, AccountAsRead, PlanNeeded
<1>4. CASE Permissions!LookAtDirs
  <2>1. UNCHANGED <<perm, dir, unit, jmx, settings, settingsRead, unread, announced>>
    BY <1>4 DEF Permissions!LookAtDirs
  <2>2. \A d \in plan' : d \in Dirs /\ dir[d] # NotThere /\ ~AccountMay(d)
    BY <1>4 DEF Permissions!LookAtDirs, AccountMay
  <2>3. PlanNeeded'
    BY <2>1, <2>2, MayAlike DEF PlanNeeded
  <2> QED BY <2>1, <2>3 DEF KeptInv, Whole, Written, FilesAsRead, AccountAsRead
<1>5. CASE Permissions!WriteFiles
  <2>1. /\ UNCHANGED <<dir, unit, jmx, settings, settingsRead, unread, announced, plan>>
        /\ step = "write" /\ step' = "create"
        /\ perm' = [n \in Permissions!AllFiles |->
                      IF n \in Permissions!ConfigFiles THEN Permissions!Wanted(n, settings) ELSE perm[n]]
    BY <1>5 DEF Permissions!WriteFiles, Permissions!Task, Permissions!Rest
  <2>2. Whole'
    BY <2>1, WantedWhole DEF KeptInv, Whole
  <2>3. FilesAsRead'
    BY <2>1 DEF KeptInv, FilesAsRead, Written, Permissions!AllFiles
  <2> QED BY <2>1, <2>2, <2>3, MayAlike DEF KeptInv, AccountAsRead, PlanNeeded
<1>6. CASE Permissions!CreateDirs
  <2>1. /\ UNCHANGED <<perm, unit, jmx, settings, settingsRead, unread, announced, plan>>
        /\ step = "create" /\ step' = "give"
        /\ \A d \in Dirs : dir[d] # NotThere => dir'[d] = dir[d]
    BY <1>6 DEF Permissions!CreateDirs, Permissions!Task, Permissions!Rest
  <2>2. PlanNeeded'
    BY <2>1, MayAlike DEF KeptInv, PlanNeeded
  <2> QED BY <2>1, <2>2 DEF KeptInv, Whole, Written, FilesAsRead, AccountAsRead
<1>7. CASE Permissions!GiveDirs
  <2>1. UNCHANGED <<perm, unit, jmx, settings, settingsRead, unread, announced, plan>> /\ step' = "jmx"
    BY <1>7 DEF Permissions!GiveDirs, Permissions!Task, Permissions!Rest
  <2> QED BY <2>1 DEF KeptInv, Whole, Written, FilesAsRead, AccountAsRead, PlanNeeded
<1>8. CASE Permissions!WriteJmx
  <2>1. /\ UNCHANGED <<dir, unit, jmx, settings, settingsRead, unread, announced, plan>> /\ step' = "service"
        /\ perm' = [n \in Permissions!AllFiles |->
                      IF jmx /\ n \in JmxFiles THEN Permissions!Wanted(n, settings) ELSE perm[n]]
    BY <1>8 DEF Permissions!WriteJmx, Permissions!Task, Permissions!Rest
  <2>2. Whole'
    BY <2>1, WantedWhole DEF KeptInv, Whole
  <2>3. FilesAsRead'
    BY <2>1 DEF KeptInv, FilesAsRead, Written, Permissions!AllFiles
  <2> QED BY <2>1, <2>2, <2>3 DEF KeptInv, AccountAsRead, PlanNeeded
<1>9. CASE Permissions!Starts
  <2>1. /\ UNCHANGED <<perm, dir, jmx, settings, settingsRead, unread, announced, plan>> /\ step' = "started"
        /\ unit' = IF unitKept THEN unit ELSE [user |-> settings.user, group |-> settings.userGroup]
    BY <1>9 DEF Permissions!Starts, Permissions!Jvm
  <2> QED BY <2>1 DEF KeptInv, Whole, Written, FilesAsRead, AccountAsRead, PlanNeeded
<1>10. CASE Permissions!Edit
  <2>1. UNCHANGED <<perm, plan, step>> /\ step = "idle" /\ settingsRead' = "no"
    BY <1>10 DEF Permissions!Edit
  <2> QED BY <2>1 DEF KeptInv, Whole, FilesAsRead, AccountAsRead, PlanNeeded
<1> QED BY <1>1, <1>2, <1>3, <1>4, <1>5, <1>6, <1>7, <1>8, <1>9, <1>10
    DEF Permissions!Next, Permissions!Role

(* What a step may change.                                                 *)
FilesStay ==
    settingsRead \in {"all", "files"} => \A n \in Permissions!AllFiles :
        perm'[n] # perm[n] => perm[n] = NotThere \/ n \in unread \cap announced
DirsStay ==
    settingsRead = "all" => \A d \in Dirs :
        dir'[d] # dir[d] =>
            dir[d] = NotThere \/ ~Permissions!May(unit.user, Permissions!Groups(unit), dir[d], Permissions!Bits)

LEMMA StayStep == KeptInv /\ Permissions!Next => FilesStay /\ DirsStay
<1> SUFFICES ASSUME KeptInv, Permissions!Next PROVE FilesStay /\ DirsStay
  OBVIOUS
<1>1. CASE Permissions!WriteFiles
  <2>1. dir' = dir /\ perm' = [n \in Permissions!AllFiles |->
                      IF n \in Permissions!ConfigFiles THEN Permissions!Wanted(n, settings) ELSE perm[n]]
    BY <1>1 DEF Permissions!WriteFiles
  <2> QED BY <2>1 DEF KeptInv, FilesAsRead, Written, FilesStay, DirsStay
<1>2. CASE Permissions!WriteJmx
  <2>1. dir' = dir /\ perm' = [n \in Permissions!AllFiles |->
                      IF jmx /\ n \in JmxFiles THEN Permissions!Wanted(n, settings) ELSE perm[n]]
    BY <1>2 DEF Permissions!WriteJmx
  <2> QED BY <2>1 DEF KeptInv, FilesAsRead, Written, FilesStay, DirsStay
<1>3. CASE Permissions!CreateDirs
  <2>1. perm' = perm /\ \A d \in Dirs : dir[d] # NotThere => dir'[d] = dir[d]
    BY <1>3 DEF Permissions!CreateDirs
  <2> QED BY <2>1 DEF FilesStay, DirsStay
<1>4. CASE Permissions!GiveDirs
  <2>1. perm' = perm /\ step = "give" /\ \A d \in Dirs \ plan : dir'[d] = dir[d]
    BY <1>4 DEF Permissions!GiveDirs, Permissions!Task
  <2>2. ASSUME settingsRead = "all", NEW d \in plan
        PROVE  ~Permissions!May(unit.user, Permissions!Groups(unit), dir[d], Permissions!Bits)
    <3>1. ~AccountMay(d)
      BY <2>1 DEF KeptInv, PlanNeeded
    <3>2. settings.user = unit.user /\ settings.userGroup = unit.group
      BY <2>2 DEF KeptInv, AccountAsRead
    <3>3. Permissions!Groups(Permissions!Given) = Permissions!Groups(unit)
      BY <3>2 DEF Permissions!Groups, Permissions!Given
    <3> QED BY <3>1, <3>2, <3>3 DEF AccountMay
  <2> QED BY <2>1, <2>2 DEF FilesStay, DirsStay
<1>5. CASE \/ Permissions!Import \/ Permissions!AccountCheck \/ Permissions!LookAtDirs
           \/ Permissions!Starts \/ Permissions!Stopped \/ Permissions!Edit
  <2>1. perm' = perm /\ dir' = dir
    BY <1>5 DEF Permissions!Import, Permissions!AccountCheck, Permissions!LookAtDirs, Permissions!Starts,
         Permissions!Stopped, Permissions!Edit
  <2> QED BY <2>1 DEF FilesStay, DirsStay
<1> QED BY <1>1, <1>2, <1>3, <1>4, <1>5 DEF Permissions!Next, Permissions!Role

(* An imported node stays as it is: while nobody edits the inventory, the  *)
(* role changes the owner, group or mode of no file that was there but one *)
(* the import could not read and said so, and of no directory but one      *)
(* Cassandra's account cannot use.                                         *)
THEOREM OwnersAndModesStay == ImportSpec => KeptAsFound
<1>1. KeptInv /\ [ImportNext]_allVars => KeptInv'
  BY StepOfEach, KeptStep
<1>2. KeptInv /\ [ImportNext]_allVars => [FilesStay /\ DirsStay]_permissionVars
  BY StepOfEach, StayStep DEF permissionVars
<1>3. ImportSpec => [][FilesStay /\ DirsStay]_permissionVars
  BY KeptInit, <1>1, <1>2, PTL DEF ImportSpec, ImportNext
<1> QED BY <1>3, PTL
    DEF KeptAsFound, Permissions!KeptAsFound, Permissions!vars, permissionVars, FilesStay, DirsStay

-----------------------------------------------------------------------------
(* What the role starts, its account can use.                              *)

(* Nobody but the group has what the others have.                          *)
Fine(p) == /\ p.mode = Permissions!Mode(p.mode.owner, p.mode.group, p.mode.other)
           /\ p.mode.other \subseteq p.mode.group
DirsFine == \A d \in Dirs : dir[d] = NotThere \/ Fine(dir[d])

(* What the role has done so far.                                          *)
FilesWritten ==
    step \in {"create", "give", "jmx", "service"} =>
        \A n \in Permissions!ConfigFiles : perm[n] = Permissions!Wanted(n, settings)
DirsLookedAt ==
    /\ step \in {"write", "create", "give"} => \A d \in Dirs \ SystemDirs :
         (step # "give" /\ dir[d] = NotThere) \/ AccountMay(d) \/ d \in plan
    /\ step \in {"jmx", "service"} => \A d \in Dirs \ SystemDirs : AccountMay(d)

UseInv == DirsFine /\ FilesWritten /\ DirsLookedAt /\ Permissions!AccountCanUse

(* What _usable lets through, the kernel does.                             *)
LEMMA UsableMay ==
    ASSUME NEW d, Fine(dir[d]), Permissions!Usable(dir[d], settings.user, settings.userGroup)
    PROVE  AccountMay(d)
<1> DEFINE p == dir[d]
           user == settings.user
           groups == Permissions!Groups(Permissions!Given)
<1>1. settings.userGroup \in groups
  BY DEF Permissions!Groups, Permissions!Given
<1>2. /\ p.mode["owner"] = p.mode.owner /\ p.mode["group"] = p.mode.group
      /\ p.mode["other"] = p.mode.other /\ p.mode.other \subseteq p.mode.group
  BY DEF Fine
<1>3. \/ user = "root"
      \/ p.owner = user /\ p.mode.owner = Permissions!Bits
      \/ p.owner # user /\ p.group = settings.userGroup /\ p.mode.group = Permissions!Bits
      \/ p.owner # user /\ p.mode.other = Permissions!Bits
  BY DEF Permissions!Usable
<1> HIDE DEF p, user, groups
<1> QED BY <1>1, <1>2, <1>3 DEF AccountMay, Permissions!May, Permissions!Class, p, user, groups

(* A directory the account owns, with all its bits.                        *)
LEMMA OwnerMay ==
    ASSUME NEW d, dir[d].owner = settings.user, dir[d].mode.owner = Permissions!Bits
    PROVE  AccountMay(d)
BY DEF AccountMay, Permissions!May, Permissions!Class

LEMMA UseInit == ImportInit => UseInv
<1> SUFFICES ASSUME ImportInit PROVE UseInv
  OBVIOUS
<1>1. Permissions!Init
  BY DEF ImportInit
<1>2. ASSUME NEW p \in DirPerms PROVE Fine(p)
  BY <1>2, PermissionsAssumption DEF Permissions!PermsAssumption, Permissions!Whole, Fine
<1>3. DirsFine
  BY <1>1, <1>2 DEF Permissions!Init, DirsFine
<1> QED BY <1>1, <1>3 DEF Permissions!Init, UseInv, FilesWritten, DirsLookedAt, Permissions!AccountCanUse

LEMMA UseStep == KeptInv /\ UseInv /\ [Permissions!Next]_permissionVars => UseInv'
<1> SUFFICES ASSUME KeptInv, UseInv, [Permissions!Next]_permissionVars PROVE UseInv'
  OBVIOUS
<1>1. CASE UNCHANGED permissionVars
  BY <1>1, MayAlike DEF permissionVars, UseInv, DirsFine, FilesWritten, DirsLookedAt, AccountMay,
       Permissions!AccountCanUse, Permissions!Given, Permissions!Groups, Permissions!May, Permissions!Class
<1>2. CASE Permissions!Import \/ Permissions!Edit \/ Permissions!AccountCheck \/ Permissions!Stopped
  <2>1. dir' = dir /\ step' \in {"idle", "look"}
    BY <1>2 DEF Permissions!Import, Permissions!Edit, Permissions!AccountCheck, Permissions!Stopped
  <2> QED BY <2>1 DEF UseInv, DirsFine, FilesWritten, DirsLookedAt, Permissions!AccountCanUse
<1>3. CASE Permissions!LookAtDirs
  <2>1. dir' = dir /\ settings' = settings /\ step' = "write"
        /\ plan' = {d \in Dirs \ SystemDirs :
                      /\ dir[d] # NotThere
                      /\ ~Permissions!Usable(dir[d], settings.user, settings.userGroup)
                      /\ ~AccountMay(d)}
    BY <1>3 DEF Permissions!LookAtDirs, AccountMay
  <2>2. ASSUME NEW d \in Dirs \ SystemDirs, dir[d] # NotThere, d \notin plan' PROVE AccountMay(d)
    <3>1. Fine(dir[d])
      BY <2>2 DEF UseInv, DirsFine
    <3> QED BY <2>1, <2>2, <3>1, UsableMay
  <2>3. DirsLookedAt'
    BY <2>1, <2>2, MayAlike DEF DirsLookedAt
  <2> QED BY <2>1, <2>3 DEF UseInv, DirsFine, FilesWritten, Permissions!AccountCanUse
<1>4. CASE Permissions!WriteFiles
  <2>1. dir' = dir /\ settings' = settings /\ plan' = plan /\ step = "write" /\ step' = "create"
        /\ perm' = [n \in Permissions!AllFiles |->
                      IF n \in Permissions!ConfigFiles THEN Permissions!Wanted(n, settings) ELSE perm[n]]
    BY <1>4 DEF Permissions!WriteFiles, Permissions!Task, Permissions!Rest
  <2>2. FilesWritten'
    BY <2>1 DEF FilesWritten, Permissions!AllFiles
  <2>3. DirsLookedAt'
    BY <2>1, MayAlike DEF UseInv, DirsLookedAt
  <2> QED BY <2>1, <2>2, <2>3 DEF UseInv, DirsFine, Permissions!AccountCanUse
<1>5. CASE Permissions!CreateDirs
  <2>1. perm' = perm /\ settings' = settings /\ plan' = plan /\ step = "create" /\ step' = "give"
        /\ dir' = [d \in Dirs |-> IF dir[d] # NotThere THEN dir[d]
                     ELSE [owner |-> settings.user, group |-> settings.userGroup, mode |-> Permissions!M0750]]
    BY <1>5 DEF Permissions!CreateDirs, Permissions!Task, Permissions!Rest
  <2>2. ASSUME NEW d \in Dirs, dir[d] = NotThere PROVE Fine(dir'[d]) /\ AccountMay(d)'
    <3>1. dir'[d] = [owner |-> settings.user, group |-> settings.userGroup, mode |-> Permissions!M0750]
      BY <2>1, <2>2
    <3>2. Fine(dir'[d])
      <4>1. dir'[d].mode = [owner |-> Permissions!Bits, group |-> {"r", "x"}, other |-> {}]
        BY <3>1 DEF Permissions!M0750, Permissions!Mode
      <4> QED BY <4>1 DEF Fine, Permissions!Mode
    <3>3. dir'[d].owner = settings'.user /\ dir'[d].mode.owner = Permissions!Bits
      BY <2>1, <3>1 DEF Permissions!M0750, Permissions!Mode
    <3>4. AccountMay(d)'
      BY <3>3 DEF AccountMay, Permissions!May, Permissions!Class
    <3> QED BY <3>2, <3>4
  <2>3. \A d \in Dirs : dir[d] # NotThere => dir'[d] = dir[d]
    BY <2>1
  <2>4. DirsFine'
    BY <2>1, <2>2, <2>3 DEF UseInv, DirsFine
  <2>5. DirsLookedAt'
    BY <2>1, <2>2, <2>3, MayAlike DEF UseInv, DirsLookedAt
  <2> QED BY <2>1, <2>4, <2>5 DEF UseInv, FilesWritten, Permissions!AccountCanUse
<1>6. CASE Permissions!GiveDirs
  <2>1. perm' = perm /\ settings' = settings /\ step = "give" /\ step' = "jmx"
        /\ dir' = [d \in Dirs |-> IF d \notin plan THEN dir[d]
                     ELSE [owner |-> settings.user, group |-> settings.userGroup,
                           mode |-> [dir[d].mode EXCEPT !.owner = Permissions!Bits]]]
    BY <1>6 DEF Permissions!GiveDirs, Permissions!Task, Permissions!Rest
  <2>2. ASSUME NEW d \in plan PROVE Fine(dir'[d]) /\ AccountMay(d)'
    <3> DEFINE m == dir[d].mode
               q == [m EXCEPT !.owner = Permissions!Bits]
    <3>1. d \in Dirs /\ Fine(dir[d])
      BY <2>1, <2>2 DEF UseInv, DirsFine, KeptInv, PlanNeeded
    <3>2. dir'[d] = [owner |-> settings.user, group |-> settings.userGroup, mode |-> q]
      BY <2>1, <2>2, <3>1
    <3>3. PICK o, g, w : m = [owner |-> o, group |-> g, other |-> w] /\ w \subseteq g
      BY <3>1 DEF Fine, Permissions!Mode
    <3>4. q = [owner |-> Permissions!Bits, group |-> g, other |-> w]
      <4> HIDE DEF m
      <4> QED BY <3>3
    <3> HIDE DEF q
    <3>5. Fine(dir'[d])
      BY <3>2, <3>3, <3>4 DEF Fine, Permissions!Mode
    <3>6. dir'[d].owner = settings'.user /\ dir'[d].mode.owner = Permissions!Bits
      BY <2>1, <3>2, <3>4
    <3>7. AccountMay(d)'
      BY <3>6 DEF AccountMay, Permissions!May, Permissions!Class
    <3> QED BY <3>5, <3>7
  <2>3. \A d \in Dirs \ plan : dir'[d] = dir[d]
    BY <2>1
  <2>4. DirsFine'
    BY <2>2, <2>3 DEF UseInv, DirsFine
  <2>5. DirsLookedAt'
    BY <2>1, <2>2, <2>3, MayAlike DEF UseInv, DirsLookedAt
  <2> QED BY <2>1, <2>4, <2>5 DEF UseInv, FilesWritten, Permissions!AccountCanUse
<1>7. CASE Permissions!WriteJmx
  <2>1. dir' = dir /\ settings' = settings /\ step = "jmx" /\ step' = "service"
        /\ \A n \in Permissions!AllFiles : perm'[n] = perm[n] \/ perm'[n] = Permissions!Wanted(n, settings)
    BY <1>7 DEF Permissions!WriteJmx, Permissions!Task, Permissions!Rest
  <2> QED BY <2>1, MayAlike
      DEF UseInv, DirsFine, FilesWritten, DirsLookedAt, Permissions!AccountCanUse, Permissions!AllFiles
<1>8. CASE Permissions!Starts
  <2>1. /\ step = "service" /\ step' = "started" /\ UNCHANGED <<perm, dir, settings>>
        /\ unit' = Permissions!Jvm /\ Permissions!Unreadable = {}
    BY <1>8 DEF Permissions!Starts
  <2> DEFINE a == Permissions!Jvm
  <2>2. ASSUME NEW n \in Permissions!ConfigFiles
        PROVE  Permissions!May(a.user, Permissions!Groups(a), perm[n], {"r"})
    <3> DEFINE p == Permissions!Wanted(n, settings)
    <3>1. perm[n] = p
      BY <2>1 DEF UseInv, FilesWritten
    <3>2. a.user = "root" \/ "r" \in CASE p.owner = a.user -> p.mode.owner
              [] p.owner # a.user /\ p.group \in Permissions!Groups(a) -> p.mode.group
              [] OTHER -> p.mode.other
      BY <2>1 DEF Permissions!Unreadable
    <3> HIDE DEF p, a
    <3> QED BY <3>1, <3>2 DEF Permissions!May, Permissions!Class
  <2>3. ASSUME NEW d \in Dirs \ SystemDirs, a = Permissions!Given
        PROVE  Permissions!May(a.user, Permissions!Groups(a), dir[d], Permissions!Bits)
    <3>1. AccountMay(d)
      BY <2>1 DEF UseInv, DirsLookedAt
    <3>2. a.user = settings.user
      BY <2>3 DEF Permissions!Given
    <3> HIDE DEF a
    <3> QED BY <2>3, <3>1, <3>2 DEF AccountMay
  <2>4. Permissions!Given' = Permissions!Given /\ unit' = a
    BY <2>1 DEF Permissions!Given
  <2> HIDE DEF a
  <2>5. Permissions!AccountCanUse'
    BY <2>1, <2>2, <2>3, <2>4 DEF Permissions!AccountCanUse, Permissions!Groups
  <2> QED BY <2>1, <2>5 DEF UseInv, DirsFine, FilesWritten, DirsLookedAt
<1> QED BY <1>1, <1>2, <1>3, <1>4, <1>5, <1>6, <1>7, <1>8 DEF Permissions!Next, Permissions!Role

(* What the role starts can read each config file and use each directory.  *)
LEMMA StartedCanUse == ImportSpec => []Permissions!AccountCanUse
<1>1. UseInv => Permissions!AccountCanUse
  BY DEF UseInv
<1>2. KeptInv /\ UseInv /\ [ImportNext]_allVars => KeptInv' /\ UseInv'
  BY StepOfEach, KeptStep, UseStep
<1> QED BY KeptInit, UseInit, <1>1, <1>2, PTL DEF ImportSpec, ImportNext

(* After an import and any runs of the roles, Cassandra can start: its     *)
(* account can read each config file and use each directory the role       *)
(* started it with, and no key its release refuses is in a file the role   *)
(* wrote or kept for its settings.                                         *)
THEOREM ImportedCanStart == ImportSpec => []CanStart
BY StartedCanUse, WrittenStartsAgain, PTL DEF CanStart

-----------------------------------------------------------------------------
(* The inventory directory.                                                *)

(* The groups and the hosts of some nodes.                                 *)
PlacesOf(nodes) == {Chain(Cluster, n)[i] : n \in nodes, i \in 2 .. 4} \cup {Host(n.name) : n \in nodes}

Node(n) == \E a, d, r, b, v, k : n = [name |-> a, dc |-> d, rack |-> r, read |-> b, vars |-> v, keep |-> k]

(* What is written for the nodes does not move them.                       *)
LEMMA WritingPlaces ==
    ASSUME NEW nodes, \A n \in nodes : Node(n), NEW w
    PROVE  PlacesOf(Writing(nodes, w)) = PlacesOf(nodes)
<1> DEFINE to(n) == [n EXCEPT !.vars = [k \in {key \in DOMAIN n.vars \cup {x[2] : x \in w} :
                                                  <<n.name, key>> \in w} |-> LiveOf(n, k)]]
<1>1. ASSUME NEW n \in nodes PROVE to(n).name = n.name /\ to(n).dc = n.dc /\ to(n).rack = n.rack
  <2>1. Node(n)
    OBVIOUS
  <2> QED BY <2>1 DEF Node
<1>2. Writing(nodes, w) = {to(n) : n \in nodes}
  BY DEF Writing
<1> HIDE DEF to
<1>3. ASSUME NEW n \in nodes PROVE Chain(Cluster, to(n)) = Chain(Cluster, n) /\ Host(to(n).name) = Host(n.name)
  BY <1>1 DEF Chain
<1> QED BY <1>2, <1>3 DEF PlacesOf

LEMMA LayoutPlaces ==
    ASSUME NEW nodes
    PROVE  DOMAIN Layout(Cluster, nodes) = PlacesOf(nodes)
BY DEF Layout, PlacesOf

(* A round lays out for the same groups and hosts.                         *)
LEMMA RoundPlaces ==
    ASSUME NEW nodes, \A n \in nodes : Node(n), NEW user, NEW s, DOMAIN s.layout = PlacesOf(nodes)
    PROVE  DOMAIN Round(Cluster, nodes, user, s).layout = PlacesOf(nodes)
<1>1. ASSUME NEW cells, NEW more PROVE DOMAIN AfterRound(Cluster, nodes, s, cells, more).layout = PlacesOf(nodes)
  <2>1. DOMAIN Pinned(nodes, cells, s.layout) = PlacesOf(nodes)
    BY DEF Pinned
  <2>2. DOMAIN Layout(Cluster, Writing(nodes, s.written \cup cells)) = PlacesOf(nodes)
    BY WritingPlaces, LayoutPlaces
  <2> QED BY <2>1, <2>2 DEF AfterRound
<1> QED BY <1>1 DEF Round

LEMMA LaidPlaces ==
    ASSUME NEW nodes, \A n \in nodes : Node(n), NEW user
    PROVE  DOMAIN Laid(Cluster, nodes, user).layout = PlacesOf(nodes)
<1> DEFINE held  == HeldBy(nodes) \ {Cell(t) : t \in LeftToYours(Cluster, nodes, user)}
           first == FirstRound(Cluster, nodes, held, NeverCompared(Cluster, nodes, user))
           one   == Round(Cluster, nodes, user, first)
           two   == Round(Cluster, nodes, user, one)
           three == Round(Cluster, nodes, user, two)
<1>1. DOMAIN first.layout = PlacesOf(nodes)
  <2> HIDE DEF held
  <2> QED BY WritingPlaces, LayoutPlaces DEF FirstRound
<1>2. Laid(Cluster, nodes, user) = LaidAs(Cluster, nodes, user, three)
  BY DEF Laid
<1> HIDE DEF first
<1>3. DOMAIN one.layout = PlacesOf(nodes)
  BY <1>1, RoundPlaces
<1> HIDE DEF one
<1>4. DOMAIN two.layout = PlacesOf(nodes)
  BY <1>3, RoundPlaces
<1> HIDE DEF two
<1>5. DOMAIN three.layout = PlacesOf(nodes)
  BY <1>4, RoundPlaces
<1> HIDE DEF three
<1> QED BY <1>2, <1>5 DEF LaidAs

(* The files an import writes are its cluster's, of the groups and hosts   *)
(* its hosts file names.                                                   *)
LEMMA FilesNamed ==
    ASSUME NEW nodes, \A n \in nodes : Node(n), NEW user, NEW valid,
           NEW f \in FilesOf(Laid(Cluster, nodes, user).layout, Cluster)
    PROVE  f.mark = Cluster /\ Named(f.where, HostsFile(nodes, valid))
<1> DEFINE layout == Laid(Cluster, nodes, user).layout
<1>1. DOMAIN layout = PlacesOf(nodes)
  BY LaidPlaces
<1> HIDE DEF layout
<1>2. f \in FilesOf(layout, Cluster)
  BY DEF layout
<1>3. f.mark = Cluster /\ f.where \in DOMAIN layout
  <2> DEFINE split(w, name, keys) == [where |-> w, file |-> name, mark |-> Cluster,
                                      vars |-> [k \in keys |-> layout[w][k]]]
             both(w) == {split(w, "main", DOMAIN layout[w] \ Secret),
                         split(w, "secrets", DOMAIN layout[w] \cap Secret)}
  <2>1. f \in UNION {both(w) : w \in DOMAIN layout}
    BY <1>2 DEF FilesOf
  <2>2. PICK w \in DOMAIN layout : f \in both(w)
    BY <2>1
  <2> QED BY <2>2
<1> QED BY <1>1, <1>3 DEF PlacesOf, Named, HostsFile

Ours(g) == g.mark \in {Yours, Old, Unnamed, Cluster}

Apart(f) == ~ \E h \in OtherHosts : Named(f.where, h)

(* The import's own files are not named by another cluster's hosts file;    *)
(* what is left to do touches no file of another cluster.                  *)
TodoSpares ==
    \/ todo = NothingLeft
    \/ /\ \E r, h, w, t : todo = [under |-> TRUE, remove |-> r, hosts |-> h, write |-> w, told |-> t]
       /\ \A f \in todo.remove : ~OfOthers(f)
       /\ \A h \in todo.hosts : h.mark = Cluster /\ HostsFileNames(h)
       /\ \A h \in OtherHosts : h.name # Cluster
       /\ \A f \in todo.write : /\ f.mark = Cluster /\ Apart(f)
                                /\ \A g \in files : <<g.where, g.file>> = <<f.where, f.file>> => Ours(g)

OthersInv ==
    /\ TodoSpares
    /\ \A f \in files : f.mark = Cluster => Apart(f)
    /\ \A h \in hosts : HostsFileNames(h)

(* A file taken as the cluster's is no other's.                            *)
LEMMA OwnedApart ==
    ASSUME OthersInv, NEW f \in files, NEW written, OwnerOf(f, written) = Cluster
    PROVE  ~OfOthers(f)
<1> USE ImportAssumption
<1>1. Apart(f) /\ Ours(f)
  <2>1. CASE f.mark \notin {Old, Unnamed}
    BY <2>1 DEF OwnerOf, OthersInv, Ours
  <2>2. CASE f.mark \in {Old, Unnamed}
    <3>1. NamedBy(f.where) = {} \/ NamedBy(f.where) = {Cluster}
      BY <2>2 DEF OwnerOf, Nobody
    <3>2. ASSUME NEW h \in OtherHosts, Named(f.where, h) PROVE FALSE
      <4>1. OfCluster(h) \in NamedBy(f.where) /\ OfCluster(h) # Cluster
        BY <3>2 DEF NamedBy, OtherHosts, OthersOf, Clusters
      <4> QED BY <3>1, <4>1
    <3> QED BY <2>2, <3>2 DEF Apart, Ours
  <2> QED BY <2>1, <2>2
<1> QED BY <1>1 DEF OfOthers, Apart, Ours

LEMMA OthersInit == ImportInit => OthersInv
<1> SUFFICES ASSUME ImportInit PROVE OthersInv
  OBVIOUS
<1>1. todo = NothingLeft /\ \E e \in Earlier : files = e.files /\ hosts = e.hosts
  BY DEF ImportInit, Init
<1> QED BY <1>1, ImportAssumption DEF OthersInv, TodoSpares, Apart, Shares, OtherHosts

LEMMA OthersStep ==
    OthersInv /\ [Next]_vars =>
        /\ OthersInv'
        /\ ~Idle => OtherHosts \subseteq hosts' /\ {f \in files : OfOthers(f)} \subseteq files'
<1> SUFFICES ASSUME OthersInv, [Next]_vars
             PROVE  /\ OthersInv'
                    /\ ~Idle => OtherHosts \subseteq hosts' /\ {f \in files : OfOthers(f)} \subseteq files'
  OBVIOUS
<1> DEFINE Kept == OtherHosts \subseteq hosts' /\ {f \in files : OfOthers(f)} \subseteq files'
<1>0. OtherHosts \subseteq hosts
  BY DEF OtherHosts, OthersOf, ClustersOf
<1>1. hosts' = hosts => OtherHosts' = OtherHosts
  BY DEF OtherHosts
<1>2. ASSUME ~Idle
      PROVE  /\ \E r, h, w, t : todo = [under |-> TRUE, remove |-> r, hosts |-> h, write |-> w, told |-> t]
             /\ \A f \in todo.remove : ~OfOthers(f)
             /\ \A h \in todo.hosts : h.mark = Cluster /\ HostsFileNames(h)
             /\ \A h \in OtherHosts : h.name # Cluster
             /\ \A f \in todo.write : /\ f.mark = Cluster /\ Apart(f)
                                      /\ \A g \in files : <<g.where, g.file>> = <<f.where, f.file>> => Ours(g)
  BY <1>2 DEF OthersInv, TodoSpares, Idle, NothingLeft
<1>3. CASE UNCHANGED vars
  <2>1. UNCHANGED <<files, hosts, todo>>
    BY <1>3 DEF vars
  <2> QED BY <2>1, <1>0, <1>1 DEF OthersInv, TodoSpares, Apart, OfOthers
<1>4. CASE YouEdit
  <2>1. Idle /\ todo' = todo /\ hosts' = hosts /\ todo = NothingLeft
    BY <1>4 DEF YouEdit, OthersInv, TodoSpares, Idle
  <2>2. \A f \in files' : f \in files \/ f.mark = Yours
    BY <1>4, ImportAssumption DEF YouEdit
  <2> QED BY <2>1, <2>2, <1>1, ImportAssumption DEF OthersInv, TodoSpares, Apart
<1>5. CASE NodesChange
  <2>1. Idle /\ UNCHANGED <<todo, hosts, files>>
    BY <1>5 DEF NodesChange
  <2> QED BY <2>1, <1>1 DEF OthersInv, TodoSpares, Apart, OfOthers
<1>6. CASE Import
  <2>1. Idle /\ hosts' = hosts /\ files' = files
    BY <1>6 DEF Import
  <2>2. PICK read \in SUBSET ring, typed \in BOOLEAN :
          \E nodes \in {Entries(read, LoginOf(typed))} :
             \E user \in {Counted(Cluster, nodes, UserFiles(nodes))} :
             \E laid \in {Laid(Cluster, nodes, user)} :
             \E plan_ \in {FilesOf(laid.layout, Cluster)} :
             \E valid \in {read = ring /\ SelfChecked(Cluster, nodes, user \cup plan_)} :
             \E written \in {HostsFile(nodes, valid)} :
                /\ ~Conflict(plan_, written)
                /\ todo' = Work(plan_, written, [done |-> TRUE, nodes |-> nodes, theirsWin |-> laid.theirsWin,
                                                notCompared |-> laid.notCompared])
    BY <1>6 DEF Import
  <2>3. PICK nodes, user, laid, plan_, valid, written, told_ :
          /\ nodes = Entries(read, LoginOf(typed))
          /\ laid = Laid(Cluster, nodes, user)
          /\ plan_ = FilesOf(laid.layout, Cluster)
          /\ written = HostsFile(nodes, valid)
          /\ ~Conflict(plan_, written)
          /\ todo' = Work(plan_, written, told_)
    BY <2>2, Zenon
  <2>4. \A n \in nodes : Node(n)
    BY <2>3 DEF Entries, Node
  <2>5. \A f \in plan_ : f.mark = Cluster /\ Named(f.where, written)
    BY <2>3, <2>4, FilesNamed
  <2>11. /\ todo' = [under |-> TRUE, remove |-> Stale(plan_, written), hosts |-> {written} \ hosts,
                     write |-> plan_ \ files, told |-> told_]
         /\ written.mark = Cluster /\ HostsFileNames(written)
    <3>1. ASSUME NEW n \in nodes, NEW i \in 2 .. 4 PROVE Chain(Cluster, n)[i][1] = "group"
      <4>1. i = 2 \/ i = 3 \/ i = 4
        OBVIOUS
      <4> QED BY <4>1 DEF Chain
    <3>2. \A n \in nodes : Host(n.name)[1] = "host"
      BY DEF Host
    <3>3. \A g \in written.groups : \E n \in nodes, i \in 2 .. 4 : g = Chain(Cluster, n)[i]
      BY <2>3 DEF HostsFile
    <3>4. \A x \in written.hosts : \E n \in nodes : x = Host(n.name)
      BY <2>3 DEF HostsFile
    <3>5. HostsFileNames(written)
      BY <3>1, <3>2, <3>3, <3>4 DEF HostsFileNames
    <3> QED BY <2>3, <3>5 DEF Work, HostsFile
  <2>6. \A h \in OtherHosts : h.groups \cap written.groups = {} /\ h.hosts \cap written.hosts = {}
    BY <2>3 DEF Conflict
  <2>7. \A f \in plan_ : Apart(f)
    <3> SUFFICES ASSUME NEW f \in plan_, NEW h \in OtherHosts, Named(f.where, h) PROVE FALSE
      BY DEF Apart
    <3>1. h.groups \cap written.groups = {} /\ h.hosts \cap written.hosts = {}
      BY <2>6
    <3>2. f.where \in written.groups \cup written.hosts
      BY <2>5 DEF Named
    <3>3. HostsFileNames(h) /\ HostsFileNames(written)
      BY <1>0, <2>11 DEF OthersInv
    <3> QED BY <3>1, <3>2, <3>3 DEF Named, HostsFileNames
  <2>8. ASSUME NEW h \in OtherHosts PROVE h.name # Cluster
    <3>1. h.name = Cluster => h.mark \in {Yours, Unnamed, Cluster}
      BY <2>3, <1>0 DEF Conflict
    <3>2. OfCluster(h) # Cluster
      BY DEF OtherHosts, OthersOf
    <3> QED BY <3>1, <3>2, ImportAssumption DEF OfCluster
  <2>9. ASSUME NEW f \in plan_, NEW g \in files, <<g.where, g.file>> = <<f.where, f.file>> PROVE Ours(g)
    <3>1. OwnerOf(g, written) \in {Yours, Cluster}
      BY <2>3, <2>9 DEF Conflict, Paths
    <3> QED BY <3>1 DEF OwnerOf, Ours
  <2>10. \A f \in Stale(plan_, written) : ~OfOthers(f)
    BY OwnedApart DEF Stale
  <2>12. TodoSpares'
    <3>1. \A f : OfOthers(f)' = OfOthers(f) /\ Apart(f)' = Apart(f)
      BY <2>1, <1>1 DEF OfOthers, Apart
    <3> QED BY <2>1, <2>5, <2>7, <2>8, <2>9, <2>10, <2>11, <3>1, <1>1 DEF TodoSpares
  <2> QED BY <2>1, <2>12, <1>1 DEF OthersInv, Apart
<1>7. CASE Remove
  <2>1. PICK f \in todo.remove :
          files' = files \ {f} /\ todo' = [todo EXCEPT !.remove = @ \ {f}] /\ hosts' = hosts /\ ~Idle
    BY <1>7 DEF Remove
  <2>2. Kept
    BY <2>1, <1>0, <1>2
  <2>3. TodoSpares'
    <3>1. PICK r, h, w, t : todo = [under |-> TRUE, remove |-> r, hosts |-> h, write |-> w, told |-> t]
      BY <2>1, <1>2
    <3>2. todo' = [under |-> TRUE, remove |-> r \ {f}, hosts |-> h, write |-> w, told |-> t]
      BY <2>1, <3>1
    <3> QED BY <2>1, <1>1, <1>2, <3>1, <3>2 DEF TodoSpares, OfOthers, Apart
  <2> QED BY <2>1, <2>2, <2>3, <1>1 DEF OthersInv, Apart
<1>8. CASE WriteHosts
  <2>1. /\ ~Idle /\ files' = files /\ todo' = [todo EXCEPT !.hosts = {}]
        /\ hosts' = {h \in hosts : h.name # Cluster} \cup todo.hosts
    BY <1>8 DEF WriteHosts
  <2>2. OtherHosts' = OtherHosts
    <3>1. \A h \in todo.hosts : OfCluster(h) = Cluster
      BY <2>1, <1>2, ImportAssumption DEF OfCluster
    <3> QED BY <2>1, <1>2, <3>1 DEF OtherHosts, OthersOf, ClustersOf
  <2>3. Kept
    BY <2>1, <1>0, <1>2
  <2>4. TodoSpares'
    <3>1. PICK r, h, w, t : todo = [under |-> TRUE, remove |-> r, hosts |-> h, write |-> w, told |-> t]
      BY <2>1, <1>2
    <3>2. todo' = [under |-> TRUE, remove |-> r, hosts |-> {}, write |-> w, told |-> t]
      BY <2>1, <3>1
    <3> QED BY <2>1, <2>2, <1>2, <3>1, <3>2 DEF TodoSpares, OfOthers, Apart
  <2>5. \A x \in hosts' : HostsFileNames(x)
    BY <2>1, <1>2 DEF OthersInv
  <2> QED BY <2>1, <2>2, <2>3, <2>4, <2>5 DEF OthersInv, Apart
<1>9. CASE WriteVars
  <2>1. PICK f \in todo.write :
          /\ ~Idle /\ hosts' = hosts /\ todo' = [todo EXCEPT !.write = @ \ {f}]
          /\ files' = (files \ {g \in files : <<g.where, g.file>> = <<f.where, f.file>>}) \cup {f}
    BY <1>9 DEF WriteVars
  <2>2. ASSUME NEW g \in files, <<g.where, g.file>> = <<f.where, f.file>> PROVE ~OfOthers(g)
    BY <2>1, <2>2, <1>2 DEF OfOthers, Ours, Apart
  <2>3. Kept
    BY <2>1, <2>2, <1>0
  <2>4. TodoSpares'
    <3>1. PICK r, h, w, t : todo = [under |-> TRUE, remove |-> r, hosts |-> h, write |-> w, told |-> t]
      BY <2>1, <1>2
    <3>2. todo' = [under |-> TRUE, remove |-> r, hosts |-> h, write |-> w \ {f}, told |-> t]
      BY <2>1, <3>1
    <3> QED BY <2>1, <1>1, <1>2, <3>1, <3>2 DEF TodoSpares, OfOthers, Apart, Ours
  <2> QED BY <2>1, <2>3, <2>4, <1>1, <1>2 DEF OthersInv, Apart
<1>10. CASE End \/ Interrupted
  <2>1. todo' = NothingLeft /\ hosts' = hosts /\ files' = files
    BY <1>10 DEF End, Interrupted
  <2> QED BY <2>1, <1>0, <1>1 DEF OthersInv, TodoSpares, Apart
<1> QED BY <1>3, <1>4, <1>5, <1>6, <1>7, <1>8, <1>9, <1>10 DEF Next

(* Whatever the nodes, the clusters of the directory, the user's edits and  *)
(* the interruptions, no import removes or writes over a file that says it *)
(* is another cluster's, or that another cluster's hosts file names, nor   *)
(* that hosts file.                                                        *)
THEOREM OthersFilesKept == ImportSpec => OthersKept
<1> DEFINE Sparing == ~Idle => OtherHosts \subseteq hosts' /\ {f \in files : OfOthers(f)} \subseteq files'
<1>1. OthersInv /\ [ImportNext]_allVars => OthersInv' /\ [Sparing]_vars
  <2>1. [ImportNext]_allVars => [Next]_vars
    BY DEF ImportNext, Inventories, OwnersModes, YamlFiles, allVars
  <2> QED BY <2>1, OthersStep
<1> QED BY OthersInit, <1>1, PTL DEF ImportSpec, ImportNext, OthersKept
=============================================================================
