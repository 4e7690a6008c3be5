---------------------------- MODULE ConfigImport ----------------------------
(* cassandra.yaml of one joined node: read by import_cluster                 *)
(* (cassandra_config_import), checked (cassandra_import_check), kept or       *)
(* written by cassandra_config, accepted or refused by Cassandra at its next  *)
(* start.                                                                     *)
(*                                                                           *)
(* A file gives each top-level key the lines that set it, in order; a key set *)
(* twice has the last one.  A line has a value, or Null, and is written as    *)
(* the role writes it or another way the import makes out (quoting, yes, a    *)
(* comment after it): "plain"; or a way its template's line does not match.   *)
EXTENDS Naturals, Sequences, TLC

CONSTANTS
    Life,       \* keys a node keeps for life
    Unwritten,  \* ...: what Cassandra has for one left out (num_tokens: 1)
    Texts, Numbers, Toggles,    \* the template's: text, number, commented out when empty
    Data, OtherDirs,            \* data_file_directories; the other directories
    Extras,     \* the keys the template does not have
    Default,    \* key of the template -> the role's default
    Under,      \* storage directory -> key -> where Cassandra puts the directory
    Rejects,    \* release of the series -> the Extras it refuses to start with
    Files, Edited, Storages,    \* what a node may have, a hand edit make of it
    Changes,    \* what an operator may make of the inventory
    Null, Missing, NoDir,
    MaxChanges

Directories == {Data} \cup OtherDirs
Template    == Life \cup Texts \cup Numbers \cup Toggles \cup Directories
Keys        == Template \cup Extras
Releases    == DOMAIN Rejects

\* Cassandra has a place for each directory, and no key twice.
KeysAssumption ==
    /\ Extras \cap Template = {} /\ DOMAIN Unwritten \cap Directories = {}
    /\ \A k \in Directories : Default[k] # Null /\ \A d \in DOMAIN Under : Under[d][k] # Null
    /\ Storages \subseteq DOMAIN Under \cup {NoDir}

VARIABLES
    file,       \* key -> its lines
    storage,    \* -Dcassandra.storagedir of its JVM, or NoDir
    up, runs,   \* Cassandra runs, the release started last
    installed,  \* the release of its package
    inv,        \* the inventory: [vars, extras, storageDir, keep]
    imported,   \* it is an import's, neither it nor the file edited since
    was, told,  \* the file then, the keys its report says would change
    applied,    \* the role wrote or kept the file for its settings, nothing changed since
    kept, pc, changes

vars == <<file, storage, up, runs, installed, inv, imported, was, told, applied, kept, pc, changes>>

Last(lines) == lines[Len(lines)]

\* A key's value as Cassandra reads it; no line: Null too.
Value(f, k) == IF f[k] = <<>> THEN Null ELSE Last(f[k]).value

-----------------------------------------------------------------------------
(* What the programs that read it get (cassandra_settings.py).               *)
Settings(f, dir) ==
    [k \in Keys |-> IF k \in Directories /\ dir # NoDir /\ Value(f, k) = Null THEN Under[dir][k] ELSE Value(f, k)]

SameSettings(f, g, dir) == Settings(f, dir) = Settings(g, dir)

-----------------------------------------------------------------------------
(* cassandra_config_import                                                   *)

Matches(line) == line.how # "odd"

\* The settings for life and the data directories are read from the YAML, the
\* others by their template's line; a number left empty is not one.
Found(f, k) ==
    IF \/ f[k] = <<>>
       \/ k \in Life \cup Numbers \cup {Data} /\ Value(f, k) = Null
       \/ k \notin Life \cup {Data} /\ ~Matches(Last(f[k]))
    THEN Missing ELSE Value(f, k)

LeftOut(f, k) == k \in DOMAIN Unwritten /\ f[k] = <<>>

Readable(f) == \A k \in Life : Found(f, k) # Missing \/ LeftOut(f, k)

Variable(f, dir, k) ==
    IF Found(f, k) # Missing THEN Found(f, k)
    ELSE IF LeftOut(f, k) THEN Unwritten[k]
    ELSE IF k \in Directories /\ dir # NoDir /\ Value(f, k) = Null THEN Under[dir][k]
    ELSE Default[k]

\* Mutant: the storage directory is not kept for the role.
StorageDirOf(f, dir) == NoDir

StorageDir(f, dir) == IF \E k \in Directories : Value(f, k) = Null THEN dir ELSE NoDir

Rejected(f, release) == {k \in Extras \cap Rejects[release] : f[k] # <<>>}

Imported(f, dir, release) ==
    [vars       |-> [k \in Template |-> Variable(f, dir, k)],
     extras     |-> [k \in {e \in Extras : f[e] # <<>>} \ Rejects[release] |-> Value(f, k)],
     storageDir |-> StorageDir(f, dir),
     keep       |-> FALSE]

\* The template rendered: an empty toggle is a comment, other empty ones Null.
Rendered(i) ==
    LET line(v) == <<[value |-> v, how |-> "plain"]>>
    IN  [k \in Keys |->
            IF k \in Template THEN IF k \in Toggles /\ i.vars[k] = Null THEN <<>> ELSE line(i.vars[k])
            ELSE IF k \in DOMAIN i.extras THEN line(i.extras[k]) ELSE <<>>]

SameSetting(f, g, k) == Value(f, k) = Value(g, k) /\ (f[k] # <<>> => Matches(Last(f[k])))

\* Line by line: what cassandra_config_keep_files is for.
HandEdits(f, i) == {k \in Template : ~SameSetting(f, Rendered(i), k) \/ Len(f[k]) > 1}

\* cassandra_import_check: a file kept as it is is not compared, the keys
\* Cassandra rejects are left out, and told by themselves.
Differences(f, i, dir, release) ==
    LET rejected == {k \in Rejected(f, release) : Value(f, k) # Null}
    IN  {k \in Keys \ rejected : ~i.keep /\ Settings(f, dir)[k] # Settings(Rendered(i), dir)[k]}

Told(f, i, dir, release) == Differences(f, i, dir, release) \cup Rejected(f, release)

-----------------------------------------------------------------------------
Init ==
    /\ file \in Files /\ storage \in Storages
    /\ installed \in Releases /\ runs \in Releases /\ up \in BOOLEAN
    /\ inv = Imported([k \in Keys |-> <<>>], NoDir, installed)
    /\ imported = FALSE /\ was = file /\ told = {} /\ applied = FALSE
    /\ kept = FALSE /\ pc = "idle" /\ changes = 0

Node      == <<storage, up, runs, installed>>
Inventory == <<inv, imported, was, told>>

\* The keys are judged by the release the next start runs: a newer package
\* installed, else the running one.  keep: import_cluster_keep_hand_edits.
Judged == IF installed > runs THEN installed ELSE runs

Import ==
    /\ pc = "idle" /\ up /\ Readable(file)
    /\ \E keep \in BOOLEAN :
         LET read == Imported(file, storage, Judged)
         IN  inv' = [read EXCEPT !.keep = keep /\ HandEdits(file, read) # {}]
    /\ imported' = TRUE /\ was' = file
    /\ told' = Told(file, inv', storage, Judged)
    /\ UNCHANGED <<file, Node, applied, kept, pc, changes>>

\* cassandra_config: what it refuses, before it writes anything.
LifeValue(f, k) == IF LeftOut(f, k) THEN Unwritten[k] ELSE Value(f, k)

Refuses ==
    \/ ~ DOMAIN inv.extras \subseteq Extras
    \/ DOMAIN inv.extras \cap Rejects[installed] # {}
    \/ ~inv.keep /\ \E k \in Life : LifeValue(file, k) # LifeValue(Rendered(inv), k)

\* A file with the same settings is left as it is: the directories it leaves out
\* under the inventory's storage directory, else the running JVM's.
Compare ==
    /\ pc = "idle" /\ ~Refuses
    /\ LET dir == IF inv.storageDir # NoDir THEN inv.storageDir ELSE IF up THEN storage ELSE NoDir
       IN  kept' = (inv.keep \/ SameSettings(file, Rendered(inv), dir))
    /\ pc' = "confirm"
    /\ UNCHANGED <<file, Node, Inventory, applied, changes>>

Write ==
    /\ pc = "confirm" /\ pc' = "idle" /\ applied' = ~inv.keep
    /\ file' = IF kept THEN file ELSE Rendered(inv)
    /\ UNCHANGED <<Node, Inventory, kept, changes>>

Declined ==
    /\ pc = "confirm" /\ pc' = "idle"
    /\ UNCHANGED <<file, Node, Inventory, applied, kept, changes>>

-----------------------------------------------------------------------------
(* Cassandra and its operator.                                               *)
Accepted(f, release) == \A k \in Extras \cap Rejects[release] : f[k] = <<>>

Start == /\ ~up /\ Accepted(file, installed) /\ up' = TRUE /\ runs' = installed
         /\ UNCHANGED <<file, storage, installed, Inventory, applied, kept, pc, changes>>
Stop  == /\ up /\ up' = FALSE
         /\ UNCHANGED <<file, storage, runs, installed, Inventory, applied, kept, pc, changes>>

Change == changes < MaxChanges /\ changes' = changes + 1 /\ pc = "idle"

HandEdit ==
    /\ Change /\ \E f \in Edited : file' = f
    /\ imported' = FALSE /\ applied' = FALSE
    /\ UNCHANGED <<Node, inv, was, told, kept, pc>>

Edit ==
    /\ Change /\ \E c \in Changes : inv' = [inv EXCEPT !.extras = c @@ @]
    /\ imported' = FALSE
    /\ UNCHANGED <<file, Node, was, told, applied, kept, pc>>

Install ==
    /\ Change /\ \E r \in Releases \ {installed} : installed' = r
    /\ applied' = FALSE
    /\ UNCHANGED <<file, storage, up, runs, Inventory, kept, pc>>

Next ==
    \/ Import \/ Compare \/ Write \/ Declined
    \/ Start \/ Stop \/ HandEdit \/ Edit \/ Install

Spec == Init /\ [][Next]_vars

-----------------------------------------------------------------------------
\* An imported file says what it said: until somebody edits it or the inventory,
\* whatever the role does, with Cassandra running or not, Cassandra gets from it
\* the settings it got before the import but those the report named; and when it
\* named none, the file is not touched at all.
AsImported ==
    imported =>
        /\ \A k \in Keys \ told : Settings(file, storage)[k] = Settings(was, storage)[k]
        /\ told = {} => file = was

\* What the role leaves, the installed release starts with: no key it rejects, in
\* a file the inventory does not keep as it is.  Left out: a key with no value,
\* which same_settings does not see.
StartsAgain ==
    applied =>
        \A k \in Rejects[installed] \cap Extras : Value(file, k) = Null
=============================================================================
