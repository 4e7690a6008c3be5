------------------------------ MODULE DiskStack ------------------------------
(***************************************************************************)
(* Which block devices cassandra_linux tunes: from the filesystems of the  *)
(* Cassandra directories (or the devices set by hand) down to the disks,   *)
(* with what else each device holds (module_utils/cassandra_disks.py).     *)
(*                                                                         *)
(* A host h is a record:                                                   *)
(*   dev       what lsblk shows: [type, layer, parents, mount, fs] by name *)
(*   lvs       the volumes lvs lists, TRUE for the hidden ones             *)
(*   dirs      the directories looked up, in order: [dir, tune, commitlog, *)
(*             at (the device, "none", "quiet" or "other"), target, missing] *)
(*   byHand    the devices of cassandra_data_block_devices, resolved       *)
(*   tuneOs    cassandra_data_tune_os_volumes                              *)
(* layer tells LVM's own parts by their names: "" for none, "part" for one *)
(* named as such, "of" with its volume's name before.                      *)
(***************************************************************************)
EXTENDS Naturals, FiniteSets, SequencesExt

\* A host with more that is known of it.
With(h, more) == [f \in DOMAIN h \cup DOMAIN more |-> IF f \in DOMAIN h THEN h[f] ELSE more[f]]

\* The items of a sequence, of some of its places, after those of another; none twice.
AddEach(out, items, places) ==
    LET add[i \in 0 .. Len(items)] ==
            IF i = 0 THEN out
            ELSE IF i \notin places \/ Contains(add[i - 1], items[i]) THEN add[i - 1]
            ELSE Append(add[i - 1], items[i])
    IN  add[Len(items)]

\* The filesystems of the OS.
OsMounts == {"/", "/var", "/home"}

(***************************************************************************)
(* The devices, one above another.                                         *)
(***************************************************************************)
KindOf(h, k, d) ==
    CASE d.type \in {"lvm", "crypt"} ->
            IF d.type = "lvm" /\ d.layer = "of" THEN "lvm-internal"
            ELSE IF k \in DOMAIN h.lvs THEN IF h.lvs[k] THEN "lvm-internal" ELSE "lvm"
            ELSE IF d.type = "lvm" /\ d.layer # "" THEN "lvm-internal" ELSE "dm"
      [] OTHER -> d.type

\* k, then what it is built on, level by level.
Walk(h, k) ==
    LET walk[i \in 0 .. Cardinality(DOMAIN h.dev)] ==
            IF i = 0 THEN <<k>>
            ELSE IF i > Len(walk[i - 1]) THEN walk[i - 1]
            ELSE LET parents == h.dev[walk[i - 1][i]].parents
                 IN  AddEach(walk[i - 1], parents, DOMAIN parents)
    IN  walk[Cardinality(DOMAIN h.dev)]

WithStacks(h) ==
    With(h, [kind |-> [k \in DOMAIN h.dev |-> KindOf(h, k, h.dev[k])],
             walk |-> [k \in DOMAIN h.dev |-> Walk(h, k)]])

\* The device reads go through: a partition reads ahead through its disk.
DiskOf(h, k) == IF h.kind[k] = "part" /\ h.dev[k].parents # <<>> THEN h.dev[k].parents[1] ELSE k

\* What sits at the top of everything built on k (itself if nothing).
Uppermost(h, k) ==
    {u \in DOMAIN h.dev : /\ Contains(h.walk[u], k)
                          /\ \A c \in DOMAIN h.dev : ~Contains(h.dev[c].parents, u)}

\* The uses of k that are not Cassandra's: what is mounted, or only formatted.
OtherUses(h, k, ours) ==
    {IF h.dev[u].mount # "" THEN h.dev[u].mount ELSE "unmounted " \o u :
        u \in {v \in Uppermost(h, k) \ ours : h.dev[v].mount # "" \/ h.dev[v].fs}}

OsUses(h, k, ours) == OtherUses(h, k, ours) \cap OsMounts

(***************************************************************************)
(* The filesystems of the directories.                                     *)
(***************************************************************************)
\* Looked up through a parent on an OS filesystem: its own may not be mounted yet.
NotYet(d) == d.missing /\ d.target \in OsMounts
Found(d) == d.at # "none" /\ ~NotYet(d)
OnBlock(d) == d.at \notin {"none", "quiet", "other"}

\* The directories, by their places, whose devices are tuned.
TunedDirs(h) ==
    {i \in DOMAIN h.dirs : h.byHand = <<>> /\ h.dirs[i].tune /\ Found(h.dirs[i]) /\ OnBlock(h.dirs[i])}

WithTuned(h) == With(h, [tuned |-> TunedDirs(h), disk |-> [k \in DOMAIN h.dev |-> DiskOf(h, k)]])

Tops(h) ==
    IF h.byHand # <<>> THEN AddEach(<<>>, h.byHand, DOMAIN h.byHand)
    ELSE AddEach(<<>>, [i \in DOMAIN h.dirs |-> h.dirs[i].at], h.tuned)

CommitlogAlone(h, k) == h.byHand = <<>> /\ \A i \in h.tuned : h.dirs[i].at = k => h.dirs[i].commitlog

\* Where a top is mounted, as its last directory says ("" when set by hand).
Target(h, k) ==
    IF \A i \in h.tuned : h.dirs[i].at # k THEN ""
    ELSE h.dirs[Max({i \in h.tuned : h.dirs[i].at = k})].target

WithTops(h) ==
    With(h, [tops   |-> Tops(h),
             alone  |-> {k \in {h.dirs[i].at : i \in h.tuned} : CommitlogAlone(h, k)},
             target |-> [k \in DOMAIN h.dev |-> Target(h, k)]])

\* Cassandra's own filesystems: none that an OS filesystem is on.
OurMounts(h) ==
    {d \in ToSet(h.dirs) : /\ Found(d) /\ OnBlock(d)
                           /\ ~d.tune \/ h.byHand # <<>>
                           /\ d.target \notin OsMounts}

Ours(h) ==
    {k \in {d.at : d \in OurMounts(h)} \cup {t \in ToSet(h.tops) : h.target[t] \notin OsMounts} :
        OsUses(h, k, {}) = {}}

WithOurs(h) == With(h, [ours |-> Ours(h)])

\* A host with all that the plan reads of it.
Seen(h) == WithOurs(WithTops(WithTuned(WithStacks(h))))

(***************************************************************************)
(* The plan: the devices to tune, top ones first (h: a host as Seen).      *)
(***************************************************************************)
\* The OS filesystems a top is, or shares its disk with.
OsOn(h, k) ==
    (({h.target[k]} \cap OsMounts) \cup OsUses(h, k, {}))
    \cup (IF h.disk[k] = k THEN {} ELSE OsUses(h, h.disk[k], h.ours))

DataDisks(h) == {h.disk[k] : k \in ToSet(h.tops) \ h.alone}

OsSkipped(h, k) == OsOn(h, k) # {} /\ ~h.tuneOs
CommitlogSkipped(h, k) == OsOn(h, k) # {} /\ k \in h.alone /\ h.disk[k] \notin DataDisks(h)
Unusable(h, k) == h.kind[h.disk[k]] \in {"loop", "lvm-internal"}
LeftAlone(h, k) == OsSkipped(h, k) \/ CommitlogSkipped(h, k) \/ Unusable(h, k)

\* A device under the top k also holding an OS filesystem, not tuned for it.
KeptForOs(h, k, x) ==
    /\ OsUses(h, x, h.ours \cup {k}) # {}
    /\ ~h.tuneOs \/ k \in h.alone

\* The devices tuned for the top k: its own, then those under it.
TunedFor(h, k, x) ==
    x = h.disk[k] \/ (h.kind[x] \notin {"part", "loop", "lvm-internal"} /\ ~KeptForOs(h, k, x))

\* os: an OS filesystem is on it, or on what it is under.
Entry(h, k, x) ==
    [k |-> x, kind |-> h.kind[x],
     os |-> OsOn(h, k) # {} \/ (x # h.disk[k] /\ OsUses(h, x, h.ours \cup {k}) # {})]

AddEntry(h, found, k, x) ==
    IF \E i \in DOMAIN found : found[i].k = x THEN found ELSE Append(found, Entry(h, k, x))

AddStack(h, found, k) ==
    LET walk == h.walk[k]
        add[i \in 0 .. Len(walk)] ==
            IF i = 0 THEN AddEntry(h, found, k, h.disk[k])
            ELSE IF TunedFor(h, k, walk[i]) THEN AddEntry(h, add[i - 1], k, walk[i])
            ELSE add[i - 1]
    IN  IF LeftAlone(h, k) THEN found ELSE add[Len(walk)]

\* The stacks of the commitlog's devices alone, or the others.
AddStacks(h, found, alone) ==
    LET add[i \in 0 .. Len(h.tops)] ==
            IF i = 0 THEN found
            ELSE IF (h.tops[i] \in h.alone) = alone THEN AddStack(h, add[i - 1], h.tops[i])
            ELSE add[i - 1]
    IN  add[Len(h.tops)]

\* The data's stacks first, then the commitlog's alone.
Plan(h) == AddStacks(h, AddStacks(h, <<>>, FALSE), TRUE)

(***************************************************************************)
(* What the plan warns of, what it refuses.                                *)
(***************************************************************************)
\* The volumes lvs did not list: tuned as device-mapper ones.
NoVolumeListed(h, plan) == h.lvs = <<>> /\ \E i \in DOMAIN plan : h.dev[plan[i].k].type = "lvm"

\* A device set by hand under a Cassandra filesystem: not the one read with.
ReadAbove(h, plan) ==
    {u \in DOMAIN h.dev : /\ \E k \in ToSet(h.byHand) : ~Unusable(h, k) /\ u \in Uppermost(h, k)
                          /\ \A i \in DOMAIN plan : plan[i].k # u
                          /\ \E d \in ToSet(h.dirs) : Found(d) /\ d.at = u}

\* Devices set by hand that can't be tuned: the role stops.
Refused(h, plan) ==
    /\ h.byHand # <<>>
    /\ \/ \E k \in ToSet(h.tops) : ~OsSkipped(h, k) /\ ~CommitlogSkipped(h, k) /\ Unusable(h, k)
       \/ plan = <<>> /\ \A k \in ToSet(h.tops) : ~OsSkipped(h, k)
=============================================================================
