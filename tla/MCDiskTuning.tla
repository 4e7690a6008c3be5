---------------------------- MODULE MCDiskTuning ----------------------------
(***************************************************************************)
(* Hosts with the stacks that differ: partitions, LVM beside the OS's or   *)
(* the OS's own, md under dm-crypt, a thin pool; devices set by hand.      *)
(***************************************************************************)
EXTENDS DiskTuning

Dev(type, parents) == [type |-> type, layer |-> "", parents |-> parents, mount |-> "", fs |-> FALSE]
On(dev, mount) == [dev EXCEPT !.mount = mount, !.fs = TRUE]
Dir(dir, at, target) ==
    [dir |-> dir, tune |-> dir # "hints", commitlog |-> dir = "commitlog", at |-> at, target |-> target, missing |-> FALSE]

Host == [dev |-> [x \in {} |-> 0], lvs |-> <<>>, dirs |-> <<>>, byHand |-> <<>>, tuneOs |-> TRUE,
         ided |-> {}, ssd |-> {}, queued |-> {}, page |-> 4, live |-> TRUE]

\* The OS on a, the data and the commitlog on partitions of b.
PartDev ==
    "a" :> Dev("disk", <<>>) @@ "a1" :> On(Dev("part", <<"a">>), "/") @@ "b" :> Dev("disk", <<>>)
    @@ "b1" :> On(Dev("part", <<"b">>), "/data") @@ "b2" :> On(Dev("part", <<"b">>), "/log")

Parts == [Host EXCEPT !.dev = PartDev, !.ided = {"a", "b"}, !.ssd = {"b"}, !.queued = {"a", "b"},
                      !.dirs = <<Dir("data", "b1", "/data"), Dir("commitlog", "b2", "/log"), Dir("hints", "a1", "/")>>]

\* The commitlog alone on the OS's disk, then the data there too.
LogOnOs == [Parts EXCEPT !.dirs = <<Dir("data", "b1", "/data"), Dir("commitlog", "a1", "/")>>]
DataToo == [Parts EXCEPT !.dirs = <<Dir("data", "b1", "/data"), Dir("data2", "a1", "/"), Dir("commitlog", "a1", "/")>>]

\* A volume for the data on the disk that holds the OS's.
LvmDev ==
    "a" :> Dev("disk", <<>>) @@ "a1" :> Dev("part", <<"a">>) @@ "root" :> On(Dev("lvm", <<"a1">>), "/")
    @@ "lv" :> On(Dev("lvm", <<"a1">>), "/data")

Lvm == [Host EXCEPT !.dev = LvmDev, !.lvs = "root" :> FALSE @@ "lv" :> FALSE, !.ided = {"a", "root", "lv"},
                    !.ssd = {"a", "lv"}, !.queued = {"a"}, !.dirs = <<Dir("data", "lv", "/data")>>]
LvmKept == [Lvm EXCEPT !.tuneOs = FALSE]
\* The data on the OS's volume.
LvmOs == [Lvm EXCEPT !.dirs = <<Dir("data", "root", "/")>>]

\* dm-crypt on an array of two disks, one with no id.
MdDev ==
    "b" :> Dev("disk", <<>>) @@ "c" :> Dev("disk", <<>>) @@ "md" :> Dev("md", <<"b", "c">>)
    @@ "luks" :> On(Dev("crypt", <<"md">>), "/data")

Md == [Host EXCEPT !.dev = MdDev, !.ided = {"b", "md", "luks"}, !.ssd = {"b", "c"}, !.queued = {"b", "c"},
                   !.dirs = <<Dir("data", "luks", "/data")>>]
MdByHand == [Md EXCEPT !.byHand = <<"md">>]

\* A thin volume, pages of 64 KB.
ThinDev ==
    "b" :> Dev("disk", <<>>) @@ "tdata" :> [Dev("lvm", <<"b">>) EXCEPT !.layer = "part"]
    @@ "pool" :> [Dev("lvm", <<"tdata">>) EXCEPT !.layer = "of"] @@ "thin" :> On(Dev("lvm", <<"pool">>), "/data")

Thin == [Host EXCEPT !.dev = ThinDev, !.lvs = "thin" :> FALSE @@ "pool" :> FALSE, !.ided = {"b", "thin", "pool", "tdata"},
                     !.ssd = {"b", "thin"}, !.queued = {"b"}, !.page = 64, !.dirs = <<Dir("data", "thin", "/data")>>]

MCHosts ==
    "parts" :> Parts @@ "log" :> LogOnOs @@ "log+" :> DataToo @@ "lvm" :> Lvm @@ "lvm-" :> LvmKept
    @@ "lvm/" :> LvmOs @@ "md" :> Md @@ "md!" :> MdByHand @@ "thin" :> Thin @@ "not live" :> [Lvm EXCEPT !.live = FALSE]
MCFirsts == DOMAIN MCHosts \ {"log+"}
MCWider == {<<"log", "log+">>}

Unit(n, matched, priority, value, elevator) ==
    [name |-> n, type |-> "disk", enabled |-> TRUE, devices |-> matched, ids |-> <<>>, priority |-> priority,
     replace |-> FALSE, drop |-> {}, ra |-> value, elevator |-> elevator]

\* RHEL's throughput-performance; profiles that give a disk its own section, after
\* the role's and before it.
MCAdmin ==
    "throughput" :> [includes |-> <<>>, units |-> <<Unit("disk", {"*"}, 0, <<">", 4096>>, "")>>]
    @@ "own" :> [includes |-> <<"throughput">>, units |-> <<Unit("fast", {"b"}, -50, <<"=", 256>>, "mq")>>]
    @@ "pinned" :> [includes |-> <<"throughput">>, units |-> <<Unit("pin", {"b"}, -200, <<"=", 256>>, "mq")>>]
MCActiveSets == {<<>>, <<"throughput">>, <<"own">>, <<"pinned">>}
MCKbs == {4, 8}
=============================================================================
