------------------------------ MODULE DiskTuning ------------------------------
(***************************************************************************)
(* The disks of a host under cassandra_linux: runs of the role, each task  *)
(* of tasks/disks.yml that changes something a step, stopped anywhere; and *)
(* what undoes them: boots, tuned, LVM, an administrator.                  *)
(*                                                                         *)
(* Read-ahead is in KB. A device has its live settings (ra, sched); lvra   *)
(* is what LVM keeps for a volume (LvmAuto, or KB), rule the lines of the  *)
(* role's udev rule, ownIds the devices of the role's tuned profile (its   *)
(* file), active and loaded what tuned runs: profiles by name, their units *)
(* as tuned read them.                                                     *)
(*                                                                         *)
(* Simplified: a device keeps its name over boots (the rule matches it by  *)
(* its id anyway); the lookups of a run are one step; tuned's rollback     *)
(* leaves a device as it is or as at boot.                                 *)
(***************************************************************************)
EXTENDS DiskStack, TunedProfiles, TLC

CONSTANTS
    Hosts,      \* Hosts[name]: DiskStack's records, with more: [ided: the devices with a
                \* stable id, ssd, queued: those with a scheduler to choose, page (KB), live]
    Firsts,     \* the names the model may begin with
    Wider,      \* <<name, name>>: the same host, a disk or a directory more
    Admin,      \* the tuned profiles of the system: <<includes, units>> by name
    ActiveSets, \* what an administrator has tuned run: sequences of names of Admin
    Kbs,        \* the values of cassandra_data_readahead_kb
    MaxRuns, MaxEvents   \* bounds: runs of the role, events between and during them

(* What the lookups find: each of lsblk's parents a device of lsblk's, each *)
(* device found for a directory, or set by hand, one of them.              *)
ASSUME HostsAssumption ==
    /\ Firsts \subseteq DOMAIN Hosts
    /\ \A n \in DOMAIN Hosts :
           LET h == Hosts[n] IN
           /\ DOMAIN h = {"dev", "lvs", "dirs", "byHand", "tuneOs", "ided", "ssd", "queued", "page", "live"}
           /\ IsFiniteSet(DOMAIN h.dev)
           /\ \A k \in DOMAIN h.dev : h.dev[k].parents \in Seq(DOMAIN h.dev)
           /\ h.byHand \in Seq(DOMAIN h.dev)
           /\ h.dirs \in Seq(ToSet(h.dirs))
           /\ \A i \in DOMAIN h.dirs : OnBlock(h.dirs[i]) => h.dirs[i].at \in DOMAIN h.dev

Default == 128      \* the kernel's read-ahead
LvmAuto == -1          \* LVM's

VARIABLES name, byImport, host,  \* the node, whether its inventory is an imported one; what is
                                 \* Seen of it, with its plan
          kb, tuning,            \* cassandra_data_readahead_kb, cassandra_data_disk_tuning
          ra, sched, lvra, rule, old,
          ownIds, active, loaded, cassandra,
          run,                   \* the run of the role: its next task, what it read
          promised, settled, runs, events

devices == <<ra, sched, lvra>>
tuned   == <<ownIds, active, loaded>>
files   == <<rule, old>>
history == <<promised, settled>>
bounds  == <<runs, events>>
node == <<name, byImport, host, kb, tuning>>
vars == <<node, devices, tuned, files, cassandra, run, history, bounds>>

\* The imported inventory: devices found from the directories, those of the OS too.
AsImported(h) == [h EXCEPT !.byHand = <<>>, !.tuneOs = TRUE]

WithPlan(h) == With(h, [plan |-> Plan(h)])
View(n, import) == WithPlan(Seen(IF import THEN AsImported(Hosts[n]) ELSE Hosts[n]))

ReadBack == (kb \div host.page) * host.page     \* the kernel keeps whole pages
NoRule == [there |-> FALSE, kbs |-> <<>>, none |-> {}]
Names == DOMAIN host.dev
Volumes == {k \in Names : host.kind[k] = "lvm"}
\* The devices with a read-ahead of their own.
Queues == {k \in Names : host.dev[k].type # "part"}

\* The profiles tuned finds: the system's, and the role's once written.
Profiles ==
    IF ownIds = <<>> THEN Admin
    ELSE Admin @@ (TunedProfile :> [includes |-> <<>>, units |-> <<OwnUnit(ownIds[1])>>])

\* What tuned leaves on the devices when it applies units.
RaTuned(units, now) ==
    [k \in DOMAIN now |->
        IF k \in Queues /\ Takers(units, k) # {} THEN RaUnder(units[FirstTaker(units, k)], now[k]) ELSE now[k]]
SchedTuned(units, now) ==
    [k \in DOMAIN now |->
        IF k \in host.queued /\ Takers(units, k) # {} /\ units[FirstTaker(units, k)].elevator # ""
        THEN units[FirstTaker(units, k)].elevator ELSE now[k]]

(***************************************************************************)
(* The role: its lookups, what it will change.                             *)
(***************************************************************************)
Idle == [at |-> "idle"]

Solid == host.ssd \cap host.queued

Devices(plan) == {plan[i].k : i \in DOMAIN plan}
\* Mutant: the OS's volumes as well.
ByLvmOsToo(plan) == {plan[i].k : i \in {j \in DOMAIN plan : plan[j].kind = "lvm"}}

ByLvmOf(plan) == {plan[i].k : i \in {j \in DOMAIN plan : plan[j].kind = "lvm" /\ ~plan[j].os}}

\* What is to change on the devices, from what LVM keeps (lv) and what they have.
Changes(plan, lv, now, raNow, schedNow) ==
    [lvm   |-> {k \in ByLvmOf(plan) : host.live /\ now /\ lv[k] # ReadBack},
     ra    |-> {k \in Devices(plan) : host.live /\ raNow[k] # ReadBack},
     sched |-> {k \in Devices(plan) \cap Solid : host.live /\ schedNow[k] # "none"}]

\* lvchange runs now: not under a running Cassandra.
LvchangeNow == host.live /\ ~cassandra

\* The profile to have tuned run.
TunedNow(plan) ==
    TunedRead(Profiles, active, [i \in DOMAIN plan |-> plan[i].k], ReadBack, Solid, host.ided, active # <<>>)

TunedWanted(read) == IF host.live THEN read ELSE [read EXCEPT !.ids = {}]

\* Mutant: none when lvchange does not run now (a running Cassandra).
ByLvmNowOnly == {k \in ByLvmOf(run.plan) : host.live /\ run.now /\ k \notin run.failed}

\* The volumes LVM keeps the read-ahead of, and the lines of the rule.
ByLvm ==
    {k \in ByLvmOf(run.plan) :
        host.live /\ IF run.now THEN k \notin run.failed ELSE run.lvraRead[k] = ReadBack}

RuleFor(ks) ==
    [there |-> ks # {},
     kbs   |-> [k \in ks \cap host.ided |-> kb],
     none  |-> {k \in ks \cap host.ided : host.kind[k] = "disk" \/ k \in host.queued}]

(***************************************************************************)
(* The role: its tasks.                                                    *)
(***************************************************************************)
Goto(at) == run' = [run EXCEPT !.at = at]

Launch ==
    /\ run = Idle /\ tuning /\ runs < MaxRuns
    /\ runs' = runs + 1
    /\ \E plan \in {host.plan} :
          run' = IF Refused(host, plan) THEN Idle
                 ELSE [at |-> IF plan = <<>> THEN "old" ELSE "profile",
                       plan |-> plan, now |-> LvchangeNow, running |-> cassandra, lvraRead |-> lvra,
                       want |-> TunedWanted(TunedNow(plan)), wrote |-> FALSE, switch |-> "no",
                       todo |-> Changes(plan, lvra, LvchangeNow, ra, sched), failed |-> {}, refused |-> {}]
    /\ UNCHANGED <<node, devices, tuned, files, cassandra, history, events>>

\* A tuned profile of its own, run after the others: not under a running Cassandra.
WriteProfile ==
    /\ run.at = "profile"
    /\ LET wanted == run.want.ids # {}
           wrote  == wanted /\ ownIds # <<run.want.ids>>
       IN  /\ ownIds' = IF wanted THEN <<run.want.ids>> ELSE ownIds
           /\ run' = [run EXCEPT !.wrote = wrote,
                                 !.at = IF wanted /\ ~run.running /\ (wrote \/ active # run.want.wanted)
                                        THEN "switch" ELSE "lvm"]
    /\ UNCHANGED <<node, devices, active, loaded, files, cassandra, history, bounds>>

\* Mutant: the role's changes as picked before tuned's profiles were applied again.
SwitchTunedReadBefore ==
    /\ run.at = "switch"
    /\ active' = run.want.wanted
    /\ loaded' = Units(Profiles, active')
    /\ ra' = RaTuned(loaded', [k \in DOMAIN ra |-> Default])
    /\ sched' = SchedTuned(loaded', sched)
    /\ run' = [run EXCEPT !.at = "lvm", !.switch = "done"]
    /\ UNCHANGED <<node, lvra, ownIds, files, cassandra, history, bounds>>

\* tuned takes back what its profiles set, and applies them with the new one; or
\* fails, the profiles of before started again. The devices are read again.
SwitchTuned ==
    /\ run.at = "switch"
    /\ \E ok, back \in BOOLEAN :
          LET rolled == [k \in DOMAIN ra |->
                            IF back /\ RaTuned(loaded, ra)[k] # RaTuned(<<>>, ra)[k] THEN Default ELSE ra[k]]
          IN  /\ active' = IF ok THEN run.want.wanted ELSE active
              /\ loaded' = Units(Profiles, active')
              /\ ra' = RaTuned(loaded', rolled)
              /\ sched' = SchedTuned(loaded', sched)
              /\ run' = [run EXCEPT !.at = "lvm", !.switch = IF ok THEN "done" ELSE "failed",
                                    !.todo = Changes(run.plan, run.lvraRead, run.now, ra', sched')]
    /\ UNCHANGED <<node, lvra, ownIds, files, cassandra, history, bounds>>

\* The read-ahead LVM keeps for its volumes; a volume may refuse.
SetLvm ==
    /\ run.at = "lvm"
    /\ \E failed \in {{}, run.todo.lvm} :
          LET done == run.todo.lvm \ failed IN
          /\ lvra' = [k \in DOMAIN lvra |-> IF k \in done THEN ReadBack ELSE lvra[k]]
          /\ ra'   = [k \in DOMAIN ra |-> IF k \in done THEN ReadBack ELSE ra[k]]
          /\ run'  = [run EXCEPT !.at = "ra", !.failed = failed]
    /\ UNCHANGED <<node, sched, tuned, files, cassandra, history, bounds>>

SetReadAhead ==
    /\ run.at = "ra"
    /\ ra' = [k \in DOMAIN ra |-> IF k \in run.todo.ra THEN ReadBack ELSE ra[k]]
    /\ Goto("sched")
    /\ UNCHANGED <<node, sched, lvra, tuned, files, cassandra, history, bounds>>

\* A device may refuse the scheduler.
SetScheduler ==
    /\ run.at = "sched"
    /\ \E refused \in {{}, run.todo.sched} :
          /\ sched' = [k \in DOMAIN sched |-> IF k \in run.todo.sched \ refused THEN "none" ELSE sched[k]]
          /\ run' = [run EXCEPT !.at = "rule", !.refused = refused]
    /\ UNCHANGED <<node, ra, lvra, tuned, files, cassandra, history, bounds>>

WriteRule ==
    /\ run.at = "rule"
    /\ rule' = RuleFor(Devices(run.plan) \ ByLvm)
    /\ Goto("old")
    /\ UNCHANGED <<node, devices, tuned, old, cassandra, history, bounds>>

(***************************************************************************)
(* What a run says of its devices when it ends: kept otherwise, or not.    *)
(***************************************************************************)
TunedFailed == run.switch = "failed"
TunedDeferred == run.want.ids # {} /\ run.running /\ (run.wrote \/ active # run.want.wanted)
TunedLeft == run.want.conflict /\ run.want.ids = {}

\* LVM does not keep its read-ahead: the rule does, and LVM may set it back.
OfRule(d) == d.kind = "lvm" /\ run.lvraRead[d.k] # ReadBack /\ (d.os \/ ~run.now \/ d.k \in run.failed)

Said ==
    IF run.at = "old" /\ run.plan = <<>> THEN {}
    ELSE IF TunedFailed \/ TunedDeferred \/ TunedLeft \/ NoVolumeListed(host, run.plan) THEN Devices(run.plan)
    ELSE {d.k : d \in {e \in ToSet(run.plan) : OfRule(e)}}
         \cup (IF run.want.ids # {} THEN Devices(run.plan) \ host.ided ELSE {})
         \cup (Devices(run.plan) \ host.ided)      \* a comment in the rule's file

\* The devices the directories tuned are read through; set by hand, those that
\* a warning names left out.
ReadAboveTops ==
    {d.at : d \in {e \in ToSet(host.dirs) : host.byHand # <<>> /\ Found(e) /\ OnBlock(e)}}
      \cap UNION {Uppermost(host, k) : k \in {t \in ToSet(host.tops) : ~Unusable(host, t)}}

ReadThrough ==
    {host.disk[k] : k \in {t \in ToSet(host.tops) : ~LeftAlone(host, t)}}
    \cup (ReadAboveTops \ ReadAbove(host, run.plan))

RemoveOldRules ==
    /\ run.at = "old"
    /\ old' = FALSE
    /\ run' = Idle
    /\ promised' = IF host.live THEN ReadThrough \ Said ELSE {}
    /\ settled' = (host.live /\ Said = {} /\ run.refused = {})
    /\ UNCHANGED <<node, devices, tuned, rule, cassandra, bounds>>

\* Stopped between two tasks, or a task that fails.
Interrupt ==
    /\ run # Idle
    /\ run' = Idle
    /\ UNCHANGED <<node, devices, tuned, files, cassandra, history, bounds>>

RoleStep ==
    \/ WriteProfile \/ SwitchTuned \/ SetLvm \/ SetReadAhead \/ SetScheduler \/ WriteRule \/ RemoveOldRules

(***************************************************************************)
(* import_cluster on a node the role set up: the read-ahead of its rule,   *)
(* and its devices left as they are if the role would change them.         *)
(***************************************************************************)
DefaultKb == 4
OldKb == 8

RuleKbs == IF DOMAIN rule.kbs # {} THEN {rule.kbs[k] : k \in DOMAIN rule.kbs} ELSE IF old THEN {OldKb} ELSE {}

KbRead(plan) ==
    IF \E v \in RuleKbs : RuleKbs = {v} /\ (plan = <<>> \/ \E k \in Devices(plan) : ra[k] = v)
    THEN CHOOSE v \in RuleKbs : TRUE ELSE DefaultKb

WouldChange(plan, v) ==
    \/ \E k \in Devices(plan) : ra[k] # v
    \/ \E k \in Devices(plan) \cap host.ssd : sched[k] # "none"
    \/ old
    \/ /\ DOMAIN rule.kbs = {}
       /\ \E d \in ToSet(plan) : d.kind # "lvm" \/ d.os \/ lvra[d.k] # v
    \/ /\ active # <<>> /\ Last(active) # TunedProfile
       /\ \E k \in Devices(plan) :
              Conflicting(Units(Profiles, active), k, v, k \in host.ssd /\ host.kind[k] = "disk")

Import ==
    /\ run = Idle /\ runs > 0 /\ events < MaxEvents
    /\ host' = View(name, TRUE)
    /\ kb' = KbRead(host'.plan)
    /\ tuning' = ~WouldChange(host'.plan, kb')
    /\ byImport' = TRUE
    /\ promised' = {} /\ settled' = FALSE
    /\ events' = events + 1
    /\ UNCHANGED <<name, devices, tuned, files, cassandra, run, runs>>

(***************************************************************************)
(* The host, between and during the runs.                                  *)
(***************************************************************************)
Event == events < MaxEvents /\ events' = events + 1

\* The read-ahead a device starts with: the rule's, for a volume LVM's as well.
Kept(k) == IF k \in Volumes /\ lvra[k] # LvmAuto THEN lvra[k] ELSE Default

Starts(k, lvmLast) ==
    IF k \in DOMAIN rule.kbs /\ ~(lvmLast /\ k \in Volumes)
    THEN (rule.kbs[k] \div host.page) * host.page ELSE Kept(k)

Boot ==
    /\ Event
    /\ run' = Idle
    /\ loaded' = Units(Profiles, active)
    /\ \E lvmLast \in BOOLEAN : ra' = RaTuned(loaded', [k \in DOMAIN ra |-> Starts(k, lvmLast)])
    /\ sched' = SchedTuned(loaded', [k \in DOMAIN sched |->
                    IF k \in host.queued /\ ~(k \in rule.none /\ k \in host.ssd) THEN "mq" ELSE "none"])
    /\ cassandra' \in BOOLEAN
    /\ UNCHANGED <<node, lvra, ownIds, active, files, promised, settled, runs>>

TunedRestart ==
    /\ Event
    /\ active # <<>>
    /\ loaded' = Units(Profiles, active)
    /\ ra' = RaTuned(loaded', ra)
    /\ sched' = SchedTuned(loaded', sched)
    /\ UNCHANGED <<node, lvra, ownIds, active, files, cassandra, run, promised, settled, runs>>

\* LVM activates or reloads a volume (lvextend), between the runs.
LvmReload ==
    /\ Event
    /\ run = Idle
    /\ \E k \in Volumes, lvmLast \in BOOLEAN : ra' = [ra EXCEPT ![k] = Starts(k, lvmLast)]
    /\ UNCHANGED <<node, sched, lvra, tuned, files, cassandra, run, promised, settled, runs>>

StartOrStop ==
    /\ Event
    /\ run = Idle
    /\ cassandra' = ~cassandra
    /\ UNCHANGED <<node, devices, tuned, files, run, promised, settled, runs>>

Edits == Event /\ run = Idle /\ promised' = {} /\ settled' = FALSE

EditKb ==
    /\ Edits
    /\ kb' \in Kbs \ {kb}
    /\ UNCHANGED <<name, byImport, host, tuning, devices, tuned, files, cassandra, run, runs>>

\* An administrator has tuned run other profiles.
AdminTunes ==
    /\ Edits
    /\ active' \in ActiveSets \ {active}
    /\ loaded' = Units(Profiles, active')
    /\ ra' = RaTuned(loaded', ra)
    /\ sched' = SchedTuned(loaded', sched)
    /\ UNCHANGED <<node, lvra, ownIds, files, cassandra, run, runs>>

\* A directory or a disk more, under the same names.
Widen ==
    /\ Edits
    /\ name' \in {n \in DOMAIN Hosts : <<name, n>> \in Wider}
    /\ host' = View(name', byImport)
    /\ UNCHANGED <<byImport, kb, tuning, devices, tuned, files, cassandra, run, runs>>

Init ==
    /\ name \in Firsts
    /\ byImport = FALSE
    /\ host = View(name, FALSE)
    /\ kb \in Kbs
    /\ tuning = TRUE
    /\ active \in ActiveSets
    /\ ownIds = <<>>
    /\ loaded = Units(Admin, active)
    /\ ra = RaTuned(loaded, [k \in Names |-> Default])
    /\ sched = SchedTuned(loaded, [k \in Names |-> IF k \in host.queued THEN "mq" ELSE "none"])
    /\ lvra = [k \in Names |-> LvmAuto]
    /\ rule = NoRule
    /\ old \in BOOLEAN
    /\ cassandra \in BOOLEAN
    /\ run = Idle
    /\ promised = {} /\ settled = FALSE
    /\ runs = 0 /\ events = 0

Next ==
    \/ Launch \/ RoleStep \/ Interrupt \/ Import
    \/ Boot \/ TunedRestart \/ LvmReload \/ StartOrStop \/ EditKb \/ AdminTunes \/ Widen

Spec == Init /\ [][Next]_vars

----------------------------------------------------------------------------
(***************************************************************************)
(* Properties.                                                             *)
(***************************************************************************)
\* None of an administrator's sections takes a device before the role's (a
\* priority below its own: README, known deviations).
OursFirst == \A i \in DOMAIN loaded : loaded[i].priority >= OwnUnit({}).priority

\* A run that ends without saying otherwise of a device Cassandra's directories
\* are read through leaves it with the read-ahead asked for, over boots, tuned's
\* starts and the reloads of LVM, whatever keeps it (the udev rule, LVM, the role's
\* tuned profile) and whatever a later run stops at.
ReadAsAsked == OursFirst => \A k \in promised : ra[k] = ReadBack

\* LVM reloads (lvchange, their I/O suspended) none of the OS's volumes.
OsVolumesNotReloaded ==
    [][\A k \in DOMAIN lvra : lvra'[k] # lvra[k] => OsUses(host, k, {}) = {}]_lvra

\* Run again after a run that ended with nothing to say, the role changes
\* nothing, whatever the host did meanwhile (a boot, tuned restarted...).
SettledRunQuiet == [][settled /\ OursFirst /\ RoleStep => UNCHANGED <<devices, tuned, files>>]_vars
=============================================================================
