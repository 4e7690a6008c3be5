---------------------------- MODULE TunedProfiles ----------------------------
(***************************************************************************)
(* What tuned sets on the disks, as cassandra_linux foresees it, and the   *)
(* profile of the role's own that keeps tuned off the Cassandra devices    *)
(* (filter/cassandra_disks.py).                                            *)
(*                                                                         *)
(* A profile is [includes, units]; a unit (a section of its file) is       *)
(*   [name, type, enabled, devices, ids, priority, replace, drop, ra,      *)
(*    elevator]                                                            *)
(* devices: the names it takes ("*": all); ids: <<the devices its          *)
(* devices_udev_regex matches>>, <<>> without one; ra: <<op,               *)
(* kb>> or <<>>; elevator: a scheduler or ""; priority: 0 when not set. A   *)
(* profile whose file is not found is not in the function.                 *)
(***************************************************************************)
EXTENDS Integers, Sequences, FiniteSets, SequencesExt

TunedProfile == "cassandra-disks"

\* The unit of the role's profile: given its devices first, it sets nothing.
OwnUnit(ids) ==
    [name |-> "cassandra_disks", type |-> "disk", enabled |-> TRUE, devices |-> {"*"}, ids |-> <<ids>>,
     priority |-> -100, replace |-> FALSE, drop |-> {}, ra |-> <<>>, elevator |-> ""]

(***************************************************************************)
(* The units of several profiles, merged in their order.                   *)
(***************************************************************************)
MergeUnit(old, new) ==
    [old EXCEPT !.type = new.type, !.enabled = new.enabled, !.devices = new.devices,
                !.priority = IF new.priority = 0 THEN @ ELSE new.priority,
                !.ids      = IF new.ids = <<>> THEN @ ELSE new.ids,
                !.ra       = IF new.ra # <<>> THEN new.ra ELSE IF "readahead" \in new.drop THEN <<>> ELSE @,
                !.elevator = IF new.elevator # "" THEN new.elevator ELSE IF "elevator" \in new.drop THEN "" ELSE @]

Has(units, name) == \E i \in DOMAIN units : units[i].name = name

AddUnit(units, new) ==
    IF ~Has(units, new.name) THEN Append(units, new)
    ELSE [i \in DOMAIN units |->
             IF units[i].name # new.name THEN units[i]
             ELSE IF new.replace THEN new
             ELSE MergeUnit(units[i], new)]

Merge(units, more) == FoldLeft(AddUnit, units, more)

\* A profile's units after the ones it includes, to a depth of 10 at most.
Units(profiles, active) ==
    LET loaded[d \in 0 .. 11] ==
            IF d = 0 THEN [p \in DOMAIN profiles |-> <<>>]
            ELSE [p \in DOMAIN profiles |->
                     Merge(FoldLeft(LAMBDA us, q : IF q \in DOMAIN profiles THEN Merge(us, loaded[d - 1][q]) ELSE us,
                                    <<>>, profiles[p].includes),
                           profiles[p].units)]
    IN  FoldLeft(LAMBDA us, p : IF p \in DOMAIN profiles THEN Merge(us, loaded[11][p]) ELSE us, <<>>, active)

(***************************************************************************)
(* The device of a unit, what it sets.                                     *)
(***************************************************************************)
Matches(u, k) == IF u.ids # <<>> THEN k \in u.ids[1] ELSE "*" \in u.devices \/ k \in u.devices

\* The first enabled one matching the device, by priority.
Takers(units, k) == {i \in DOMAIN units : units[i].type = "disk" /\ units[i].enabled /\ Matches(units[i], k)}

FirstTaker(units, k) ==
    CHOOSE i \in Takers(units, k) :
        \A j \in Takers(units, k) : \/ units[i].priority < units[j].priority
                                    \/ units[i].priority = units[j].priority /\ i <= j

\* The read-ahead a unit leaves on a device that has now.
RaUnder(u, now) ==
    IF u.ra = <<>> THEN now
    ELSE IF \/ u.ra[1] = ">" /\ u.ra[2] <= now
            \/ u.ra[1] = "<" /\ u.ra[2] >= now
    THEN now ELSE u.ra[2]

\* It sets what the role doesn't.
Sets(u, kb, ssd) ==
    \/ RaUnder(u, kb) # kb
    \/ ssd /\ u.elevator \notin {"", "none"}

Conflicting(units, k, kb, ssd) ==
    Takers(units, k) # {} /\ Sets(units[FirstTaker(units, k)], kb, ssd)

(***************************************************************************)
(* The profile the role adds: its ids, or {} when none is needed, or none  *)
(* would do. devices in the plan's order, solid the ones with a scheduler  *)
(* to choose that do not rotate, ided those with a stable udev id.         *)
(***************************************************************************)
\* The role's profile would take k if it came first.
MatchedByOwn(units, k) ==
    \E i \in DOMAIN units : /\ units[i].name = "cassandra_disks"
                            /\ units[i].ids # <<>>
                            /\ Takers(<<units[i]>>, k) # {}

Without(active) == SelectSeq(active, LAMBDA p : p # TunedProfile)

\* clash: the devices in conflict, ids: the ones a profile of ours can match.
ReadOf(units, base, active, clash, ids, running) ==
    [conflict  |-> clash # <<>>,
     wanted    |-> Append(base, TunedProfile),
     ids       |-> IF /\ clash # <<>> /\ running /\ ids # {} /\ base # <<>>
                      \* another section takes it first, though ours matches it
                      /\ ~(active = Append(base, TunedProfile) /\ MatchedByOwn(units, Head(clash)))
                   THEN ids ELSE {}]

ReadUnits(units, active, devices, kb, solid, ided, running) ==
    ReadOf(units, Without(active), active,
           SelectSeq(devices, LAMBDA k : Conflicting(units, k, kb, k \in solid)),
           ToSet(devices) \cap ided, running)

TunedRead(profiles, active, devices, kb, solid, ided, running) ==
    ReadUnits(Units(profiles, active), active, devices, kb, solid, ided, running)
=============================================================================
