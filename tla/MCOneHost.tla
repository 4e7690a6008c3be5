------------------------------ MODULE MCOneHost ------------------------------
(***************************************************************************)
(* What the collection does to one host and may not undo, for TLC: its     *)
(* disks set by the runs of cassandra_linux (DiskTuning), its directories  *)
(* emptied (NodeReset).  They share nothing: a behaviour is of one of      *)
(* them, the other stays at one of its initial states.                     *)
(***************************************************************************)
EXTENDS MCDiskTuning

CONSTANTS t1, t2, Targets, Members, ResetKinds, ClusterKeyspaces, MaxChanges

VARIABLES
    part,       \* whose behaviour it is
    like, present, links, jvm, boot, inRing, mark, kind, explicit, ghost,
    pc, plan, refused, replaced, cut, waited, changes, started

ResetHost == INSTANCE ResetHosts
Reset == INSTANCE NodeReset WITH Profiles <- ResetHost!Profiles, Kinds <- ResetKinds,
                                 host <- like, files <- present, runs <- started

ASSUME ResetAssumption == Reset!HostsAssumption

diskVars  == <<name, byImport, host, kb, tuning, ra, sched, lvra, rule, old, ownIds, active, loaded,
               cassandra, run, promised, settled, runs, events>>
resetVars == <<like, present, links, jvm, boot, inRing, mark, kind, explicit, ghost,
               pc, plan, refused, replaced, cut, waited, changes, started>>
allVars   == <<part, diskVars, resetVars>>

(* One initial state of each for the part that stays.                      *)
OnePlain == name = "parts" /\ kb = 4 /\ active = <<>> /\ old = FALSE /\ cassandra = FALSE
TwoBlank == like = [t \in Targets |-> "blank"] /\ kind = "reset" /\ explicit = FALSE /\ ghost = FALSE

(* The second target, where what it is matters.                            *)
Second ==
    CASE like[t1] \notin DOMAIN ResetHost!States -> {"blank"}
      [] kind = "cluster"    -> {"blank", "member", "memberUp"}
      [] kind = "replace"    -> {"blank"}
      [] like[t1] = "blank"  -> {"failed", "memberUp"}
      [] OTHER               -> {"blank", "failed"}

ResetInit ==
    /\ OnePlain /\ Init /\ Reset!Init
    /\ like[t2] \in Second
    /\ kind # "add" => ~explicit
    /\ ghost => like[t1] \in DOMAIN ResetHost!States

OneHostInit ==
    \/ part = "disks" /\ TwoBlank /\ Init /\ Reset!Init
    \/ part = "reset" /\ ResetInit

Disks  == part = "disks" /\ Next /\ UNCHANGED <<part, resetVars>>
Resets == part = "reset" /\ Reset!Next /\ UNCHANGED <<part, diskVars>>

OneHostSpec == OneHostInit /\ [][Disks \/ Resets]_allVars

(* NodeReset: no data that counts is deleted, and nothing else is.         *)
MembersKept == Reset!MembersKept

(* NodeReset: a new node starts with empty directories, where they are.    *)
StartsClean == Reset!StartsClean

(* NodeReset: a reset stopped halfway can be run again.                    *)
CanGoOn == Reset!CanGoOn
=============================================================================
