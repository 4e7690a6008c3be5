--------------------------- MODULE NodetoolTasks ---------------------------
(***************************************************************************)
(* The tasks of the collection's nodetool modules on one node: what one    *)
(* reads, how it compares it with what is asked, the command it runs or    *)
(* only announces, and the result it tells, when any nodetool call may     *)
(* fail before or after its effect and somebody else may change the node   *)
(* between two calls.                                                      *)
(*                                                                         *)
(* One number stands for what a module is about: the value of a get/set    *)
(* module (0 is unlimited), a service that is off (0) or on (1), a work    *)
(* that is to do (0) or done (1).  Hinted handoff has a third state, 2: on *)
(* with a datacenter disabled, which its status prints on lines of its own. *)
(***************************************************************************)
EXTENDS Integers

CONSTANT MaxOthers      \* changes made by somebody else

ASSUME MaxOthersAssumption == MaxOthers \in Nat

NoValue == -1           \* the module is asked to read only
Failed  == -2           \* nodetool returned another code than 0
Odd     == -3           \* it returned 0 and an output without the value

-----------------------------------------------------------------------------
(* How a module works:                                                     *)
(*   asks       what it can be asked                                       *)
(*   reads      whether it reads before it writes                          *)
(*   compare    "value": writes unless it read what is asked;              *)
(*              "status": writes when it read the opposite;                *)
(*              "never": finds a difference in anything it reads           *)
(*   strict     whether a read that failed fails the task                  *)
(*   toldAlways whether a task that wrote nothing tells a change           *)
(*   check      supports_check_mode                                        *)
(*   forgives   whether a command that failed leaves the task successful   *)

GetSet(cmd) == [cmd |-> cmd, asks |-> {NoValue, 0, 1, 2}, reads |-> TRUE, compare |-> "value",
                strict |-> FALSE, toldAlways |-> FALSE, check |-> TRUE, forgives |-> FALSE]
Switch(cmd) == [cmd |-> cmd, asks |-> {0, 1}, reads |-> TRUE, compare |-> "status",
                strict |-> TRUE, toldAlways |-> TRUE, check |-> TRUE, forgives |-> FALSE]
Work(cmd)   == [cmd |-> cmd, asks |-> {1}, reads |-> FALSE, compare |-> "never",
                strict |-> TRUE, toldAlways |-> TRUE, check |-> FALSE, forgives |-> FALSE]
Query(cmd)  == [Switch(cmd) EXCEPT !.asks = {NoValue}, !.toldAlways = FALSE]

CompactionThroughput    == GetSet("compactionthroughput")
StreamThroughput        == GetSet("streamthroughput")
InterDcStreamThroughput == GetSet("interdcstreamthroughput")
TraceProbability        == GetSet("traceprobability")
MaxHintWindow           == GetSet("maxhintwindow")
BatchlogReplayThrottle  == GetSet("batchlogreplaythrottle")
Timeout                 == GetSet("timeout")
\* No read-only form; the last word of the output must be a number.
Concurrency             == [GetSet("concurrency") EXCEPT !.asks = 0..2, !.strict = TRUE]
\* No read-only form; the whole output is compared.
CompactionThreshold     == [GetSet("compactionthreshold") EXCEPT !.asks = 0..2]

Binary         == Switch("binary")
Backup         == Switch("backup")
Gossip         == Switch("gossip")
Handoff        == Switch("handoff")
Thrift         == Switch("thrift")
\* Tells a change only when it ran a command.
Compact        == [Switch("compact") EXCEPT !.toldAlways = FALSE]
\* "We don't know if this has changed or not": no status is read.
AutoCompaction == [Switch("autocompaction") EXCEPT !.reads = FALSE, !.check = FALSE]
\* bool("false") is True, and "enabled" is never equal to a Boolean.
FullQueryLog   == [Switch("fullquerylog") EXCEPT !.compare = "never"]

InvalidateCache == [Switch("invalidatecache") EXCEPT !.asks = {1}, !.toldAlways = FALSE]
Cleanup         == Work("cleanup")
GarbageCollect  == Work("garbagecollect")
Flush           == Work("flush")
Drain           == Work("drain")
Verify          == Work("verify")
UpgradeSSTables == Work("upgradesstables")
TruncateHints   == Work("truncatehints")
Reload          == Work("reload")
Cqlsh           == Work("cqlsh")
\* A command that failed ends in exit_json, not in fail_json.
StopDaemon      == [Work("stopdaemon") EXCEPT !.forgives = TRUE]

Netstats     == Query("netstats")
StatusBinary == Query("statusbinary")
StatusGossip == Query("statusgossip")
Ring         == Query("ring")

Modules == {CompactionThroughput, StreamThroughput, InterDcStreamThroughput, TraceProbability,
            MaxHintWindow, BatchlogReplayThrottle, Timeout, Concurrency, CompactionThreshold,
            Binary, Backup, Gossip, Handoff, Thrift, Compact, AutoCompaction, FullQueryLog,
            InvalidateCache, Cleanup, GarbageCollect, Flush, Drain, Verify, UpgradeSSTables,
            TruncateHints, Reload, Cqlsh, StopDaemon, Netstats, StatusBinary, StatusGossip, Ring}

\* What the node of a module can be found in.
States(m) == IF m.compare = "value" THEN 0..2
             ELSE IF m = Handoff THEN 0..2 ELSE 0..1

-----------------------------------------------------------------------------
VARIABLES
  setting,   \* the node
  task,      \* the running task, or the one that ended
  last,      \* the one before it
  before,    \* the node when the task started
  others     \* changes by somebody else, and whether one came since `last` started

vars == <<setting, task, last, before, others>>

NoTask == [pc |-> "none", check |-> FALSE, changed |-> FALSE, failed |-> FALSE, wrote |-> FALSE,
           reading |-> NoValue, mod |-> Ring, asked |-> NoValue]

Init ==
  \E m \in Modules, a \in {NoValue, 0, 1, 2} :
    /\ a \in m.asks
    /\ setting \in States(m)
    /\ task = [NoTask EXCEPT !.mod = m, !.asked = a, !.pc = "next"]
    /\ last = NoTask
    /\ before = setting
    /\ others = [left |-> MaxOthers, seen |-> FALSE]

\* Somebody else, or the node itself (compactions start, caches fill).
Other ==
  /\ others.left > 0
  /\ setting' \in States(task.mod) \ {setting}
  /\ others' = [left |-> others.left - 1, seen |-> TRUE]
  /\ UNCHANGED <<task, last, before>>

\* A task of the same module and request starts, after another one or not.
Start(check) ==
  /\ task.pc \in {"next", "done"}
  /\ last.pc = "none"
  /\ last' = IF task.pc = "done" THEN task ELSE last
  /\ task' = [NoTask EXCEPT !.mod = task.mod, !.asked = task.asked, !.check = check,
                            !.pc = "init"]
  /\ before' = setting
  /\ others' = IF task.pc = "done" THEN others ELSE [others EXCEPT !.seen = FALSE]
  /\ UNCHANGED setting

End(changed, failed) ==
  task' = [task EXCEPT !.pc = "done", !.changed = changed, !.failed = failed]

\* Ansible skips a module without check mode.
SkipInCheckMode ==
  /\ task.pc = "init"
  /\ task.check /\ ~task.mod.check
  /\ End(FALSE, FALSE)
  /\ UNCHANGED <<setting, last, before, others>>

\* The version is read first: it fails, or a password came without a user.
NoVersion ==
  /\ task.pc = "init"
  /\ task.check => task.mod.check
  /\ End(FALSE, TRUE)
  /\ UNCHANGED <<setting, last, before, others>>

Connect ==
  /\ task.pc = "init"
  /\ task.check => task.mod.check
  /\ task' = [task EXCEPT !.pc = IF task.mod.reads THEN "read" ELSE "write"]
  /\ UNCHANGED <<setting, last, before, others>>

\* What the read command may give: an output without a value comes from the
\* get commands only (a fractional throughput, a warning).
Readings == {Failed, setting} \cup IF task.mod.compare = "value" THEN {Odd} ELSE {}

ReadFails(m, asked, r) ==
  \/ r = Failed /\ (m.strict \/ asked = NoValue)
  \/ r = Odd /\ (m.strict \/ asked = NoValue)

DiffersSwapped(m, asked, r) ==          \* mutant: active and inactive swapped
  /\ asked # NoValue
  /\ \/ m.compare = "value" /\ r # asked
     \/ m.compare = "status" /\ r = asked
     \/ m.compare = "never"

Differs(m, asked, r) ==
  /\ asked # NoValue
  /\ \/ m.compare = "value" /\ r # asked
     \/ m.compare = "status" /\ r = 1 - asked
     \/ m.compare = "never"

\* The full query log's state "disabled" runs its command under check mode too.
Announces(m, asked, check) == check /\ ~(m = FullQueryLog /\ asked = 0)

Read(r) ==
  /\ task.pc = "read"
  /\ r \in Readings
  /\ LET m == task.mod
         done(changed, failed) == [task EXCEPT !.pc = "done", !.reading = r, !.changed = changed,
                                               !.failed = failed]
     IN \/ /\ ReadFails(m, task.asked, r)
           /\ task' = done(FALSE, TRUE)
        \/ /\ ~ReadFails(m, task.asked, r)
           /\ ~Differs(m, task.asked, r)
           /\ task' = done(m.toldAlways /\ ~task.check, FALSE)
        \/ /\ ~ReadFails(m, task.asked, r)
           /\ Differs(m, task.asked, r)
           /\ task' = IF Announces(m, task.asked, task.check)
                      THEN done(TRUE, FALSE)
                      ELSE [task EXCEPT !.pc = "write", !.reading = r]
  /\ UNCHANGED <<setting, last, before, others>>

\* The command did it and returned 0.
WriteSucceeds ==
  /\ task.pc = "write"
  /\ setting' = task.asked
  /\ task' = [task EXCEPT !.pc = "done", !.wrote = TRUE, !.changed = TRUE]
  /\ UNCHANGED <<last, before, others>>

\* It returned another code (or reloadseeds its message), having done it or not.
WriteFails ==
  /\ task.pc = "write"
  /\ setting' \in {setting, task.asked}
  /\ task' = [task EXCEPT !.pc = "done", !.wrote = TRUE, !.failed = ~task.mod.forgives]
  /\ UNCHANGED <<last, before, others>>

Next ==
  \/ Other
  \/ \E check \in BOOLEAN : Start(check)
  \/ SkipInCheckMode
  \/ NoVersion
  \/ Connect
  \/ \E r \in {Failed, Odd} \cup 0..2 : Read(r)
  \/ WriteSucceeds
  \/ WriteFails

Spec == Init /\ [][Next]_vars

-----------------------------------------------------------------------------
TaskType == [pc : {"none", "next", "init", "read", "write", "done"}, check : BOOLEAN,
             changed : BOOLEAN, failed : BOOLEAN, wrote : BOOLEAN,
             reading : {NoValue, Failed, Odd} \cup 0..2, mod : Modules,
             asked : {NoValue} \cup 0..2]

\* The variables are well typed, and the request is one the module takes.
TypeOK ==
  /\ task \in TaskType /\ task.asked \in task.mod.asks
  /\ setting \in States(task.mod) /\ before \in States(task.mod)
  /\ last \in TaskType
  /\ others \in [left : 0..MaxOthers, seen : BOOLEAN]

Ended(t) == t.pc = "done" /\ ~t.failed

\* A task that really ran and succeeded leaves the node as asked, whatever it
\* read and whatever the state it found, unless somebody changed it meanwhile.
\* Left out: stopdaemon, which succeeds when its command fails, and handoff found
\* on with a datacenter disabled, which it takes neither for on nor for off.
AsAsked ==
  /\ Ended(task) /\ ~task.check /\ ~others.seen /\ task.asked # NoValue
  /\ task.mod # StopDaemon
  /\ task.mod = Handoff => before # 2
  => setting = task.asked

\* A second run with the same request, after one that succeeded, sends no command
\* to the node again, as long as its read gives a value (modules that read, but
\* the full query log, which finds a difference in anything it reads).
SecondRunSendsNothing ==
  /\ Ended(last) /\ ~last.check /\ ~others.seen /\ ~task.check
  /\ task.mod.reads /\ task.mod # FullQueryLog
  /\ task.pc = "done" /\ task.reading \notin {Failed, Odd}
  => ~task.wrote

\* What a task is asked for is done, and done once.
AsAskedOnce == AsAsked /\ SecondRunSendsNothing
=============================================================================
