---------------------------- MODULE TasksProofs ----------------------------
(***************************************************************************)
(* Proofs about the tasks of the collection's modules and about one node:  *)
(* the tasks of the nodetool modules, for any number of changes by         *)
(* somebody else; the poll of nodetool status, for any ring, state codes   *)
(* and number of polls; the record of the configuration a node started     *)
(* with, for any files and number of versions; the tasks on keyspaces,     *)
(* tables and roles, for every object, every task, every set of            *)
(* permissions, keyspaces and groups.                                      *)
(***************************************************************************)
EXTENDS MCOneNode, FiniteSetTheorems, TLAPS

OneNodeNext == TaskRuns \/ StatusPolls \/ RolesRecord \/ SchemaTasks

(* A step of the whole is a step of each part, or leaves it as it is.      *)
LEMMA StepOfEach ==
    ASSUME [OneNodeNext]_allVars
    PROVE  [Next]_vars /\ [Status!Next]_statusVars /\ [Pending!Next]_pendingVars
BY DEF OneNodeNext, TaskRuns, StatusPolls, RolesRecord, SchemaTasks, allVars, vars, statusVars,
   pendingVars

-----------------------------------------------------------------------------
(* The nodetool modules.                                                   *)

(* What the modules have in common, which the arguments rest on.           *)
ModuleFact(m) ==
    /\ m.asks \subseteq {NoValue} \cup 0..2
    /\ m.compare \in {"value", "status", "never"}
    /\ m.compare # "value" => m.asks \subseteq {NoValue, 0, 1}
    /\ m.compare = "value" \/ m.strict
    /\ m.reads /\ m.compare = "never" => m = FullQueryLog
    /\ m.forgives => m = StopDaemon
    /\ ~m.reads => NoValue \notin m.asks
    /\ m.reads \in BOOLEAN /\ m.strict \in BOOLEAN /\ m.toldAlways \in BOOLEAN
    /\ m.check \in BOOLEAN /\ m.forgives \in BOOLEAN

LEMMA ModuleFacts == \A m \in Modules : ModuleFact(m)
<1>1. ASSUME NEW cmd PROVE ModuleFact(GetSet(cmd))
  BY DEF ModuleFact, GetSet, NoValue
<1>2. ASSUME NEW cmd PROVE ModuleFact(Switch(cmd))
  BY DEF ModuleFact, Switch, NoValue
<1>3. ASSUME NEW cmd PROVE ModuleFact(Work(cmd))
  BY DEF ModuleFact, Work, NoValue
<1>4. ASSUME NEW cmd PROVE ModuleFact(Query(cmd))
  BY DEF ModuleFact, Query, Switch, NoValue
<1>5. ModuleFact(Concurrency) /\ ModuleFact(CompactionThreshold)
  BY DEF ModuleFact, Concurrency, CompactionThreshold, GetSet, NoValue
<1>6. ModuleFact(Compact) /\ ModuleFact(AutoCompaction)
  BY DEF ModuleFact, Compact, AutoCompaction, Switch, NoValue
<1>7. ModuleFact(FullQueryLog)
  BY DEF ModuleFact, FullQueryLog, Switch, NoValue
<1>8. ModuleFact(InvalidateCache)
  BY DEF ModuleFact, InvalidateCache, Switch, NoValue
<1>9. ModuleFact(StopDaemon)
  BY DEF ModuleFact, StopDaemon, Work, NoValue
<1> QED
  BY <1>1, <1>2, <1>3, <1>4, <1>5, <1>6, <1>7, <1>8, <1>9
  DEF Modules, CompactionThroughput, StreamThroughput, InterDcStreamThroughput,
      TraceProbability, MaxHintWindow, BatchlogReplayThrottle, Timeout, Binary, Backup, Gossip,
      Handoff, Thrift, Cleanup, GarbageCollect, Flush, Drain, Verify, UpgradeSSTables,
      TruncateHints, Reload, Cqlsh, Netstats, StatusBinary, StatusGossip, Ring

(* What a module is asked for is a state its node can be in.               *)
LEMMA AskedIsState ==
    ASSUME NEW m \in Modules, NEW a \in m.asks, a # NoValue
    PROVE  a \in States(m)
<1>1. ModuleFact(m) /\ a \in 0..2
  BY ModuleFacts DEF ModuleFact
<1>2. CASE m.compare = "value"
  BY <1>1, <1>2 DEF States
<1>3. CASE m.compare # "value"
  BY <1>1, <1>3 DEF ModuleFact, States, NoValue
<1> QED BY <1>2, <1>3

LEMMA StatesAreNumbers == ASSUME NEW m \in Modules PROVE States(m) \subseteq 0..2
BY DEF States

LEMMA RingIsModule == Ring \in Modules
BY DEF Modules

(* Type correctness, and that a task asked to read only does not write.    *)
TaskTyped == TypeOK /\ (task.pc = "write" => task.asked # NoValue)

LEMMA TaskTypeInit == Init => TaskTyped
<1>0. SUFFICES
             ASSUME NEW m \in Modules, NEW a \in {NoValue, 0, 1, 2}, a \in m.asks,
                    setting \in States(m), before = setting, last = NoTask,
                    task = [NoTask EXCEPT !.mod = m, !.asked = a, !.pc = "next"],
                    others = [left |-> MaxOthers, seen |-> FALSE]
             PROVE  TaskTyped
  BY DEF Init
<1>1. last \in TaskType
  BY <1>0, RingIsModule DEF NoTask, TaskType
<1>2. task = [pc |-> "next", check |-> FALSE, changed |-> FALSE, failed |-> FALSE, wrote |-> FALSE,
              reading |-> NoValue, mod |-> m, asked |-> a]
  BY <1>0 DEF NoTask
<1>3. a \in {NoValue} \cup 0..2
  OBVIOUS
<1>4. task \in TaskType
  BY <1>2, <1>3 DEF TaskType
<1>5. others \in [left : 0..MaxOthers, seen : BOOLEAN]
  BY <1>0, MaxOthersAssumption
<1> QED BY <1>0, <1>1, <1>2, <1>4, <1>5 DEF TypeOK, TaskTyped

(* What a read may lead to.                                                *)
LEMMA ReadLeadsTo ==
    ASSUME TypeOK, NEW r \in {Failed, Odd} \cup 0..2, Read(r)
    PROVE  /\ task.pc = "read" /\ r \in Readings
           /\ task' \in TaskType
           /\ task'.mod = task.mod /\ task'.asked = task.asked /\ task'.check = task.check
           /\ task'.wrote = task.wrote /\ task'.reading = r
           /\ UNCHANGED <<setting, last, before, others>>
           /\ \/ task'.pc = "done" /\ task'.failed
              \/ /\ task'.pc = "done" /\ ~task'.failed
                 /\ ~ReadFails(task.mod, task.asked, r) /\ ~Differs(task.mod, task.asked, r)
              \/ task'.pc = "done" /\ ~task'.failed /\ task.check
              \/ /\ task'.pc = "write"
                 /\ ~ReadFails(task.mod, task.asked, r) /\ Differs(task.mod, task.asked, r)
<1> DEFINE ended(c, f) == [task EXCEPT !.pc = "done", !.reading = r, !.changed = c, !.failed = f]
           write == [task EXCEPT !.pc = "write", !.reading = r]
           kept(t) == /\ t \in TaskType /\ t.mod = task.mod /\ t.asked = task.asked
                      /\ t.check = task.check /\ t.wrote = task.wrote /\ t.reading = r
<1>1. task \in TaskType /\ task.mod.toldAlways \in BOOLEAN
  BY ModuleFacts DEF TypeOK, ModuleFact, TaskType
<1>2. ASSUME NEW c \in BOOLEAN, NEW f \in BOOLEAN
      PROVE  kept(ended(c, f)) /\ ended(c, f).pc = "done" /\ ended(c, f).failed = f
  BY <1>1 DEF TaskType
<1>3. kept(write) /\ write.pc = "write"
  BY <1>1 DEF TaskType
<1>4. (task.mod.toldAlways /\ ~task.check) \in BOOLEAN
  OBVIOUS
<1>5. \/ task' = ended(FALSE, TRUE)
      \/ /\ ~ReadFails(task.mod, task.asked, r) /\ ~Differs(task.mod, task.asked, r)
         /\ task' = ended(task.mod.toldAlways /\ ~task.check, FALSE)
      \/ task' = ended(TRUE, FALSE) /\ task.check
      \/ /\ task' = write
         /\ ~ReadFails(task.mod, task.asked, r) /\ Differs(task.mod, task.asked, r)
  BY DEF Read, Announces
<1>6. task.pc = "read" /\ r \in Readings /\ UNCHANGED <<setting, last, before, others>>
  BY DEF Read
<1> HIDE DEF ended, write
<1>7. CASE task' = ended(FALSE, TRUE)
  BY <1>2, <1>6, <1>7
<1>8. CASE /\ ~ReadFails(task.mod, task.asked, r) /\ ~Differs(task.mod, task.asked, r)
           /\ task' = ended(task.mod.toldAlways /\ ~task.check, FALSE)
  BY <1>2, <1>4, <1>6, <1>8
<1>9. CASE task' = ended(TRUE, FALSE) /\ task.check
  BY <1>2, <1>6, <1>9
<1>10. CASE /\ task' = write
            /\ ~ReadFails(task.mod, task.asked, r) /\ Differs(task.mod, task.asked, r)
  BY <1>3, <1>6, <1>10
<1> QED BY <1>5, <1>7, <1>8, <1>9, <1>10

LEMMA TaskTypeStep == TaskTyped /\ [Next]_vars => TaskTyped'
<1> SUFFICES ASSUME TaskTyped, [Next]_vars PROVE TaskTyped'
  OBVIOUS
<1> USE DEF TypeOK, TaskTyped
<1>1. CASE Other
  BY <1>1, MaxOthersAssumption DEF Other
<1>2. ASSUME NEW check \in BOOLEAN, Start(check) PROVE TaskTyped'
  <2>1. task' \in TaskType /\ task'.mod = task.mod /\ task'.asked = task.asked /\ task'.pc = "init"
    BY <1>2 DEF Start, NoTask, TaskType
  <2> QED BY <1>2, <2>1 DEF Start
<1>3. CASE SkipInCheckMode \/ NoVersion
  <2>1. task' \in TaskType /\ task'.mod = task.mod /\ task'.asked = task.asked /\ task'.pc = "done"
    BY <1>3 DEF SkipInCheckMode, NoVersion, End, TaskType
  <2> QED BY <1>3, <2>1 DEF SkipInCheckMode, NoVersion
<1>4. CASE Connect
  <2>1. task' \in TaskType /\ task'.mod = task.mod /\ task'.asked = task.asked
    BY <1>4 DEF Connect, TaskType
  <2>2. task'.pc = "write" => task.asked # NoValue
    BY <1>4, ModuleFacts DEF Connect, ModuleFact, TaskType
  <2> QED BY <1>4, <2>1, <2>2 DEF Connect
<1>5. ASSUME NEW r \in {Failed, Odd} \cup 0..2, Read(r) PROVE TaskTyped'
  BY <1>5, ReadLeadsTo DEF Differs
<1>6. CASE WriteSucceeds \/ WriteFails
  <2>1. task.mod.forgives \in BOOLEAN
    BY ModuleFacts DEF ModuleFact, TaskType
  <2>2. task' \in TaskType /\ task'.mod = task.mod /\ task'.asked = task.asked /\ task'.pc = "done"
    BY <1>6, <2>1 DEF WriteSucceeds, WriteFails, TaskType
  <2>3. task.asked \in States(task.mod)
    BY <1>6, AskedIsState DEF TaskType, WriteSucceeds, WriteFails
  <2> QED BY <1>6, <2>2, <2>3 DEF WriteSucceeds, WriteFails
<1>7. CASE UNCHANGED vars
  BY <1>7 DEF vars
<1> QED BY <1>1, <1>2, <1>3, <1>4, <1>5, <1>6, <1>7 DEF Next

(* A task's node is the one it found, while nobody else changes it.        *)
Undisturbed == task.pc \in {"init", "read", "write"} /\ ~others.seen => setting = before

AsAskedInv == Undisturbed /\ AsAsked

LEMMA AsAskedInit == Init => AsAskedInv
BY DEF Init, AsAskedInv, Undisturbed, AsAsked, Ended, NoTask

(* What a module that read what is asked read it for.                      *)
LEMMA NoDifference ==
    ASSUME TaskTyped, NEW r \in Readings, task.asked # NoValue,
           ~ReadFails(task.mod, task.asked, r), ~Differs(task.mod, task.asked, r)
    PROVE  r = setting /\ (task.mod = Handoff => setting # 2) => setting = task.asked
<1> DEFINE m == task.mod
           a == task.asked
<1>1. m \in Modules /\ a \in m.asks /\ a \in 0..2 /\ setting \in States(m)
  BY DEF TaskTyped, TypeOK, TaskType
<1>2. ModuleFact(m) /\ setting \in 0..2
  BY <1>1, ModuleFacts, StatesAreNumbers
<1>3. SUFFICES ASSUME r = setting, m = Handoff => setting # 2 PROVE setting = a
  OBVIOUS
<1>4. CASE m.compare = "value"
  BY <1>4, <1>3 DEF Differs
<1>5. CASE m.compare = "status"
  <2>1. a \in 0..1
    BY <1>1, <1>2, <1>5 DEF ModuleFact, NoValue
  <2>2. setting \in 0..1
    BY <1>1, <1>2, <1>3, <1>5 DEF States
  <2>3. r # 1 - a
    BY <1>5 DEF Differs
  <2> QED BY <2>1, <2>2, <2>3, <1>3
<1>6. CASE m.compare = "never"
  BY <1>6 DEF Differs
<1> QED BY <1>2, <1>4, <1>5, <1>6 DEF ModuleFact

(* Unless it is read only, a module that goes on with a read that failed   *)
(* finds a difference.                                                     *)
LEMMA FailedReadDiffers ==
    ASSUME TaskTyped, NEW r \in Readings, r # setting,
           ~ReadFails(task.mod, task.asked, r)
    PROVE  task.asked # NoValue /\ Differs(task.mod, task.asked, r)
<1>1. task.mod \in Modules /\ task.asked \in {NoValue} \cup 0..2
  BY DEF TaskTyped, TypeOK, TaskType
<1>2. r \in {Failed, Odd}
  BY DEF Readings
<1>3. ~task.mod.strict /\ task.asked # NoValue
  BY <1>2 DEF ReadFails
<1>4. task.mod.compare = "value"
  BY <1>1, <1>3, ModuleFacts DEF ModuleFact
<1>5. r # task.asked
  BY <1>1, <1>2, <1>3 DEF Failed, Odd
<1> QED BY <1>3, <1>4, <1>5 DEF Differs

LEMMA AsAskedStep == TaskTyped /\ AsAskedInv /\ [Next]_vars => AsAskedInv'
<1>0. SUFFICES ASSUME TaskTyped, Undisturbed, AsAsked, [Next]_vars
               PROVE  Undisturbed' /\ AsAsked'
  BY DEF AsAskedInv
<1>a. task \in TaskType /\ others \in [left : 0..MaxOthers, seen : BOOLEAN]
  BY <1>0 DEF TaskTyped, TypeOK
<1>1. CASE Other
  <2>1. others'.seen
    BY <1>1 DEF Other
  <2> QED BY <2>1 DEF Undisturbed, AsAsked
<1>2. ASSUME NEW check \in BOOLEAN, Start(check) PROVE Undisturbed' /\ AsAsked'
  <2>1. task'.pc = "init" /\ before' = setting /\ setting' = setting
    BY <1>2 DEF Start, NoTask
  <2> QED BY <2>1 DEF Undisturbed, AsAsked, Ended
<1>3. CASE SkipInCheckMode
  <2>1. task'.pc = "done" /\ task'.check
    BY <1>3, <1>a DEF SkipInCheckMode, End, TaskType
  <2> QED BY <2>1 DEF Undisturbed, AsAsked
<1>4. CASE NoVersion
  <2>1. task'.pc = "done" /\ task'.failed
    BY <1>4, <1>a DEF NoVersion, End, TaskType
  <2> QED BY <2>1 DEF Undisturbed, AsAsked, Ended
<1>5. CASE Connect
  <2>1. task.pc = "init" /\ task'.pc \in {"read", "write"}
        /\ UNCHANGED <<setting, before, others>>
    BY <1>5, <1>a DEF Connect, TaskType
  <2> QED BY <2>1, <1>0 DEF Undisturbed, AsAsked, Ended
<1>6. ASSUME NEW r \in {Failed, Odd} \cup 0..2, Read(r) PROVE Undisturbed' /\ AsAsked'
  <2>1. /\ task.pc = "read" /\ r \in Readings /\ UNCHANGED <<setting, before, others>>
        /\ task'.mod = task.mod /\ task'.asked = task.asked /\ task'.check = task.check
        /\ task'.pc = "done" /\ ~task'.failed /\ ~task.check
             => /\ ~ReadFails(task.mod, task.asked, r)
                /\ ~Differs(task.mod, task.asked, r)
    BY <1>0, <1>6, ReadLeadsTo DEF TaskTyped
  <2>2. task'.pc \in {"done", "write"}
    BY <1>0, <1>6, ReadLeadsTo DEF TaskTyped
  <2>3. Undisturbed'
    BY <1>0, <2>1, <2>2 DEF Undisturbed
  <2>4. AsAsked'
    <3> SUFFICES ASSUME task'.pc = "done", ~task'.failed, ~task.check, ~others.seen,
                        task.asked # NoValue, task.mod = Handoff => before # 2
                 PROVE  setting = task.asked
      BY <2>1 DEF AsAsked, Ended
    <3>1. setting = before
      BY <1>0, <2>1 DEF Undisturbed
    <3>2. ~ReadFails(task.mod, task.asked, r) /\ ~Differs(task.mod, task.asked, r)
      BY <2>1
    <3>3. r = setting
      BY <1>0, <2>1, <3>2, FailedReadDiffers
    <3> QED BY <1>0, <2>1, <3>1, <3>2, <3>3, NoDifference
  <2> QED BY <2>3, <2>4
<1>7. CASE WriteSucceeds
  <2>1. task'.pc = "done" /\ task'.asked = task.asked /\ setting' = task.asked
    BY <1>7, <1>a DEF WriteSucceeds, TaskType
  <2> QED BY <2>1 DEF Undisturbed, AsAsked
<1>8. CASE WriteFails
  <2>1. task'.pc = "done" /\ task'.mod = task.mod /\ task'.failed = ~task.mod.forgives
    BY <1>8, <1>a DEF WriteFails, TaskType
  <2>2. task.mod.forgives => task.mod = StopDaemon
    BY <1>a, ModuleFacts DEF ModuleFact, TaskType
  <2> QED BY <2>1, <2>2 DEF Undisturbed, AsAsked, Ended
<1>9. CASE UNCHANGED vars
  BY <1>0, <1>9 DEF vars, Undisturbed, AsAsked, Ended
<1> QED BY <1>0, <1>1, <1>2, <1>3, <1>4, <1>5, <1>6, <1>7, <1>8, <1>9 DEF Next

(* A task of a nodetool module that ran and succeeded left its node as     *)
(* asked, whatever it read, unless somebody changed the node meanwhile.    *)
LEMMA TasksDoAsAsked == OneNodeSpec => []AsAsked
<1>1. OneNodeInit => TaskTyped /\ AsAskedInv
  BY TaskTypeInit, AsAskedInit DEF OneNodeInit
<1>2. TaskTyped /\ AsAskedInv /\ [OneNodeNext]_allVars => (TaskTyped /\ AsAskedInv)'
  BY StepOfEach, TaskTypeStep, AsAskedStep
<1>3. AsAskedInv => AsAsked
  BY DEF AsAskedInv
<1> QED BY <1>1, <1>2, <1>3, PTL DEF OneNodeSpec, OneNodeNext

-----------------------------------------------------------------------------
(* A task runs, or ran, that acts on what it reads.                        *)
Acts(t) == ~t.check /\ t.mod.reads /\ t.mod # FullQueryLog

(* Such a task would find no difference, if it read the node.              *)
Same == ~Differs(task.mod, task.asked, setting)

SecondRunInv ==
    /\ last.pc \in {"none", "done"}
    /\ last.pc = "done" => last.mod = task.mod /\ last.asked = task.asked
    /\ task.pc # "done" => ~task.wrote
    /\ Ended(task) /\ Acts(task) /\ ~others.seen => Same
    /\ Ended(last) /\ ~last.check /\ Acts(task) /\ ~others.seen =>
         /\ task.pc \in {"init", "read", "write"} => Same
         /\ task.pc = "write" => task.reading \in {Failed, Odd}
         /\ task.pc = "done" /\ task.reading \notin {Failed, Odd} => ~task.wrote

LEMMA SecondRunInit == Init => SecondRunInv
BY DEF Init, SecondRunInv, Ended, NoTask

(* A module whose node is as asked finds no difference, once it acts on    *)
(* what it reads.                                                          *)
LEMMA AskedIsSame ==
    ASSUME NEW m \in Modules, NEW a \in m.asks, a # NoValue, m.reads, m # FullQueryLog
    PROVE  ~Differs(m, a, a)
<1>1. ModuleFact(m) /\ a \in 0..2
  BY ModuleFacts DEF ModuleFact
<1>2. m.compare \in {"value", "status"}
  BY <1>1 DEF ModuleFact
<1>3. a # 1 - a
  BY <1>1
<1> QED BY <1>2, <1>3 DEF Differs

LEMMA SecondRunStep == TaskTyped /\ SecondRunInv /\ [Next]_vars => SecondRunInv'
<1>0. SUFFICES ASSUME TaskTyped, SecondRunInv, [Next]_vars PROVE SecondRunInv'
  OBVIOUS
<1>a. /\ task \in TaskType /\ others \in [left : 0..MaxOthers, seen : BOOLEAN] /\ TypeOK
      /\ task.mod \in Modules /\ task.asked \in task.mod.asks
  BY <1>0 DEF TaskTyped, TypeOK, TaskType
<1>1. CASE Other
  <2>1. others'.seen /\ UNCHANGED <<task, last>>
    BY <1>1 DEF Other
  <2> QED BY <1>0, <2>1 DEF SecondRunInv
<1>2. ASSUME NEW check \in BOOLEAN, Start(check) PROVE SecondRunInv'
  <2>1. /\ task'.pc = "init" /\ task'.mod = task.mod /\ task'.asked = task.asked
        /\ ~task'.wrote /\ task'.check = check
        /\ setting' = setting /\ last.pc = "none"
    BY <1>2 DEF Start, NoTask
  <2>2. CASE task.pc = "done"
    <3>1. last' = task /\ others' = others
      BY <1>2, <2>2 DEF Start
    <3>2. Ended(task) /\ ~task.check /\ task.mod.reads /\ task.mod # FullQueryLog
          /\ ~others.seen => Same
      BY <1>0 DEF SecondRunInv, Acts
    <3> QED BY <2>1, <2>2, <3>1, <3>2 DEF SecondRunInv, Ended, Acts, Same
  <2>3. CASE task.pc # "done"
    <3>1. last' = last
      BY <1>2, <2>3 DEF Start
    <3> QED BY <2>1, <3>1 DEF SecondRunInv, Ended
  <2> QED BY <2>2, <2>3
<1>3. CASE SkipInCheckMode \/ NoVersion
  <2>1. /\ task'.check \/ task'.failed
        /\ task'.mod = task.mod /\ task'.asked = task.asked /\ task'.wrote = task.wrote
        /\ task'.pc = "done" /\ task.pc = "init" /\ UNCHANGED <<setting, last, before, others>>
    BY <1>3, <1>a DEF SkipInCheckMode, NoVersion, End, TaskType
  <2> QED BY <1>0, <2>1 DEF SecondRunInv, Ended, Acts
<1>4. CASE Connect
  <2>1. /\ task.pc = "init" /\ task'.pc \in {"read", "write"}
        /\ task'.pc = "write" => ~task.mod.reads
        /\ task'.mod = task.mod /\ task'.asked = task.asked /\ task'.wrote = task.wrote
        /\ task'.check = task.check
        /\ UNCHANGED <<setting, last, before, others>>
    BY <1>4, <1>a DEF Connect, TaskType
  <2> QED BY <1>0, <2>1 DEF SecondRunInv, Ended, Acts, Same
<1>5. ASSUME NEW r \in {Failed, Odd} \cup 0..2, Read(r) PROVE SecondRunInv'
  <2>1. /\ task.pc = "read" /\ r \in Readings
        /\ task'.mod = task.mod /\ task'.asked = task.asked /\ task'.check = task.check
        /\ task'.wrote = task.wrote /\ task'.reading = r
        /\ UNCHANGED <<setting, last, before, others>>
    BY <1>a, <1>5, ReadLeadsTo
  <2>2. \/ task'.pc = "done" /\ task'.failed
        \/ /\ task'.pc = "done" /\ ~task'.failed
           /\ ~ReadFails(task.mod, task.asked, r) /\ ~Differs(task.mod, task.asked, r)
        \/ task'.pc = "done" /\ ~task'.failed /\ task.check
        \/ /\ task'.pc = "write"
           /\ ~ReadFails(task.mod, task.asked, r) /\ Differs(task.mod, task.asked, r)
    BY <1>a, <1>5, ReadLeadsTo
  <2>3. ~ReadFails(task.mod, task.asked, r) /\ ~Differs(task.mod, task.asked, r) => Same
    BY <1>0, <2>1, FailedReadDiffers DEF Same
  <2>4. Differs(task.mod, task.asked, r) /\ Same => r \in {Failed, Odd}
    BY <2>1 DEF Same, Readings
  <2>5. Same' <=> Same
    BY <2>1 DEF Same
  <2> QED BY <1>0, <2>1, <2>2, <2>3, <2>4, <2>5 DEF SecondRunInv, Ended, Acts
<1>6. CASE WriteSucceeds
  <2>1. /\ task.pc = "write" /\ task'.pc = "done"
        /\ task'.mod = task.mod /\ task'.asked = task.asked /\ task'.check = task.check
        /\ task'.reading = task.reading /\ setting' = task.asked
        /\ UNCHANGED <<last, others>>
    BY <1>6, <1>a DEF WriteSucceeds, TaskType
  <2>2. Acts(task') => Same'
    BY <1>0, <1>a, <2>1, AskedIsSame DEF TaskTyped, Acts, Same
  <2> QED BY <1>0, <2>1, <2>2 DEF SecondRunInv, Acts
<1>7. CASE WriteFails
  <2>1. /\ task.pc = "write" /\ task'.pc = "done"
        /\ task'.mod = task.mod /\ task'.asked = task.asked /\ task'.check = task.check
        /\ task'.reading = task.reading /\ task'.failed = ~task.mod.forgives
        /\ UNCHANGED <<last, others>>
    BY <1>7, <1>a DEF WriteFails, TaskType
  <2>2. task.mod.forgives => ~task.mod.reads
    BY <1>a, ModuleFacts DEF ModuleFact, StopDaemon, Work
  <2> QED BY <1>0, <2>1, <2>2 DEF SecondRunInv, Acts, Ended
<1>8. CASE UNCHANGED vars
  BY <1>0, <1>8 DEF vars, SecondRunInv, Ended, Acts, Same
<1> QED BY <1>0, <1>1, <1>2, <1>3, <1>4, <1>5, <1>6, <1>7, <1>8 DEF Next

(* A second run with the same request, after one that succeeded, sends no  *)
(* command to the node again, as long as its read gives a value.           *)
LEMMA SecondRunsSendNothing == OneNodeSpec => []SecondRunSendsNothing
<1>1. OneNodeInit => TaskTyped /\ SecondRunInv
  BY TaskTypeInit, SecondRunInit DEF OneNodeInit
<1>2. TaskTyped /\ SecondRunInv /\ [OneNodeNext]_allVars => (TaskTyped /\ SecondRunInv)'
  BY StepOfEach, TaskTypeStep, SecondRunStep
<1>3. SecondRunInv => SecondRunSendsNothing
  BY DEF SecondRunInv, SecondRunSendsNothing, Acts
<1> QED BY <1>1, <1>2, <1>3, PTL DEF OneNodeSpec, OneNodeNext

(* What a task of a nodetool module is asked for is done, whatever it read *)
(* and unless somebody changed the node meanwhile; and it is done once.    *)
THEOREM TasksDoAsAskedOnce == OneNodeSpec => []AsAskedOnce
<1>1. AsAsked /\ SecondRunSendsNothing => AsAskedOnce
  BY DEF AsAskedOnce
<1> QED BY <1>1, TasksDoAsAsked, SecondRunsSendNothing, PTL

-----------------------------------------------------------------------------
(* The poll of nodetool status.                                            *)

(* A ring read before the last poll, or one the poll goes on from, has a   *)
(* node down: with none down the poll would have ended.                    *)
ReadBeforeIsDown ==
    clusterStatus # Status!NoRing /\ (pc # "done" \/ rc # "ok") => Status!SomeDown(clusterStatus)

LEMMA StatusInit == OneNodeInit => ReadBeforeIsDown
BY DEF OneNodeInit, Status!Init, ReadBeforeIsDown

LEMMA StatusStep == ReadBeforeIsDown /\ [Status!Next]_statusVars => ReadBeforeIsDown'
<1>0. SUFFICES ASSUME ReadBeforeIsDown, [Status!Next]_statusVars PROVE ReadBeforeIsDown'
  OBVIOUS
<1>1. CASE Status!Answered
  BY <1>1 DEF Status!Answered, ReadBeforeIsDown, Status!SomeDown, Status!NoRing
<1>2. CASE Status!Failed \/ Status!VersionFails
  <2>1. pc = "poll" /\ clusterStatus' = clusterStatus
    BY <1>2 DEF Status!Failed, Status!VersionFails
  <2> QED BY <1>0, <2>1 DEF ReadBeforeIsDown, Status!SomeDown, Status!NoRing
<1>3. CASE Status!RingChanges
  <2>1. UNCHANGED <<clusterStatus, rc, pc>>
    BY <1>3 DEF Status!RingChanges
  <2> QED BY <1>0, <2>1 DEF ReadBeforeIsDown, Status!SomeDown, Status!NoRing
<1>4. CASE Status!Sleeps
  <2>1. pc = "sleep" /\ clusterStatus' = clusterStatus
    BY <1>4 DEF Status!Sleeps
  <2> QED BY <1>0, <2>1 DEF ReadBeforeIsDown, Status!SomeDown, Status!NoRing
<1>5. CASE UNCHANGED statusVars
  <2>1. UNCHANGED <<clusterStatus, rc, pc>>
    BY <1>5 DEF statusVars
  <2> QED BY <1>0, <2>1 DEF ReadBeforeIsDown, Status!SomeDown, Status!NoRing
<1> QED BY <1>0, <1>1, <1>2, <1>3, <1>4, <1>5 DEF Status!Next

(* Where no node is expected down, a ring with a node down is not healthy, *)
(* nor is a read that gave no ring.                                        *)
LEMMA DownIsFound ==
    ASSUME DownExpected = {}, clusterStatus = Status!NoRing \/ Status!SomeDown(clusterStatus)
    PROVE  Status!Findings # {}
<1> DEFINE view == [from |-> "node", answered |-> clusterStatus # Status!NoRing,
                    ring |-> clusterStatus]
           ok == [down |-> {}, joining |-> {}, leaving |-> {}]
<1>1. Status!Findings = Status!ViewFindings(view, Status!Cardinality(Addresses), ok)
  BY DEF Status!Findings, Status!View, Status!NoneExpected
<1>2. CASE clusterStatus = Status!NoRing
  BY <1>1, <1>2 DEF Status!ViewFindings
<1>3. CASE clusterStatus # Status!NoRing
  <2>1. PICK a \in DOMAIN clusterStatus : clusterStatus[a] \in Status!DownCodes
    BY <1>3 DEF Status!SomeDown
  <2>2. clusterStatus[a] # "UN" /\ ~Status!Tolerated(a, clusterStatus[a], ok)
    BY <2>1 DEF Status!DownCodes, Status!Tolerated
  <2>3. <<"state", a, "node">> \in Status!StateFindings(view, ok)
    BY <2>1, <2>2 DEF Status!StateFindings
  <2> QED BY <1>1, <1>3, <2>3 DEF Status!ViewFindings
<1> QED BY <1>2, <1>3

(* A read is found healthy only when nodetool answered its last poll, for  *)
(* the checks that expect no node down (those of a rolling operation).     *)
THEOREM HealthyOnlyWhenAnswered ==
    ASSUME DownExpected = {}
    PROVE  OneNodeSpec => []HealthyWhenAnswered
<1>1. OneNodeInit => ReadBeforeIsDown
  BY StatusInit
<1>2. ReadBeforeIsDown /\ [OneNodeNext]_allVars => ReadBeforeIsDown'
  BY StepOfEach, StatusStep
<1>3. ReadBeforeIsDown => HealthyWhenAnswered
  BY DownIsFound DEF ReadBeforeIsDown, HealthyWhenAnswered, Status!HealthyWhenAnswered
<1> QED BY <1>1, <1>2, <1>3, PTL DEF OneNodeSpec, OneNodeNext

-----------------------------------------------------------------------------
(* The record of the configuration a node started with.                    *)

LEMMA YamlIsFile == Yaml \in Pending!Files
BY DEF Pending!Files, Pending!ConfigFiles

LEMMA VersionsAreNumbers == 0 \in Pending!Versions /\ Pending!Versions \subseteq Nat
BY PendingAssumption DEF Pending!Versions, Pending!FilesAssumption

LEMMA ChecksumType ==
    ASSUME disk \in [Pending!Files -> Pending!Versions], seeds \in Pending!Versions
    PROVE  \A f \in Pending!Files :
              /\ Pending!Checksum(f) \in Pending!Checksums
              /\ Pending!Checksum(f) # Pending!Absent
              /\ Pending!Checksum(f)[1] = disk[f]
              /\ Pending!Checksum(f)[2] = IF f = Yaml THEN seeds ELSE 0
BY VersionsAreNumbers DEF Pending!Checksum, Pending!Checksums, Pending!Absent

LEMMA PendingTypeInit == Pending!Init => Pending!TypeOK
BY VersionsAreNumbers DEF Pending!Init, Pending!TypeOK, Pending!Absent

LEMMA PendingTypeStep == Pending!TypeOK /\ [Pending!Next]_pendingVars => Pending!TypeOK'
<1>0. SUFFICES ASSUME Pending!TypeOK, [Pending!Next]_pendingVars PROVE Pending!TypeOK'
  OBVIOUS
<1>a. /\ disk \in [Pending!Files -> Pending!Versions] /\ seeds \in Pending!Versions
      /\ \A f \in Pending!Files : Pending!Checksum(f) \in Pending!Checksums
  BY <1>0, ChecksumType DEF Pending!TypeOK
<1>b. Pending!Seed => /\ record' \in [Pending!Files -> Pending!Checksums \cup {Pending!Absent}]
                      /\ recorded' \in BOOLEAN
  BY <1>0, <1>a DEF Pending!TypeOK, Pending!Seed
<1>c. \A v, w : Pending!Former(v, w) \subseteq Pending!Slips
  BY DEF Pending!Former, Pending!Slips
<1>d. Pending!Edited \subseteq Pending!Slips
  BY DEF Pending!Edited, Pending!Slips
<1>1. ASSUME NEW f \in Pending!Files, NEW w \in Pending!Versions, Pending!RoleWrites(f, w)
      PROVE  Pending!TypeOK'
  BY <1>0, <1>1, <1>b, <1>c DEF Pending!RoleWrites, Pending!WriteSettings, Pending!TypeOK, Pending!jvm
<1>2. ASSUME NEW w \in Pending!Versions, Pending!RoleWritesSeeds(w)
      PROVE  Pending!TypeOK'
  BY <1>0, <1>2, <1>b, <1>c, YamlIsFile
  DEF Pending!RoleWritesSeeds, Pending!WriteSeedsLine, Pending!TypeOK, Pending!jvm, Pending!Slips
<1>3. ASSUME NEW w \in Pending!Versions, Pending!WriteSeeds(w)
      PROVE  Pending!TypeOK'
  BY <1>0, <1>3, <1>a, <1>c, YamlIsFile
  DEF Pending!WriteSeeds, Pending!WriteSeedsLine, Pending!TypeOK, Pending!jvm, Pending!conf
<1>4. CASE Pending!HandEdits
  BY <1>0, <1>4, <1>c, <1>d, YamlIsFile
  DEF Pending!HandEdits, Pending!WriteSettings, Pending!WriteSeedsLine, Pending!TypeOK,
      Pending!jvm, Pending!Slips
<1>5. CASE Pending!RoleStarts \/ Pending!OtherStart
  BY <1>0, <1>5 DEF Pending!RoleStarts, Pending!OtherStart, Pending!Starts, Pending!TypeOK, Pending!Slips
<1>6. CASE Pending!Snapshot
  BY <1>0, <1>6, <1>a DEF Pending!Snapshot, Pending!TypeOK, Pending!jvm, Pending!conf
<1>7. CASE Pending!Stops \/ Pending!ConfigReloads \/ Pending!ReloadSeeds
  BY <1>0, <1>7
  DEF Pending!Stops, Pending!ConfigReloads, Pending!ReloadSeeds, Pending!TypeOK, Pending!conf
<1>8. CASE Pending!RecordSeeds
  BY <1>0, <1>8, <1>a, YamlIsFile DEF Pending!RecordSeeds, Pending!TypeOK, Pending!jvm, Pending!conf
<1>9. CASE Pending!RunStops
  BY <1>0, <1>9 DEF Pending!RunStops, Pending!TypeOK, Pending!jvm, Pending!conf, Pending!Slips
<1>10. CASE UNCHANGED pendingVars
  BY <1>0, <1>10 DEF pendingVars, Pending!TypeOK
<1> QED
  BY <1>0, <1>1, <1>2, <1>3, <1>4, <1>5, <1>6, <1>7, <1>8, <1>9, <1>10 DEF Pending!Next

(* What the record, the disk and the process share whatever was done: no   *)
(* record is empty, a file not written since the start is the one read.    *)
RecordBase ==
    /\ ~recorded => \A f \in Pending!Files : record[f] = Pending!Absent
    /\ \A f \in Pending!Files : f \notin written => disk[f] = loaded[f]
    /\ Yaml \notin written => seeds = liveSeeds
    /\ \A f \in Pending!Files : record[f] # Pending!Absent /\ f # Yaml => record[f][2] = 0
    /\ step = "started" /\ recorded => "unrecorded" \in slips
    /\ step = "config_written" => "seeds" \in slips
    /\ step # "idle" => running

(* What a run of the roles relies on until its end, if nobody edits.       *)
RunBase ==
    Pending!NoneOf({"edited"}) =>
        /\ step = "started" => disk = loaded /\ seeds = liveSeeds
        /\ step \in {"seeds_written", "seeds_reloaded"} => confBefore[1] = disk[Yaml]
        /\ step = "seeds_reloaded" => seeds = liveSeeds

(* While every start is recorded, the record holds what was loaded.        *)
RecordIsLoaded ==
    Pending!NoneOf({"edited", "unrecorded"}) =>
        \A f \in Pending!Files : record[f] # Pending!Absent => record[f][1] = loaded[f]

(* While no former content comes back, versions only grow: from the record *)
(* to the start, from the start to the disk.                               *)
SettingsGrow ==
    Pending!NoneOf({"edited", "former"}) =>
        \A f \in Pending!Files :
            /\ loaded[f] <= disk[f]
            /\ record[f] # Pending!Absent => record[f][1] <= loaded[f]

(* The same of the seeds, whose last start is their last reload.           *)
SeedsGrow ==
    Pending!NoneOf({"edited", "former"}) =>
        /\ liveSeeds <= seeds
        /\ record[Yaml] # Pending!Absent => record[Yaml][2] <= liveSeeds

(* While the seeds are left to seeds_apply.yml too, the record of          *)
(* cassandra.yaml is what the node uses, unless a setting waits.           *)
RecordIsLive ==
    Pending!NoneOf(Pending!Slips) =>
        /\ step \in {"idle", "started"} /\ record[Yaml] # Pending!Absent =>
             record[Yaml] = <<loaded[Yaml], liveSeeds>> \/ disk[Yaml] # loaded[Yaml]
        /\ step \in {"seeds_written", "seeds_reloaded"} /\ record[Yaml] # Pending!Absent =>
             record[Yaml] = confBefore \/ disk[Yaml] # loaded[Yaml]
        /\ step = "idle" /\ running => seeds = liveSeeds

RecordInv == RecordBase /\ RunBase /\ RecordIsLoaded /\ SettingsGrow /\ SeedsGrow /\ RecordIsLive

LEMMA RecordBaseStep ==
    Pending!TypeOK /\ RecordBase /\ [Pending!Next]_pendingVars => RecordBase'
<1>0. SUFFICES ASSUME Pending!TypeOK, RecordBase, [Pending!Next]_pendingVars PROVE RecordBase'
  OBVIOUS
<1>a. /\ Pending!TypeOK'
      /\ \A f \in Pending!Files :
           /\ Pending!Checksum(f) # Pending!Absent
           /\ Pending!Checksum(f)[1] = disk[f]
           /\ Pending!Checksum(f)[2] = IF f = Yaml THEN seeds ELSE 0
  BY <1>0, PendingTypeStep, ChecksumType DEF Pending!TypeOK
<1>1. ASSUME NEW f \in Pending!Files, NEW w \in Pending!Versions, Pending!RoleWrites(f, w)
      PROVE  RecordBase'
  BY <1>1, <1>0, <1>a, YamlIsFile
  DEF Pending!RoleWrites, Pending!Seed, Pending!WriteSettings, Pending!jvm, RecordBase,
      Pending!TypeOK
<1>2. ASSUME NEW w \in Pending!Versions, Pending!RoleWritesSeeds(w)
      PROVE  RecordBase'
  BY <1>2, <1>0, <1>a, YamlIsFile
  DEF Pending!RoleWritesSeeds, Pending!Seed, Pending!WriteSeedsLine, Pending!jvm, RecordBase,
      Pending!TypeOK
<1>3. ASSUME NEW w \in Pending!Versions, Pending!WriteSeeds(w)
      PROVE  RecordBase'
  BY <1>3, <1>0, <1>a, YamlIsFile
  DEF Pending!WriteSeeds, Pending!WriteSeedsLine, Pending!jvm, Pending!conf, RecordBase,
      Pending!TypeOK
<1>4. CASE Pending!HandEdits
  BY <1>4, <1>0, <1>a, YamlIsFile
  DEF Pending!HandEdits, Pending!WriteSettings, Pending!WriteSeedsLine, Pending!Edited,
      Pending!jvm, RecordBase, Pending!TypeOK
<1>5. CASE Pending!RoleStarts
  BY <1>5, <1>0, <1>a, YamlIsFile
  DEF Pending!RoleStarts, Pending!Starts, RecordBase, Pending!TypeOK
<1>6. CASE Pending!Snapshot
  BY <1>6, <1>0, <1>a, YamlIsFile
  DEF Pending!Snapshot, Pending!jvm, Pending!conf, RecordBase, Pending!TypeOK
<1>7. CASE Pending!OtherStart
  BY <1>7, <1>0, <1>a, YamlIsFile
  DEF Pending!OtherStart, Pending!Starts, RecordBase, Pending!TypeOK
<1>8. CASE Pending!Stops
  BY <1>8, <1>0, <1>a, YamlIsFile DEF Pending!Stops, Pending!conf, RecordBase, Pending!TypeOK
<1>9. CASE Pending!ConfigReloads
  BY <1>9, <1>0, <1>a, YamlIsFile
  DEF Pending!ConfigReloads, Pending!conf, RecordBase, Pending!TypeOK
<1>10. CASE Pending!ReloadSeeds
  BY <1>10, <1>0, <1>a, YamlIsFile
  DEF Pending!ReloadSeeds, Pending!conf, RecordBase, Pending!TypeOK
<1>11. CASE Pending!RecordSeeds
  BY <1>11, <1>0, <1>a, YamlIsFile
  DEF Pending!RecordSeeds, Pending!jvm, Pending!conf, RecordBase, Pending!TypeOK
<1>12. CASE Pending!RunStops
  BY <1>12, <1>0, <1>a, YamlIsFile
  DEF Pending!RunStops, Pending!jvm, Pending!conf, RecordBase, Pending!TypeOK
<1>13. CASE UNCHANGED pendingVars
  BY <1>13, <1>0, <1>a, YamlIsFile DEF pendingVars, RecordBase, Pending!TypeOK
<1> QED
  BY <1>0, <1>1, <1>2, <1>3, <1>4, <1>5, <1>6, <1>7, <1>8, <1>9, <1>10, <1>11,
     <1>12, <1>13 DEF Pending!Next

LEMMA RunBaseStep ==
    Pending!TypeOK /\ RecordBase /\ RunBase /\ [Pending!Next]_pendingVars => RunBase'
<1>0. SUFFICES ASSUME Pending!TypeOK, RecordBase, RunBase, [Pending!Next]_pendingVars PROVE RunBase'
  OBVIOUS
<1>a. /\ Pending!TypeOK'
      /\ \A f \in Pending!Files :
           /\ Pending!Checksum(f) # Pending!Absent
           /\ Pending!Checksum(f)[1] = disk[f]
           /\ Pending!Checksum(f)[2] = IF f = Yaml THEN seeds ELSE 0
  BY <1>0, PendingTypeStep, ChecksumType DEF Pending!TypeOK
<1>1. ASSUME NEW f \in Pending!Files, NEW w \in Pending!Versions, Pending!RoleWrites(f, w)
      PROVE  RunBase'
  BY <1>1, <1>0, <1>a, YamlIsFile
  DEF Pending!RoleWrites, Pending!Seed, Pending!WriteSettings, Pending!jvm, RecordBase,
      RunBase, Pending!TypeOK, Pending!NoneOf, Pending!Absent
<1>2. ASSUME NEW w \in Pending!Versions, Pending!RoleWritesSeeds(w)
      PROVE  RunBase'
  BY <1>2, <1>0, <1>a, YamlIsFile
  DEF Pending!RoleWritesSeeds, Pending!Seed, Pending!WriteSeedsLine, Pending!jvm, RecordBase,
      RunBase, Pending!TypeOK, Pending!NoneOf, Pending!Absent
<1>3. ASSUME NEW w \in Pending!Versions, Pending!WriteSeeds(w)
      PROVE  RunBase'
  BY <1>3, <1>0, <1>a, YamlIsFile
  DEF Pending!WriteSeeds, Pending!WriteSeedsLine, Pending!jvm, Pending!conf, RecordBase,
      RunBase, Pending!TypeOK, Pending!NoneOf, Pending!Absent
<1>4. CASE Pending!HandEdits
  BY <1>4, <1>0, <1>a, YamlIsFile
  DEF Pending!HandEdits, Pending!WriteSettings, Pending!WriteSeedsLine, Pending!Edited,
      Pending!jvm, RecordBase, RunBase, Pending!TypeOK, Pending!NoneOf, Pending!Absent
<1>5. CASE Pending!RoleStarts
  BY <1>5, <1>0, <1>a, YamlIsFile
  DEF Pending!RoleStarts, Pending!Starts, RecordBase, RunBase, Pending!TypeOK, Pending!NoneOf,
      Pending!Absent
<1>6. CASE Pending!Snapshot
  BY <1>6, <1>0, <1>a, YamlIsFile
  DEF Pending!Snapshot, Pending!jvm, Pending!conf, RecordBase, RunBase, Pending!TypeOK,
      Pending!NoneOf, Pending!Absent
<1>7. CASE Pending!OtherStart
  BY <1>7, <1>0, <1>a, YamlIsFile
  DEF Pending!OtherStart, Pending!Starts, RecordBase, RunBase, Pending!TypeOK, Pending!NoneOf,
      Pending!Absent
<1>8. CASE Pending!Stops
  BY <1>8, <1>0, <1>a, YamlIsFile
  DEF Pending!Stops, Pending!conf, RecordBase, RunBase, Pending!TypeOK, Pending!NoneOf,
      Pending!Absent
<1>9. CASE Pending!ConfigReloads
  BY <1>9, <1>0, <1>a, YamlIsFile
  DEF Pending!ConfigReloads, Pending!conf, RecordBase, RunBase, Pending!TypeOK, Pending!NoneOf,
      Pending!Absent
<1>10. CASE Pending!ReloadSeeds
  BY <1>10, <1>0, <1>a, YamlIsFile
  DEF Pending!ReloadSeeds, Pending!conf, RecordBase, RunBase, Pending!TypeOK, Pending!NoneOf,
      Pending!Absent
<1>11. CASE Pending!RecordSeeds
  BY <1>11, <1>0, <1>a, YamlIsFile
  DEF Pending!RecordSeeds, Pending!jvm, Pending!conf, RecordBase, RunBase, Pending!TypeOK,
      Pending!NoneOf, Pending!Absent
<1>12. CASE Pending!RunStops
  BY <1>12, <1>0, <1>a, YamlIsFile
  DEF Pending!RunStops, Pending!jvm, Pending!conf, RecordBase, RunBase, Pending!TypeOK,
      Pending!NoneOf, Pending!Absent
<1>13. CASE UNCHANGED pendingVars
  BY <1>13, <1>0, <1>a, YamlIsFile
  DEF pendingVars, RecordBase, RunBase, Pending!TypeOK, Pending!NoneOf, Pending!Absent
<1> QED
  BY <1>0, <1>1, <1>2, <1>3, <1>4, <1>5, <1>6, <1>7, <1>8, <1>9, <1>10, <1>11,
     <1>12, <1>13 DEF Pending!Next

(* A checksum is not the absence of one.                                   *)
LEMMA ChecksumIsThere ==
    ASSUME NEW c \in Pending!Checksums
    PROVE  c # Pending!Absent /\ c = <<c[1], c[2]>>
<1>1. PICK v \in Pending!Versions, w \in Pending!Versions : c = <<v, w>>
  BY DEF Pending!Checksums
<1> QED BY <1>1 DEF Pending!Absent

(* What the end of seeds_apply.yml records.                                *)
LEMMA SeedsRecorded ==
    ASSUME Pending!TypeOK, Pending!RecordSeeds
    PROVE  /\ step = "seeds_reloaded" /\ step' = "idle"
           /\ UNCHANGED <<running, disk, seeds, loaded, liveSeeds, written, recorded, slips>>
           /\ \A f \in Pending!Files : f # Yaml => record'[f] = record[f]
           /\ \/ record'[Yaml] = record[Yaml] /\ (~recorded \/ record[Yaml] # confBefore)
              \/ /\ record[Yaml] = confBefore /\ record[Yaml] # Pending!Absent
                 /\ record'[Yaml] = Pending!Checksum(Yaml)
<1>1. confBefore # Pending!Absent /\ record \in [Pending!Files -> Pending!Checksums \cup {Pending!Absent}]
  BY ChecksumIsThere DEF Pending!RecordSeeds, Pending!TypeOK
<1> QED
  BY <1>1, YamlIsFile DEF Pending!RecordSeeds, Pending!jvm, Pending!conf

LEMMA RecordIsLoadedStep ==
    Pending!TypeOK /\ RecordBase /\ RunBase /\ RecordIsLoaded /\ [Pending!Next]_pendingVars => RecordIsLoaded'
<1>0. SUFFICES ASSUME Pending!TypeOK, RecordBase, RunBase, RecordIsLoaded, [Pending!Next]_pendingVars PROVE RecordIsLoaded'
  OBVIOUS
<1>a. /\ Pending!TypeOK'
      /\ \A f \in Pending!Files :
           /\ Pending!Checksum(f) # Pending!Absent
           /\ Pending!Checksum(f)[1] = disk[f]
           /\ Pending!Checksum(f)[2] = IF f = Yaml THEN seeds ELSE 0
  BY <1>0, PendingTypeStep, ChecksumType DEF Pending!TypeOK
<1>1. ASSUME NEW f \in Pending!Files, NEW w \in Pending!Versions, Pending!RoleWrites(f, w)
      PROVE  RecordIsLoaded'
  BY <1>1, <1>0, <1>a, YamlIsFile
  DEF Pending!RoleWrites, Pending!Seed, Pending!WriteSettings, Pending!jvm, RecordBase,
      RunBase, RecordIsLoaded, Pending!TypeOK, Pending!NoneOf
<1>2. ASSUME NEW w \in Pending!Versions, Pending!RoleWritesSeeds(w)
      PROVE  RecordIsLoaded'
  BY <1>2, <1>0, <1>a, YamlIsFile
  DEF Pending!RoleWritesSeeds, Pending!Seed, Pending!WriteSeedsLine, Pending!jvm, RecordBase,
      RunBase, RecordIsLoaded, Pending!TypeOK, Pending!NoneOf
<1>3. ASSUME NEW w \in Pending!Versions, Pending!WriteSeeds(w)
      PROVE  RecordIsLoaded'
  BY <1>3, <1>0, <1>a, YamlIsFile
  DEF Pending!WriteSeeds, Pending!WriteSeedsLine, Pending!jvm, Pending!conf, RecordBase,
      RunBase, RecordIsLoaded, Pending!TypeOK, Pending!NoneOf
<1>4. CASE Pending!HandEdits
  BY <1>4, <1>0, <1>a, YamlIsFile
  DEF Pending!HandEdits, Pending!WriteSettings, Pending!WriteSeedsLine, Pending!Edited,
      Pending!jvm, RecordBase, RunBase, RecordIsLoaded, Pending!TypeOK, Pending!NoneOf
<1>5. CASE Pending!RoleStarts
  BY <1>5, <1>0, <1>a, YamlIsFile
  DEF Pending!RoleStarts, Pending!Starts, RecordBase, RunBase, RecordIsLoaded, Pending!TypeOK,
      Pending!NoneOf
<1>6. CASE Pending!Snapshot
  BY <1>6, <1>0, <1>a, YamlIsFile
  DEF Pending!Snapshot, Pending!jvm, Pending!conf, RecordBase, RunBase, RecordIsLoaded,
      Pending!TypeOK, Pending!NoneOf
<1>7. CASE Pending!OtherStart
  BY <1>7, <1>0, <1>a, YamlIsFile
  DEF Pending!OtherStart, Pending!Starts, RecordBase, RunBase, RecordIsLoaded, Pending!TypeOK,
      Pending!NoneOf
<1>8. CASE Pending!Stops
  BY <1>8, <1>0, <1>a, YamlIsFile
  DEF Pending!Stops, Pending!conf, RecordBase, RunBase, RecordIsLoaded, Pending!TypeOK,
      Pending!NoneOf
<1>9. CASE Pending!ConfigReloads
  BY <1>9, <1>0, <1>a, YamlIsFile
  DEF Pending!ConfigReloads, Pending!conf, RecordBase, RunBase, RecordIsLoaded, Pending!TypeOK,
      Pending!NoneOf
<1>10. CASE Pending!ReloadSeeds
  BY <1>10, <1>0, <1>a, YamlIsFile
  DEF Pending!ReloadSeeds, Pending!conf, RecordBase, RunBase, RecordIsLoaded, Pending!TypeOK,
      Pending!NoneOf
<1>11. CASE Pending!RecordSeeds
  BY <1>11, <1>0, <1>a, SeedsRecorded, YamlIsFile
  DEF RunBase, RecordIsLoaded, Pending!NoneOf
<1>12. CASE Pending!RunStops
  BY <1>12, <1>0, <1>a, YamlIsFile
  DEF Pending!RunStops, Pending!jvm, Pending!conf, RecordBase, RunBase, RecordIsLoaded,
      Pending!TypeOK, Pending!NoneOf
<1>13. CASE UNCHANGED pendingVars
  BY <1>13, <1>0, <1>a, YamlIsFile
  DEF pendingVars, RecordBase, RunBase, RecordIsLoaded, Pending!TypeOK, Pending!NoneOf
<1> QED
  BY <1>0, <1>1, <1>2, <1>3, <1>4, <1>5, <1>6, <1>7, <1>8, <1>9, <1>10, <1>11,
     <1>12, <1>13 DEF Pending!Next

LEMMA SettingsGrowStep ==
    Pending!TypeOK /\ RecordBase /\ RunBase /\ SettingsGrow /\ [Pending!Next]_pendingVars => SettingsGrow'
<1>0. SUFFICES ASSUME Pending!TypeOK, RecordBase, RunBase, SettingsGrow, [Pending!Next]_pendingVars PROVE SettingsGrow'
  OBVIOUS
<1>a. /\ Pending!TypeOK'
      /\ \A f \in Pending!Files :
           /\ Pending!Checksum(f) # Pending!Absent
           /\ Pending!Checksum(f)[1] = disk[f]
           /\ Pending!Checksum(f)[2] = IF f = Yaml THEN seeds ELSE 0
  BY <1>0, PendingTypeStep, ChecksumType DEF Pending!TypeOK
<1>b. /\ seeds \in Nat /\ liveSeeds \in Nat /\ seeds' \in Nat /\ liveSeeds' \in Nat
      /\ \A f \in Pending!Files :
           /\ disk[f] \in Nat /\ loaded[f] \in Nat /\ disk'[f] \in Nat /\ loaded'[f] \in Nat
           /\ record[f] # Pending!Absent => record[f][1] \in Nat /\ record[f][2] \in Nat
  BY <1>0, <1>a, VersionsAreNumbers DEF Pending!TypeOK, Pending!Checksums
<1>c. \A v \in Nat, w \in Nat : "former" \notin Pending!Former(v, w) => v <= w
  BY DEF Pending!Former
<1>d. \A f \in Pending!Files, g \in Pending!Files, w \in Pending!Versions :
        /\ [disk EXCEPT ![f] = w][g] = IF g = f THEN w ELSE disk[g]
        /\ w \in Nat
  BY <1>0, VersionsAreNumbers DEF Pending!TypeOK
<1>1. ASSUME NEW f \in Pending!Files, NEW w \in Pending!Versions, Pending!RoleWrites(f, w)
      PROVE  SettingsGrow'
  BY <1>1, <1>0, <1>a, <1>b, <1>c, <1>d, YamlIsFile
  DEF Pending!RoleWrites, Pending!Seed, Pending!WriteSettings, Pending!jvm, RecordBase,
      RunBase, SettingsGrow, Pending!NoneOf
<1>2. ASSUME NEW w \in Pending!Versions, Pending!RoleWritesSeeds(w)
      PROVE  SettingsGrow'
  BY <1>2, <1>0, <1>a, <1>b, <1>c, <1>d, YamlIsFile
  DEF Pending!RoleWritesSeeds, Pending!Seed, Pending!WriteSeedsLine, Pending!jvm, RecordBase,
      RunBase, SettingsGrow, Pending!NoneOf
<1>3. ASSUME NEW w \in Pending!Versions, Pending!WriteSeeds(w)
      PROVE  SettingsGrow'
  BY <1>3, <1>0, <1>a, <1>b, <1>c, <1>d, YamlIsFile
  DEF Pending!WriteSeeds, Pending!WriteSeedsLine, Pending!jvm, Pending!conf, RecordBase,
      RunBase, SettingsGrow, Pending!NoneOf
<1>4. CASE Pending!HandEdits
  <2>1. ASSUME NEW f \in Pending!Files, NEW w \in Pending!Versions, Pending!WriteSettings(f, w),
               slips' = slips \cup Pending!Former(disk[f], w) \cup Pending!Edited
        PROVE  SettingsGrow'
    BY <2>1, <1>4, <1>0, <1>b, <1>c, <1>d
    DEF Pending!HandEdits, Pending!jvm, Pending!WriteSettings, SettingsGrow, Pending!NoneOf
  <2>2. CASE UNCHANGED disk
    BY <2>2, <1>4, <1>0, <1>b
    DEF Pending!HandEdits, Pending!jvm, SettingsGrow, Pending!NoneOf
  <2> QED BY <1>4, <2>1, <2>2 DEF Pending!HandEdits, Pending!WriteSeedsLine
<1>5. CASE Pending!RoleStarts
  BY <1>5, <1>0, <1>a, <1>b, <1>c, <1>d, YamlIsFile
  DEF Pending!RoleStarts, Pending!Starts, RecordBase, RunBase, SettingsGrow, Pending!NoneOf
<1>6. CASE Pending!Snapshot
  BY <1>6, <1>0, <1>a, <1>b, <1>c, <1>d, YamlIsFile
  DEF Pending!Snapshot, Pending!jvm, Pending!conf, RecordBase, RunBase, SettingsGrow,
      Pending!NoneOf
<1>7. CASE Pending!OtherStart
  BY <1>7, <1>0, <1>a, <1>b, <1>c, <1>d, YamlIsFile
  DEF Pending!OtherStart, Pending!Starts, RecordBase, RunBase, SettingsGrow, Pending!NoneOf
<1>8. CASE Pending!Stops
  BY <1>8, <1>0, <1>a, <1>b, <1>c, <1>d, YamlIsFile
  DEF Pending!Stops, Pending!conf, RecordBase, RunBase, SettingsGrow, Pending!NoneOf
<1>9. CASE Pending!ConfigReloads
  BY <1>9, <1>0, <1>a, <1>b, <1>c, <1>d, YamlIsFile
  DEF Pending!ConfigReloads, Pending!conf, RecordBase, RunBase, SettingsGrow, Pending!NoneOf
<1>10. CASE Pending!ReloadSeeds
  BY <1>10, <1>0, <1>a, <1>b, <1>c, <1>d, YamlIsFile
  DEF Pending!ReloadSeeds, Pending!conf, RecordBase, RunBase, SettingsGrow, Pending!NoneOf
<1>11. CASE Pending!RecordSeeds
  BY <1>11, <1>0, <1>a, <1>b, SeedsRecorded
  DEF RunBase, SettingsGrow, Pending!NoneOf
<1>12. CASE Pending!RunStops
  BY <1>12, <1>0, <1>a, <1>b, <1>c, <1>d, YamlIsFile
  DEF Pending!RunStops, Pending!jvm, Pending!conf, RecordBase, RunBase, SettingsGrow,
      Pending!NoneOf
<1>13. CASE UNCHANGED pendingVars
  BY <1>13, <1>0, <1>a, <1>b, <1>c, <1>d, YamlIsFile
  DEF pendingVars, RecordBase, RunBase, SettingsGrow, Pending!NoneOf
<1> QED
  BY <1>0, <1>1, <1>2, <1>3, <1>4, <1>5, <1>6, <1>7, <1>8, <1>9, <1>10, <1>11,
     <1>12, <1>13 DEF Pending!Next

LEMMA SeedsGrowStep ==
    Pending!TypeOK /\ RecordBase /\ RunBase /\ SeedsGrow /\ [Pending!Next]_pendingVars => SeedsGrow'
<1>0. SUFFICES ASSUME Pending!TypeOK, RecordBase, RunBase, SeedsGrow, [Pending!Next]_pendingVars PROVE SeedsGrow'
  OBVIOUS
<1>a. /\ Pending!TypeOK'
      /\ \A f \in Pending!Files :
           /\ Pending!Checksum(f) # Pending!Absent
           /\ Pending!Checksum(f)[1] = disk[f]
           /\ Pending!Checksum(f)[2] = IF f = Yaml THEN seeds ELSE 0
  BY <1>0, PendingTypeStep, ChecksumType DEF Pending!TypeOK
<1>b. /\ seeds \in Nat /\ liveSeeds \in Nat /\ seeds' \in Nat /\ liveSeeds' \in Nat
      /\ \A f \in Pending!Files :
           /\ disk[f] \in Nat /\ loaded[f] \in Nat /\ disk'[f] \in Nat /\ loaded'[f] \in Nat
           /\ record[f] # Pending!Absent => record[f][1] \in Nat /\ record[f][2] \in Nat
  BY <1>0, <1>a, VersionsAreNumbers DEF Pending!TypeOK, Pending!Checksums
<1>c. \A v \in Nat, w \in Nat : "former" \notin Pending!Former(v, w) => v <= w
  BY DEF Pending!Former
<1>d. \A f \in Pending!Files, g \in Pending!Files, w \in Pending!Versions :
        /\ [disk EXCEPT ![f] = w][g] = IF g = f THEN w ELSE disk[g]
        /\ w \in Nat
  BY <1>0, VersionsAreNumbers DEF Pending!TypeOK
<1>1. ASSUME NEW f \in Pending!Files, NEW w \in Pending!Versions, Pending!RoleWrites(f, w)
      PROVE  SeedsGrow'
  BY <1>1, <1>0, <1>a, <1>b, <1>c, <1>d, YamlIsFile
  DEF Pending!RoleWrites, Pending!Seed, Pending!WriteSettings, Pending!jvm, RecordBase,
      RunBase, SeedsGrow, Pending!NoneOf
<1>2. ASSUME NEW w \in Pending!Versions, Pending!RoleWritesSeeds(w)
      PROVE  SeedsGrow'
  BY <1>2, <1>0, <1>a, <1>b, <1>c, <1>d, YamlIsFile
  DEF Pending!RoleWritesSeeds, Pending!Seed, Pending!WriteSeedsLine, Pending!jvm, RecordBase,
      RunBase, SeedsGrow, Pending!NoneOf
<1>3. ASSUME NEW w \in Pending!Versions, Pending!WriteSeeds(w)
      PROVE  SeedsGrow'
  BY <1>3, <1>0, <1>a, <1>b, <1>c, <1>d, YamlIsFile
  DEF Pending!WriteSeeds, Pending!WriteSeedsLine, Pending!jvm, Pending!conf, RecordBase,
      RunBase, SeedsGrow, Pending!NoneOf
<1>4. CASE Pending!HandEdits
  BY <1>4, <1>0, <1>a, <1>b, <1>c, <1>d, YamlIsFile
  DEF Pending!HandEdits, Pending!WriteSettings, Pending!WriteSeedsLine, Pending!Edited,
      Pending!jvm, RecordBase, RunBase, SeedsGrow, Pending!NoneOf
<1>5. CASE Pending!RoleStarts
  BY <1>5, <1>0, <1>a, <1>b, <1>c, <1>d, YamlIsFile
  DEF Pending!RoleStarts, Pending!Starts, RecordBase, RunBase, SeedsGrow, Pending!NoneOf
<1>6. CASE Pending!Snapshot
  BY <1>6, <1>0, <1>a, <1>b, <1>c, <1>d, YamlIsFile
  DEF Pending!Snapshot, Pending!jvm, Pending!conf, RecordBase, RunBase, SeedsGrow,
      Pending!NoneOf
<1>7. CASE Pending!OtherStart
  BY <1>7, <1>0, <1>a, <1>b, <1>c, <1>d, YamlIsFile
  DEF Pending!OtherStart, Pending!Starts, RecordBase, RunBase, SeedsGrow, Pending!NoneOf
<1>8. CASE Pending!Stops
  BY <1>8, <1>0, <1>a, <1>b, <1>c, <1>d, YamlIsFile
  DEF Pending!Stops, Pending!conf, RecordBase, RunBase, SeedsGrow, Pending!NoneOf
<1>9. CASE Pending!ConfigReloads
  BY <1>9, <1>0, <1>a, <1>b, <1>c, <1>d, YamlIsFile
  DEF Pending!ConfigReloads, Pending!conf, RecordBase, RunBase, SeedsGrow, Pending!NoneOf
<1>10. CASE Pending!ReloadSeeds
  BY <1>10, <1>0, <1>a, <1>b, <1>c, <1>d, YamlIsFile
  DEF Pending!ReloadSeeds, Pending!conf, RecordBase, RunBase, SeedsGrow, Pending!NoneOf
<1>11. CASE Pending!RecordSeeds
  BY <1>11, <1>0, <1>a, <1>b, <1>c, <1>d, YamlIsFile
  DEF Pending!RecordSeeds, Pending!jvm, Pending!conf, RecordBase, RunBase, SeedsGrow,
      Pending!NoneOf
<1>12. CASE Pending!RunStops
  BY <1>12, <1>0, <1>a, <1>b, <1>c, <1>d, YamlIsFile
  DEF Pending!RunStops, Pending!jvm, Pending!conf, RecordBase, RunBase, SeedsGrow,
      Pending!NoneOf
<1>13. CASE UNCHANGED pendingVars
  BY <1>13, <1>0, <1>a, <1>b, <1>c, <1>d, YamlIsFile
  DEF pendingVars, RecordBase, RunBase, SeedsGrow, Pending!NoneOf
<1> QED
  BY <1>0, <1>1, <1>2, <1>3, <1>4, <1>5, <1>6, <1>7, <1>8, <1>9, <1>10, <1>11,
     <1>12, <1>13 DEF Pending!Next

LEMMA RecordIsLiveStep ==
    Pending!TypeOK /\ RecordBase /\ RunBase /\ RecordIsLoaded /\ SettingsGrow /\ RecordIsLive /\ [Pending!Next]_pendingVars => RecordIsLive'
<1>0. SUFFICES ASSUME Pending!TypeOK, RecordBase, RunBase, RecordIsLoaded, SettingsGrow, RecordIsLive, [Pending!Next]_pendingVars PROVE RecordIsLive'
  OBVIOUS
<1>a. /\ Pending!TypeOK'
      /\ \A f \in Pending!Files :
           /\ Pending!Checksum(f) # Pending!Absent
           /\ Pending!Checksum(f)[1] = disk[f]
           /\ Pending!Checksum(f)[2] = IF f = Yaml THEN seeds ELSE 0
  BY <1>0, PendingTypeStep, ChecksumType DEF Pending!TypeOK
<1>b. /\ seeds \in Nat /\ liveSeeds \in Nat /\ seeds' \in Nat /\ liveSeeds' \in Nat
      /\ \A f \in Pending!Files :
           /\ disk[f] \in Nat /\ loaded[f] \in Nat /\ disk'[f] \in Nat /\ loaded'[f] \in Nat
           /\ record[f] # Pending!Absent => record[f][1] \in Nat /\ record[f][2] \in Nat
  BY <1>0, <1>a, VersionsAreNumbers DEF Pending!TypeOK, Pending!Checksums
<1>c. \A v \in Nat, w \in Nat : "former" \notin Pending!Former(v, w) => v <= w
  BY DEF Pending!Former
<1>d. \A f \in Pending!Files, g \in Pending!Files, w \in Pending!Versions :
        /\ [disk EXCEPT ![f] = w][g] = IF g = f THEN w ELSE disk[g]
        /\ w \in Nat
  BY <1>0, VersionsAreNumbers DEF Pending!TypeOK
<1>e. Pending!Checksum(Yaml) = <<disk[Yaml], seeds>>
  BY DEF Pending!Checksum
<1>f. Pending!NoneOf(Pending!Slips) =>
        /\ Pending!NoneOf({"edited"}) /\ Pending!NoneOf({"edited", "unrecorded"})
        /\ loaded[Yaml] <= disk[Yaml]
  BY <1>0, YamlIsFile DEF SettingsGrow, Pending!NoneOf, Pending!Slips
<1>g. ~Pending!Snapshot => (Pending!NoneOf(Pending!Slips)' => Pending!NoneOf(Pending!Slips))
  <2>1. slips \subseteq slips' => (Pending!NoneOf(Pending!Slips)' => Pending!NoneOf(Pending!Slips))
    BY DEF Pending!NoneOf, Pending!Slips
  <2>2. Pending!Starts => slips \subseteq slips'
    BY DEF Pending!Starts
  <2> QED
    BY <1>0, <2>1, <2>2
    DEF Pending!Next, Pending!RoleWrites, Pending!RoleWritesSeeds, Pending!WriteSeeds,
        Pending!HandEdits, Pending!RoleStarts, Pending!OtherStart, Pending!Stops,
        Pending!ConfigReloads, Pending!ReloadSeeds, Pending!RecordSeeds, Pending!RunStops, pendingVars
<1>1. ASSUME NEW f \in Pending!Files, NEW w \in Pending!Versions, Pending!RoleWrites(f, w)
      PROVE  RecordIsLive'
  <2>1. SUFFICES ASSUME Pending!NoneOf(Pending!Slips), "former" \notin Pending!Former(disk[f], w)
                 PROVE  /\ record'[Yaml] # Pending!Absent =>
                             record'[Yaml] = <<loaded[Yaml], liveSeeds>> \/ disk'[Yaml] # loaded[Yaml]
                        /\ running => seeds = liveSeeds
    <3>1. ~Pending!Snapshot
      BY <1>1 DEF Pending!RoleWrites, Pending!Snapshot
    <3>2. step = "idle" /\ UNCHANGED <<step, running, loaded, liveSeeds, seeds>>
          /\ slips' = slips \cup Pending!Former(disk[f], w)
      BY <1>1 DEF Pending!RoleWrites, Pending!WriteSettings, Pending!jvm
    <3> QED BY <1>g, <3>1, <3>2 DEF RecordIsLive, Pending!NoneOf, Pending!Slips
  <2>2. step = "idle" /\ disk' = [disk EXCEPT ![f] = w] /\ Pending!Seed
    BY <1>1 DEF Pending!RoleWrites, Pending!WriteSettings
  <2>3. disk[Yaml] <= disk'[Yaml]
    BY <1>b, <1>c, <1>d, <2>1, <2>2, YamlIsFile
  <2>4. CASE record' = record
    BY <1>0, <1>b, <1>f, <2>1, <2>2, <2>3, <2>4, YamlIsFile DEF RecordIsLive
  <2>5. CASE record' # record
    BY <1>0, <1>e, <2>1, <2>2, <2>5, YamlIsFile DEF Pending!Seed, RecordBase, RecordIsLive
  <2> QED BY <2>4, <2>5
<1>2. ASSUME NEW w \in Pending!Versions, Pending!RoleWritesSeeds(w)
      PROVE  RecordIsLive'
  BY <1>2, <1>0, <1>a, <1>b, <1>c, <1>d, YamlIsFile
  DEF Pending!RoleWritesSeeds, Pending!Seed, Pending!WriteSeedsLine, Pending!jvm, RecordBase,
      RunBase, RecordIsLoaded, SettingsGrow, RecordIsLive, Pending!NoneOf, Pending!Slips
<1>3. ASSUME NEW w \in Pending!Versions, Pending!WriteSeeds(w)
      PROVE  RecordIsLive'
  <2>1. /\ step = "idle" /\ UNCHANGED <<running, loaded, liveSeeds, record, recorded, disk>>
        /\ running => step' = "seeds_written" /\ confBefore' = Pending!Checksum(Yaml)
        /\ ~running => step' = "idle"
    BY <1>3 DEF Pending!WriteSeeds, Pending!WriteSeedsLine, Pending!jvm, Pending!conf
  <2>2. ~Pending!Snapshot
    BY <2>1 DEF Pending!Snapshot
  <2>3. SUFFICES ASSUME Pending!NoneOf(Pending!Slips) PROVE RecordIsLive'
    BY <1>g, <2>2 DEF RecordIsLive
  <2>4. running => seeds = liveSeeds
    BY <1>0, <2>1, <2>3 DEF RecordIsLive
  <2>5. record[Yaml] # Pending!Absent =>
          record[Yaml] = <<loaded[Yaml], liveSeeds>> \/ disk[Yaml] # loaded[Yaml]
    BY <1>0, <2>1, <2>3 DEF RecordIsLive
  <2>6. record[Yaml] # Pending!Absent /\ running =>
          record[Yaml] = Pending!Checksum(Yaml) \/ disk[Yaml] # loaded[Yaml]
    BY <1>e, <2>4, <2>5
  <2> QED BY <2>1, <2>5, <2>6 DEF RecordIsLive
<1>4. CASE Pending!HandEdits
  <2>1. /\ UNCHANGED <<running, loaded, liveSeeds, record, step, confBefore>>
        /\ \/ "seeds" \in slips'
           \/ /\ seeds' = seeds
              /\ \E f \in Pending!Files, w \in Pending!Versions :
                   /\ disk' = [disk EXCEPT ![f] = w]
                   /\ Pending!Former(disk[f], w) \subseteq slips'
    BY <1>4 DEF Pending!HandEdits, Pending!WriteSettings, Pending!jvm
  <2>2. CASE Pending!Snapshot
    BY <2>1, <2>2 DEF Pending!Snapshot
  <2>3. CASE ~Pending!Snapshot
    <3>1. SUFFICES ASSUME Pending!NoneOf(Pending!Slips)', Pending!NoneOf(Pending!Slips)
                   PROVE  RecordIsLive'
      BY <1>g, <2>3 DEF RecordIsLive
    <3>2. "former" \notin slips' /\ "seeds" \notin slips'
      BY <3>1 DEF Pending!NoneOf, Pending!Slips
    <3>3. seeds' = seeds
      BY <2>1, <3>2
    <3>4. PICK f \in Pending!Files, w \in Pending!Versions :
            disk' = [disk EXCEPT ![f] = w] /\ Pending!Former(disk[f], w) \subseteq slips'
      BY <2>1, <3>2
    <3>5. disk[Yaml] <= disk'[Yaml]
      BY <1>b, <1>c, <1>d, <3>2, <3>4, YamlIsFile
    <3>6. disk[Yaml] # loaded[Yaml] => disk'[Yaml] # loaded'[Yaml]
      BY <1>b, <1>f, <2>1, <3>1, <3>5, YamlIsFile
    <3> QED BY <1>0, <2>1, <3>1, <3>3, <3>6 DEF RecordIsLive
  <2> QED BY <2>2, <2>3
<1>5. CASE Pending!RoleStarts
  BY <1>5, <1>0, <1>a, <1>b, <1>c, <1>d, YamlIsFile
  DEF Pending!RoleStarts, Pending!Starts, RecordBase, RunBase, RecordIsLoaded, SettingsGrow,
      RecordIsLive, Pending!NoneOf, Pending!Slips
<1>6. CASE Pending!Snapshot
  <2>1. /\ step = "started" /\ step' = "idle" /\ UNCHANGED <<disk, loaded, seeds, liveSeeds>>
        /\ record'[Yaml] = <<disk[Yaml], seeds>>
        /\ slips' = slips \cap {"edited"}
    BY <1>6, <1>e, YamlIsFile DEF Pending!Snapshot, Pending!jvm, Pending!conf
  <2>2. Pending!NoneOf(Pending!Slips)' => Pending!NoneOf({"edited"})
    BY <2>1 DEF Pending!NoneOf, Pending!Slips
  <2>3. Pending!NoneOf({"edited"}) => disk = loaded /\ seeds = liveSeeds
    BY <1>0, <2>1 DEF RunBase
  <2> QED BY <2>1, <2>2, <2>3 DEF RecordIsLive
<1>7. CASE Pending!OtherStart
  BY <1>7, <1>0, <1>a, <1>b, <1>c, <1>d, YamlIsFile
  DEF Pending!OtherStart, Pending!Starts, RecordBase, RunBase, RecordIsLoaded, SettingsGrow,
      RecordIsLive, Pending!NoneOf, Pending!Slips
<1>8. CASE Pending!Stops
  BY <1>8, <1>0, <1>a, <1>b, <1>c, <1>d, YamlIsFile
  DEF Pending!Stops, Pending!conf, RecordBase, RunBase, RecordIsLoaded, SettingsGrow,
      RecordIsLive, Pending!NoneOf, Pending!Slips
<1>9. CASE Pending!ConfigReloads
  BY <1>9, <1>0, <1>a, <1>b, <1>c, <1>d, YamlIsFile
  DEF Pending!ConfigReloads, Pending!conf, RecordBase, RunBase, RecordIsLoaded, SettingsGrow,
      RecordIsLive, Pending!NoneOf, Pending!Slips
<1>10. CASE Pending!ReloadSeeds
  BY <1>10, <1>0, <1>a, <1>b, <1>c, <1>d, YamlIsFile
  DEF Pending!ReloadSeeds, Pending!conf, RecordBase, RunBase, RecordIsLoaded, SettingsGrow,
      RecordIsLive, Pending!NoneOf, Pending!Slips
<1>11. CASE Pending!RecordSeeds
  <2>1. step = "seeds_reloaded" /\ step' = "idle"
        /\ UNCHANGED <<running, disk, seeds, loaded, liveSeeds, written, recorded, slips>>
    BY <1>0, <1>11, SeedsRecorded
  <2>2. SUFFICES ASSUME Pending!NoneOf(Pending!Slips)
                 PROVE  /\ record'[Yaml] # Pending!Absent =>
                             record'[Yaml] = <<loaded[Yaml], liveSeeds>> \/ disk[Yaml] # loaded[Yaml]
                        /\ seeds = liveSeeds
    BY <2>1 DEF RecordIsLive, Pending!NoneOf
  <2>3. seeds = liveSeeds
    BY <1>0, <1>f, <2>1, <2>2 DEF RunBase
  <2>4. record[Yaml] # Pending!Absent => record[Yaml] = confBefore \/ disk[Yaml] # loaded[Yaml]
    BY <1>0, <2>1, <2>2 DEF RecordIsLive
  <2>5. \/ record'[Yaml] = record[Yaml] /\ (~recorded \/ record[Yaml] # confBefore)
        \/ record'[Yaml] = <<disk[Yaml], seeds>>
    BY <1>0, <1>11, <1>e, SeedsRecorded
  <2>6. ~recorded => record[Yaml] = Pending!Absent
    BY <1>0, YamlIsFile DEF RecordBase
  <2> QED BY <2>3, <2>4, <2>5, <2>6
<1>12. CASE Pending!RunStops
  BY <1>12, <1>0, <1>a, <1>b, <1>c, <1>d, YamlIsFile
  DEF Pending!RunStops, Pending!jvm, Pending!conf, RecordBase, RunBase, RecordIsLoaded,
      SettingsGrow, RecordIsLive, Pending!NoneOf, Pending!Slips
<1>13. CASE UNCHANGED pendingVars
  BY <1>13, <1>0, <1>a, <1>b, <1>c, <1>d, YamlIsFile
  DEF pendingVars, RecordBase, RunBase, RecordIsLoaded, SettingsGrow, RecordIsLive,
      Pending!NoneOf, Pending!Slips
<1> QED
  BY <1>0, <1>1, <1>2, <1>3, <1>4, <1>5, <1>6, <1>7, <1>8, <1>9, <1>10, <1>11,
     <1>12, <1>13 DEF Pending!Next

LEMMA RecordInvInit == OneNodeInit => Pending!TypeOK /\ RecordInv
<1> SUFFICES ASSUME Pending!Init PROVE Pending!TypeOK /\ RecordInv
  BY DEF OneNodeInit
<1>1. Pending!TypeOK
  BY PendingTypeInit
<1>2. \A f \in Pending!Files : disk[f] = 0 /\ loaded[f] = 0 /\ record[f] = Pending!Absent
  BY DEF Pending!Init
<1> QED
  BY <1>1, <1>2, YamlIsFile
  DEF Pending!Init, RecordInv, RecordBase, RunBase, RecordIsLoaded, SettingsGrow, SeedsGrow,
      RecordIsLive

LEMMA RecordInvStep ==
    Pending!TypeOK /\ RecordInv /\ [Pending!Next]_pendingVars => Pending!TypeOK' /\ RecordInv'
BY PendingTypeStep, RecordBaseStep, RunBaseStep, RecordIsLoadedStep, SettingsGrowStep,
   SeedsGrowStep, RecordIsLiveStep DEF RecordInv

LEMMA RecordInvHolds == OneNodeSpec => [](Pending!TypeOK /\ RecordInv)
<1>1. Pending!TypeOK /\ RecordInv /\ [OneNodeNext]_allVars => (Pending!TypeOK /\ RecordInv)'
  BY StepOfEach, RecordInvStep
<1> QED BY <1>1, RecordInvInit, PTL DEF OneNodeSpec, OneNodeNext

(* A file that is not the one the node started with is pending, unless a   *)
(* former content came back after a start that was not recorded.           *)
LEMMA DifferenceIsPending ==
    ASSUME Pending!TypeOK, RecordInv, Pending!Settled, Pending!NoneOf({"edited"}),
           Pending!NoneOf({"unrecorded"}) \/ Pending!NoneOf({"former"}),
           NEW f \in Pending!Files, disk[f] # loaded[f]
    PROVE  Pending!Pending
<1>1. recorded /\ running /\ f \in written
  BY DEF RecordInv, RecordBase, Pending!Settled
<1>2. /\ Pending!Checksum(f) # Pending!Absent /\ Pending!Checksum(f)[1] = disk[f]
      /\ disk[f] \in Nat /\ loaded[f] \in Nat
  BY ChecksumType, VersionsAreNumbers DEF Pending!TypeOK
<1>3. record[f] # Pending!Checksum(f)
  <2>1. SUFFICES ASSUME record[f] # Pending!Absent, record[f][1] = disk[f] PROVE FALSE
    BY <1>2
  <2>2. CASE Pending!NoneOf({"unrecorded"})
    BY <2>1, <2>2 DEF RecordInv, RecordIsLoaded, Pending!NoneOf
  <2>3. CASE Pending!NoneOf({"former"})
    <3>1. loaded[f] <= disk[f] /\ record[f][1] <= loaded[f]
      BY <2>1, <2>3 DEF RecordInv, SettingsGrow, Pending!NoneOf
    <3> QED BY <1>2, <2>1, <3>1
  <2> QED BY <2>2, <2>3
<1>4. f \in Pending!Changed
  BY <1>1, <1>3 DEF Pending!Changed
<1> QED BY <1>4 DEF Pending!Pending

(* No change of a setting or of the unit escapes the record, whoever made  *)
(* it and in whatever order with the seeds, the starts, the stops and the  *)
(* runs that stopped halfway; nor one of the seeds, while no former        *)
(* content comes back.                                                     *)
THEOREM NoSettingEscapes == OneNodeSpec => []SettingsTold
<1>1. ASSUME Pending!TypeOK, RecordInv, Pending!Settled, Pending!NoneOf({"edited"}),
             ~{"former", "unrecorded"} \subseteq slips, disk # loaded
      PROVE  Pending!Pending
  <2>1. Pending!NoneOf({"unrecorded"}) \/ Pending!NoneOf({"former"})
    BY <1>1 DEF Pending!NoneOf
  <2>2. PICK f \in Pending!Files : disk[f] # loaded[f]
    BY <1>1 DEF Pending!TypeOK
  <2> QED BY <1>1, <2>1, <2>2, DifferenceIsPending
<1>2. ASSUME Pending!TypeOK, RecordInv, Pending!Settled, Pending!NoneOf({"edited"}),
             Pending!NoneOf({"former"}),
             seeds # liveSeeds
      PROVE  Pending!Pending
  <2>1. recorded
    BY <1>2 DEF Pending!Settled
  <2>7. Pending!NoneOf({"edited", "former"})
    BY <1>2 DEF Pending!NoneOf
  <2>2. /\ seeds \in Nat /\ liveSeeds \in Nat /\ liveSeeds <= seeds
        /\ record[Yaml] # Pending!Absent => record[Yaml][2] <= liveSeeds
    BY <1>2, <2>7, VersionsAreNumbers DEF RecordInv, SeedsGrow, Pending!TypeOK
  <2>3. Pending!Checksum(Yaml) # Pending!Absent /\ Pending!Checksum(Yaml)[2] = seeds
    BY <1>2, ChecksumType, YamlIsFile DEF Pending!TypeOK
  <2>4. record[Yaml] # Pending!Checksum(Yaml)
    BY <1>2, <2>2, <2>3
  <2>5. Yaml # Unit
    BY PendingAssumption DEF Pending!FilesAssumption, Pending!ConfigFiles
  <2>6. Yaml \in Pending!Changed
    BY <2>1, <2>4, <2>5, YamlIsFile DEF Pending!Changed
  <2> QED BY <2>6 DEF Pending!Pending
<1>3. Pending!TypeOK /\ RecordInv => SettingsTold
  BY <1>1, <1>2 DEF SettingsTold, Pending!SettingsTold
<1> QED BY <1>3, RecordInvHolds, PTL

(* A record of every file never has a node restarted for nothing, while    *)
(* every start is recorded and the seeds are left to seeds_apply.yml.      *)
THEOREM NoRestartForNothing == OneNodeSpec => []PendingIsReal
<1>1. Pending!TypeOK /\ RecordInv => PendingIsReal
  <2>1. SUFFICES ASSUME Pending!TypeOK, RecordInv, Pending!Settled,
                        Pending!NoneOf(Pending!Slips),
                        \A f \in Pending!Files : record[f] # Pending!Absent,
                        disk = loaded, seeds = liveSeeds
                 PROVE  ~Pending!Pending
    BY DEF PendingIsReal, Pending!PendingIsReal, Pending!Slips
  <2>2. ASSUME NEW f \in Pending!Files PROVE record[f] = Pending!Checksum(f)
    <3>1. record[f][1] = disk[f] /\ record[f] \in Pending!Checksums
      BY <2>1 DEF RecordInv, RecordIsLoaded, Pending!NoneOf, Pending!Slips, Pending!TypeOK
    <3>2. CASE f = Yaml
      BY <2>1, <3>2 DEF RecordInv, RecordIsLive, Pending!Settled, Pending!Checksum
    <3>3. CASE f # Yaml
      <4>1. record[f][2] = 0
        BY <2>1, <3>3 DEF RecordInv, RecordBase
      <4> QED BY <3>1, <3>3, <4>1, ChecksumIsThere DEF Pending!Checksum
    <3> QED BY <3>2, <3>3
  <2> QED BY <2>1, <2>2 DEF Pending!Pending, Pending!Changed
<1> QED BY <1>1, RecordInvHolds, PTL

-----------------------------------------------------------------------------
(* Keyspaces, tables and roles: a task that succeeded leaves the object    *)
(* and the permissions of a role as asked, whatever the task before it did *)
(* or failed to do, and the same task again sends nothing.                 *)

AKeyspace(o) == o \in [kind : {"keyspace"}, exists : BOOLEAN, durable : BOOLEAN,
                       network : BOOLEAN, rf : {o.rf}]
RoleShapes == [kind : {"role"}, exists : BOOLEAN, super : BOOLEAN, login : BOOLEAN,
                held : SUBSET (Resources \X Perms), member : SUBSET Groups]

\* The object keeps the shape its kind has.
ShapeOK ==
  /\ ask \in Asks
  /\ ask.kind = "keyspace" => AKeyspace(cluster) /\ AKeyspace(start)
  /\ ask.kind = "table" => cluster \in [kind : {"table"}, exists : BOOLEAN]
  /\ ask.kind = "role" => cluster \in RoleShapes /\ start \in RoleShapes

\* A task at work, and past its object.
TaskShape ==
  /\ exec.pc \in {"object", "perms", "roles", "send", "done", "failed"}
  /\ exec = [pc |-> exec.pc, check |-> exec.check, changed |-> exec.changed, sent |-> exec.sent,
             revoke |-> exec.revoke, grant |-> exec.grant, next |-> exec.next]
  /\ exec.check \in BOOLEAN /\ exec.changed \in BOOLEAN /\ exec.sent \in BOOLEAN
  /\ exec.next \in {"roles", "done"}
  /\ exec.pc \in {"perms", "roles", "send"} => ask.kind = "role" /\ ask.state = "present"
  /\ exec.pc = "send" => ~exec.check
  /\ exec.pc \in {"object", "perms", "roles", "done"} => exec.revoke = {} /\ exec.grant = {}
  /\ exec.pc = "send" =>
       exec.grant \subseteq (IF exec.next = "roles" THEN Resources \X (Perms \cup {All}) ELSE Groups)

\* A keyspace that is to be is the one that was there or the one asked for.
KeyspaceFrom ==
  ask.kind = "keyspace" /\ ask.state = "present" => cluster \in {start, AskedKeyspace}

\* What ObjectAsAsked says of the object, without the task.
ObjectDone ==
  CASE ask.kind = "table" /\ ~ask.isType -> cluster.exists <=> ask.state = "present"
    [] ask.kind = "keyspace" ->
         IF ask.state = "absent" THEN ~cluster.exists
         ELSE \/ start.exists /\ start.network # ask.dcsGiven
              \/ start.exists /\ ask.durable /\ ~start.durable
              \/ cluster = AskedKeyspace
    [] ask.kind = "role" ->
         /\ cluster.exists <=> ask.state = "present"
         /\ cluster.exists /\ ask.login => cluster.login /\ cluster.super = ask.super
    [] OTHER -> TRUE

PastObject == exec.pc \in {"perms", "roles", "send", "done"} /\ ~exec.check

\* Nothing is left for the first statement, where it is compared with what is read:
\* what the object is then, by its kind.
ObjectQuiet == ~Plan.run /\ ~Plan.fails
KeyspaceSettled == IF ask.state = "absent" THEN ~cluster.exists
                   ELSE cluster.exists /\ ~KeyspaceUnread /\ ~KeyspaceIsChanged
TableSettled == TableExists <=> ask.state = "present"
RoleSettled == IF ask.state = "absent" THEN ~cluster.exists
               ELSE cluster.exists /\ (ask.login => ~IsRoleChanged)
Settled == CASE ask.kind = "keyspace" -> KeyspaceSettled
             [] ask.kind = "table" -> TableSettled
             [] ask.kind = "role" -> RoleSettled
Comparable ==
  /\ ask.kind = "keyspace" => ask.state = "absent" \/ ask.durable
  /\ ask.kind = "role" => ~ask.updatePassword
  /\ ask.kind = "table" => ~ask.isType

ObjectInv ==
  /\ ShapeOK /\ TaskShape /\ KeyspaceFrom
  /\ PastObject => ObjectDone
  /\ PastObject /\ Comparable => Settled

\* What the first statement of a keyspace's task makes, and when there is none.
LEMMA KeyspaceStatement ==
  ASSUME ShapeOK, KeyspaceFrom, ask.kind = "keyspace"
  PROVE  /\ Plan.run => Plan.to = IF ask.state = "absent" THEN [cluster EXCEPT !.exists = FALSE]
                                  ELSE AskedKeyspace
         /\ ObjectQuiet <=> KeyspaceSettled
<1>1. Plan = KeyspacePlan
  BY DEF Plan
<1>2. ask.state \in {"absent", "present"} /\ cluster.exists \in BOOLEAN
  BY AsksAssumption DEF ShapeOK, AKeyspace
<1> QED
  BY <1>1, <1>2 DEF KeyspacePlan, Run, Refuse, Nothing, ObjectQuiet, KeyspaceSettled

\* The same of a table's or a type's task.
LEMMA TableStatement ==
  ASSUME ShapeOK, ask.kind = "table"
  PROVE  /\ Plan.run => Plan.to = [cluster EXCEPT !.exists = (ask.state = "present")]
         /\ ObjectQuiet <=> TableSettled
<1>1. Plan = TablePlan
  BY DEF Plan
<1>2. ask.state \in {"absent", "present"} /\ cluster.exists \in BOOLEAN /\ ask.isType \in BOOLEAN
  BY AsksAssumption DEF ShapeOK
<1> QED
  BY <1>1, <1>2 DEF TablePlan, TableExists, TableSettled, Run, Nothing, ObjectQuiet

\* The same of a role's task.
LEMMA RoleStatement ==
  ASSUME ShapeOK, ask.kind = "role"
  PROVE  /\ ~Plan.fails
         /\ Plan.run /\ ask.state = "absent" => Plan.to = NoRole
         /\ Plan.run /\ ask.state = "present" =>
              \/ ask.login /\ Plan.to = [cluster EXCEPT !.exists = TRUE, !.super = ask.super,
                                                        !.login = TRUE]
              \/ ~ask.login /\ Plan.to = [cluster EXCEPT !.exists = TRUE,
                                                         !.super = exec.check /\ ask.super]
         /\ ObjectQuiet <=> RoleSettled
<1>1. Plan = IF ask.login THEN LoginPlan ELSE RoleOnlyPlan
  BY DEF Plan
<1>2. ask.state \in {"absent", "present"} /\ cluster.exists \in BOOLEAN /\ ask.login \in BOOLEAN
  BY AsksAssumption DEF ShapeOK, RoleShapes
<1> QED
  BY <1>1, <1>2 DEF LoginPlan, RoleOnlyPlan, Run, Nothing, ObjectQuiet, RoleSettled

\* Nothing is left to send where the object is as its kind has it settled.
LEMMA SettledIsQuiet ==
  ASSUME ShapeOK, KeyspaceFrom
  PROVE  ObjectQuiet <=> Settled
<1>1. ask.kind \in {"keyspace", "table", "role"}
  BY AsksAssumption DEF ShapeOK
<1>2. CASE ask.kind = "keyspace"
  BY <1>2, KeyspaceStatement DEF Settled
<1>3. CASE ask.kind = "table"
  BY <1>3, TableStatement DEF Settled
<1>4. CASE ask.kind = "role"
  BY <1>4, RoleStatement DEF Settled
<1> QED
  BY <1>1, <1>2, <1>3, <1>4

\* An object that is settled, and that is what it was or what was asked, is as asked;
\* so is what the first statement makes of it.
LEMMA KeyspaceStep ==
  ASSUME ShapeOK, KeyspaceFrom, ask.kind = "keyspace", UNCHANGED <<ask, start>>
  PROVE  /\ KeyspaceSettled => ObjectDone
         /\ Plan.run /\ cluster' = Plan.to =>
              /\ ShapeOK' /\ KeyspaceFrom' /\ ObjectDone'
              /\ Comparable => KeyspaceSettled'
<1>1. /\ ask.state \in {"absent", "present"} /\ ask.durable \in BOOLEAN /\ ask.dcsGiven \in BOOLEAN
      /\ AKeyspace(cluster) /\ AKeyspace(start)
  BY AsksAssumption DEF ShapeOK
<1>2. ASSUME KeyspaceSettled
      PROVE  ObjectDone
  <2>1. CASE ask.state = "absent"
    BY <1>2, <2>1 DEF KeyspaceSettled, ObjectDone
  <2>2. CASE ask.state = "present"
    <3>1. cluster.exists /\ ~KeyspaceUnread /\ ~KeyspaceIsChanged
      BY <1>2, <2>2 DEF KeyspaceSettled
    <3>2. SUFFICES ASSUME cluster = start, start.network = ask.dcsGiven, start.durable
                   PROVE  cluster = AskedKeyspace
      <4>1. ask.durable
        BY <1>1, <3>1 DEF KeyspaceIsChanged
      <4> QED
        BY <1>1, <2>2, <3>1, <4>1 DEF KeyspaceFrom, ObjectDone, AKeyspace
    <3>3. ask.durable /\ cluster.rf = (IF ask.dcsGiven THEN ask.dcs ELSE ask.rf)
      BY <1>1, <3>1, <3>2 DEF KeyspaceIsChanged, KeyspaceUnread, AKeyspace
    <3> QED
      BY <1>1, <3>1, <3>2, <3>3 DEF AskedKeyspace, AKeyspace
  <2> QED
    BY <1>1, <2>1, <2>2
<1>3. ASSUME Plan.run, cluster' = Plan.to
      PROVE  /\ ShapeOK' /\ KeyspaceFrom' /\ ObjectDone'
             /\ Comparable => KeyspaceSettled'
  <2>1. cluster' = IF ask.state = "absent" THEN [cluster EXCEPT !.exists = FALSE] ELSE AskedKeyspace
    BY <1>3, KeyspaceStatement
  <2>2. CASE ask.state = "absent"
    <3>1. cluster' = [cluster EXCEPT !.exists = FALSE]
      BY <2>1, <2>2
    <3>2. cluster' \in [kind : {"keyspace"}, exists : {FALSE}, durable : BOOLEAN,
                        network : BOOLEAN, rf : {cluster.rf}]
      BY <1>1, <3>1 DEF AKeyspace
    <3>3. AKeyspace(cluster') /\ ~cluster'.exists
      BY <3>2 DEF AKeyspace
    <3> QED
      BY <1>1, <2>2, <3>3 DEF ShapeOK, KeyspaceFrom, ObjectDone, KeyspaceSettled
  <2>3. CASE ask.state = "present"
    <3>1. AKeyspace(cluster') /\ cluster' = AskedKeyspace /\ AskedKeyspace' = AskedKeyspace
      BY <1>1, <2>1, <2>3 DEF AKeyspace, AskedKeyspace
    <3>2. ShapeOK' /\ KeyspaceFrom' /\ ObjectDone'
      BY <2>3, <3>1 DEF ShapeOK, KeyspaceFrom, ObjectDone
    <3>3. Comparable => KeyspaceSettled'
      BY <1>1, <2>3, <3>1 DEF Comparable, KeyspaceSettled, KeyspaceUnread, KeyspaceIsChanged,
         AskedKeyspace
    <3> QED
      BY <3>2, <3>3
  <2> QED
    BY <1>1, <2>2, <2>3
<1> QED
  BY <1>2, <1>3

\* The same of a table or a type.
LEMMA TableStep ==
  ASSUME ShapeOK, ask.kind = "table", UNCHANGED <<ask, start>>
  PROVE  /\ TableSettled => ObjectDone
         /\ Plan.run /\ cluster' = Plan.to =>
              /\ ShapeOK' /\ KeyspaceFrom' /\ ObjectDone'
              /\ Comparable => TableSettled'
<1>1. /\ ask.state \in {"absent", "present"} /\ ask.isType \in BOOLEAN
      /\ cluster \in [kind : {"table"}, exists : BOOLEAN]
  BY AsksAssumption DEF ShapeOK
<1>2. TableSettled => ObjectDone
  BY <1>1 DEF TableSettled, TableExists, ObjectDone
<1>3. ASSUME Plan.run, cluster' = Plan.to
      PROVE  /\ ShapeOK' /\ KeyspaceFrom' /\ ObjectDone'
             /\ Comparable => TableSettled'
  <2>1. cluster' = [cluster EXCEPT !.exists = (ask.state = "present")]
    BY <1>3, TableStatement
  <2>2. cluster' \in [kind : {"table"}, exists : BOOLEAN]
        /\ cluster'.exists = (ask.state = "present")
    BY <1>1, <2>1
  <2> QED
    BY <1>1, <2>2 DEF ShapeOK, KeyspaceFrom, ObjectDone, Comparable, TableSettled, TableExists
<1> QED
  BY <1>2, <1>3

\* The same of a role, which keeps its permissions and groups unless it is dropped.
LEMMA RoleStep ==
  ASSUME ShapeOK, ask.kind = "role", exec.check \in BOOLEAN, UNCHANGED <<ask, start>>
  PROVE  /\ RoleSettled => ObjectDone
         /\ Plan.run /\ cluster' = Plan.to =>
              /\ ShapeOK' /\ KeyspaceFrom' /\ ObjectDone'
              /\ Comparable => RoleSettled'
              /\ ask.state = "present" => /\ cluster'.held = cluster.held
                                          /\ cluster'.member = cluster.member
<1>1. /\ ask.state \in {"absent", "present"}
      /\ ask.login \in BOOLEAN /\ ask.super \in BOOLEAN /\ ask.updatePassword \in BOOLEAN
      /\ cluster \in RoleShapes
  BY AsksAssumption DEF ShapeOK
<1>2. RoleSettled => ObjectDone
  BY <1>1 DEF RoleSettled, IsRoleChanged, ObjectDone, RoleShapes
<1>3. ASSUME Plan.run, cluster' = Plan.to
      PROVE  /\ ShapeOK' /\ KeyspaceFrom' /\ ObjectDone'
             /\ Comparable => RoleSettled'
             /\ ask.state = "present" => /\ cluster'.held = cluster.held
                                         /\ cluster'.member = cluster.member
  <2>1. CASE ask.state = "absent"
    <3>1. cluster' = NoRole
      BY <1>3, <2>1, RoleStatement
    <3>2. cluster' \in RoleShapes /\ ~cluster'.exists
      BY <1>1, <3>1 DEF NoRole, RoleShapes
    <3> QED
      BY <1>1, <2>1, <3>2 DEF ShapeOK, KeyspaceFrom, ObjectDone, RoleSettled
  <2>2. CASE ask.state = "present" /\ ask.login
    <3>1. cluster' = [cluster EXCEPT !.exists = TRUE, !.super = ask.super, !.login = TRUE]
      BY <1>3, <2>2, RoleStatement
    <3>2. /\ cluster' \in RoleShapes /\ cluster'.exists /\ cluster'.super = ask.super
          /\ cluster'.login /\ cluster'.held = cluster.held /\ cluster'.member = cluster.member
      BY <1>1, <3>1 DEF RoleShapes
    <3> QED
      BY <1>1, <2>2, <3>2 DEF ShapeOK, KeyspaceFrom, ObjectDone, RoleSettled, IsRoleChanged,
         Comparable
  <2>3. CASE ask.state = "present" /\ ~ask.login
    <3>1. cluster' = [cluster EXCEPT !.exists = TRUE, !.super = exec.check /\ ask.super]
      BY <1>3, <2>3, RoleStatement
    <3>2. /\ cluster' \in RoleShapes /\ cluster'.exists
          /\ cluster'.held = cluster.held /\ cluster'.member = cluster.member
      BY <1>1, <3>1 DEF RoleShapes
    <3> QED
      BY <1>1, <2>3, <3>2 DEF ShapeOK, KeyspaceFrom, ObjectDone, RoleSettled
  <2> QED
    BY <1>1, <2>1, <2>2, <2>3
<1> QED
  BY <1>2, <1>3

-----------------------------------------------------------------------------
(* The steps of the tasks: what each class of them does to the object and  *)
(* to the task.                                                            *)

\* A step of the first part leaves the object, or executes the statement.
LEMMA FirstPart ==
  ASSUME ShapeOK, TaskShape, CannotConnect \/ SchemaReadFails \/ NoStatement \/ Statement
  PROVE  /\ TaskShape' /\ UNCHANGED <<start, ask, prev>>
         /\ exec.pc = "object" /\ exec'.check = exec.check
         /\ exec'.revoke = {} /\ exec'.grant = {}
         /\ \/ cluster' = cluster
            \/ Plan.run /\ cluster' = Plan.to
         /\ \/ exec'.pc = "failed"
            \/ /\ exec'.pc = AfterObject /\ ~Plan.fails
               /\ \/ ~Plan.run /\ cluster' = cluster /\ exec'.sent = exec.sent /\ exec'.changed = FALSE
                  \/ exec'.check
                  \/ Plan.run /\ cluster' = Plan.to
<1>1. ask.kind \in {"keyspace", "table", "role"} /\ ask.state \in {"present", "absent"}
  BY AsksAssumption DEF ShapeOK
<1>2. /\ AfterObject \in {"perms", "done"}
      /\ AfterObject = "perms" => ask.kind = "role" /\ ask.state = "present"
  BY DEF AfterObject
<1>3. Plan.run \in BOOLEAN
  <2>1. CASE ask.kind = "keyspace"
    BY <1>1, <2>1 DEF Plan, KeyspacePlan, Run, Refuse, Nothing
  <2>2. CASE ask.kind = "table"
    BY <1>1, <2>2 DEF Plan, TablePlan, Run, Nothing
  <2>3. CASE ask.kind = "role"
    BY <1>1, <2>3 DEF Plan, LoginPlan, RoleOnlyPlan, Run, Nothing
  <2> QED
    BY <1>1, <2>1, <2>2, <2>3
<1>4. CASE CannotConnect \/ SchemaReadFails
  <2>1. /\ exec.pc = "object" /\ UNCHANGED <<cluster, start, ask, prev>>
        /\ exec' = [exec EXCEPT !.pc = "failed"]
    BY <1>4 DEF CannotConnect, SchemaReadFails, Ends
  <2>2. /\ TaskShape' /\ exec'.check = exec.check /\ exec'.revoke = {} /\ exec'.grant = {}
        /\ exec'.pc = "failed"
    BY <2>1 DEF TaskShape
  <2> QED
    BY <2>1, <2>2
<1>5. CASE NoStatement
  <2>1. /\ exec' = [exec EXCEPT !.pc = AfterObject, !.changed = Plan.run]
        /\ exec.pc = "object" /\ UNCHANGED <<cluster, start, ask, prev>>
        /\ ~Plan.fails /\ (~Plan.run \/ exec.check)
    BY <1>5 DEF NoStatement
  <2>2. /\ exec'.pc = AfterObject /\ exec'.changed = Plan.run /\ exec'.check = exec.check
        /\ exec'.sent = exec.sent /\ exec'.revoke = {} /\ exec'.grant = {}
        /\ exec'.next = exec.next
        /\ exec' = [pc |-> AfterObject, check |-> exec.check, changed |-> Plan.run,
                    sent |-> exec.sent, revoke |-> {}, grant |-> {}, next |-> exec.next]
    BY <2>1 DEF TaskShape
  <2>3. TaskShape'
    BY <1>2, <1>3, <2>1, <2>2 DEF TaskShape
  <2>4. ~Plan.run => exec'.changed = FALSE
    BY <1>3, <2>2, Zenon
  <2>5. Plan.run => exec'.check
    BY <2>1, <2>2
  <2> QED
    BY <2>1, <2>2, <2>3, <2>4, <2>5
<1>6. CASE Statement
  <2>1. /\ exec.pc = "object" /\ UNCHANGED <<start, ask, prev>>
        /\ ~Plan.fails /\ Plan.run
        /\ \/ cluster' = Plan.to
              /\ exec' = [exec EXCEPT !.pc = AfterObject, !.changed = TRUE, !.sent = TRUE]
           \/ /\ cluster' \in {cluster, Plan.to}
              /\ exec' = [exec EXCEPT !.pc = "failed", !.sent = TRUE]
    BY <1>6 DEF Statement
  <2>2. CASE /\ cluster' = Plan.to
             /\ exec' = [exec EXCEPT !.pc = AfterObject, !.changed = TRUE, !.sent = TRUE]
    BY <1>2, <2>1, <2>2 DEF TaskShape
  <2>3. CASE /\ cluster' \in {cluster, Plan.to}
             /\ exec' = [exec EXCEPT !.pc = "failed", !.sent = TRUE]
    <3>1. TaskShape' /\ exec'.check = exec.check /\ exec'.revoke = {} /\ exec'.grant = {}
          /\ exec'.pc = "failed"
      BY <2>1, <2>3 DEF TaskShape
    <3>2. \/ cluster' = cluster
          \/ Plan.run /\ cluster' = Plan.to
      BY <2>1, <2>3
    <3> QED
      BY <2>1, <3>1, <3>2
  <2> QED
    BY <2>1, <2>2, <2>3
<1> QED
  BY <1>4, <1>5, <1>6

\* The second part leaves alone what the first statement is about.
OnlyHolds == \E held \in SUBSET (Resources \X Perms), member \in SUBSET Groups :
               cluster' = [cluster EXCEPT !.held = held, !.member = member]

\* A set of statements is worked out: nothing of it under check mode.
LEMMA TodoStep ==
  ASSUME TaskShape, exec.pc \in {"perms", "roles"},
         NEW revoke, NEW grant, NEW next \in {"roles", "done"}, Todo(revoke, grant, next),
         ask' = ask,
         grant \subseteq (IF next = "roles" THEN Resources \X (Perms \cup {All}) ELSE Groups)
  PROVE  /\ TaskShape' /\ exec'.check = exec.check /\ exec'.sent = exec.sent
         /\ IF exec.check
            THEN exec'.pc = next /\ exec'.revoke = {} /\ exec'.grant = {}
            ELSE /\ exec'.pc = "send" /\ exec'.revoke = revoke /\ exec'.grant = grant
                 /\ exec'.next = next
         /\ exec'.changed = (exec.changed \/ revoke \cup grant # {})
<1> DEFINE told == exec.changed \/ revoke \cup grant # {}
<1>1. told \in BOOLEAN /\ exec.check \in BOOLEAN
  BY DEF TaskShape
<1>2. CASE exec.check
  <2>1. exec' = [pc |-> next, check |-> exec.check, changed |-> told, sent |-> exec.sent,
                 revoke |-> {}, grant |-> {}, next |-> exec.next]
    BY <1>2 DEF Todo, TaskShape
  <2>2. /\ exec'.pc = next /\ exec'.check = exec.check /\ exec'.changed = told
        /\ exec'.sent = exec.sent /\ exec'.revoke = {} /\ exec'.grant = {}
        /\ exec'.next = exec.next
    BY <2>1
  <2> HIDE DEF told
  <2>3. TaskShape'
    BY <1>1, <2>1, <2>2 DEF TaskShape
  <2> QED
    BY <1>2, <2>2, <2>3 DEF told
<1>3. CASE ~exec.check
  <2>1. exec' = [pc |-> "send", check |-> exec.check, changed |-> told, sent |-> exec.sent,
                 revoke |-> revoke, grant |-> grant, next |-> next]
    BY <1>3 DEF Todo, TaskShape
  <2>2. /\ exec'.pc = "send" /\ exec'.check = exec.check /\ exec'.changed = told
        /\ exec'.sent = exec.sent /\ exec'.revoke = revoke /\ exec'.grant = grant
        /\ exec'.next = next
    BY <2>1
  <2> HIDE DEF told
  <2>3. TaskShape'
    BY <1>1, <1>3, <2>1, <2>2 DEF TaskShape
  <2> QED
    BY <1>3, <2>2, <2>3 DEF told
<1> QED
  BY <1>1, <1>2, <1>3

\* A statement on the role: what is left, and what it makes of the role.
LEMMA SendStep ==
  ASSUME ShapeOK, TaskShape, Revoke \/ Grant
  PROVE  /\ TaskShape' /\ UNCHANGED <<start, ask, prev>> /\ OnlyHolds
         /\ exec.pc = "send" /\ exec'.check = exec.check
         /\ \/ cluster' = cluster /\ exec'.pc = "failed"
            \/ \E st \in exec.revoke :
                 /\ cluster' = Revoked(st)
                 /\ \/ exec'.pc = "failed"
                    \/ /\ exec'.pc = "send" /\ exec'.next = exec.next
                       /\ exec'.revoke = exec.revoke \ {st} /\ exec'.grant = exec.grant
            \/ \E st \in exec.grant :
                 /\ cluster' = Granted(st) /\ exec.revoke = {}
                 /\ \/ exec'.pc = "failed"
                    \/ /\ exec'.pc = "send" /\ exec'.next = exec.next
                       /\ exec'.revoke = {} /\ exec'.grant = exec.grant \ {st}
<1>1. ask.kind = "role" /\ exec.pc = "send" /\ cluster \in RoleShapes
  BY DEF ShapeOK, TaskShape, Revoke, Grant
<1>2. cluster = [cluster EXCEPT !.held = cluster.held, !.member = cluster.member]
  BY <1>1 DEF RoleShapes
<1>3. ASSUME NEW st \in exec.revoke, cluster' \in {cluster, Revoked(st)}
      PROVE  OnlyHolds
  <2>1. /\ cluster.held \ Named(st) \in SUBSET (Resources \X Perms)
        /\ cluster.member \ {st} \in SUBSET Groups
        /\ cluster.held \in SUBSET (Resources \X Perms) /\ cluster.member \in SUBSET Groups
    BY <1>1 DEF RoleShapes
  <2>2. Revoked(st) \in {[cluster EXCEPT !.held = cluster.held \ Named(st), !.member = cluster.member],
                         [cluster EXCEPT !.held = cluster.held, !.member = cluster.member \ {st}]}
    BY <1>1 DEF Revoked, RoleShapes
  <2> QED
    BY <1>2, <1>3, <2>1, <2>2 DEF OnlyHolds
<1>4. ASSUME NEW st \in exec.grant, cluster' \in {cluster, Granted(st)}
      PROVE  OnlyHolds
  <2>1. /\ cluster.held \in SUBSET (Resources \X Perms) /\ cluster.member \in SUBSET Groups
        /\ st \in (IF exec.next = "roles" THEN Resources \X (Perms \cup {All}) ELSE Groups)
        /\ exec.next \in {"roles", "done"}
    BY <1>1 DEF RoleShapes, TaskShape
  <2>2. CASE exec.next = "roles"
    <3>1. Named(st) \subseteq Resources \X Perms
      BY <2>1, <2>2 DEF Named
    <3>2. Granted(st) = [cluster EXCEPT !.held = cluster.held \cup Named(st),
                                        !.member = cluster.member]
      BY <1>1, <2>2 DEF Granted, RoleShapes
    <3>3. cluster.held \cup Named(st) \in SUBSET (Resources \X Perms)
      BY <2>1, <3>1
    <3> QED
      BY <1>2, <1>4, <2>1, <3>2, <3>3 DEF OnlyHolds
  <2>3. CASE exec.next = "done"
    <3>1. Granted(st) = [cluster EXCEPT !.held = cluster.held,
                                        !.member = cluster.member \cup {st}]
      BY <1>1, <2>3 DEF Granted, RoleShapes
    <3>2. cluster.member \cup {st} \in SUBSET Groups
      BY <2>1, <2>3
    <3> QED
      BY <1>2, <1>4, <2>1, <3>1, <3>2 DEF OnlyHolds
  <2> QED
    BY <2>1, <2>2, <2>3
<1>5. CASE Revoke
  <2>1. PICK st \in exec.revoke :
          \/ /\ cluster' = Revoked(st)
             /\ exec' = [exec EXCEPT !.revoke = @ \ {st}, !.sent = TRUE]
          \/ /\ cluster' \in {cluster, Revoked(st)}
             /\ exec' = [exec EXCEPT !.pc = "failed", !.sent = TRUE]
    BY <1>5 DEF Revoke
  <2>2. UNCHANGED <<start, ask, prev>>
    BY <1>5 DEF Revoke
  <2>3. OnlyHolds
    BY <1>3, <2>1
  <2>4. CASE cluster' = Revoked(st) /\ exec' = [exec EXCEPT !.revoke = @ \ {st}, !.sent = TRUE]
    <3>1. /\ TaskShape' /\ exec'.check = exec.check /\ exec'.pc = "send" /\ exec'.next = exec.next
          /\ exec'.revoke = exec.revoke \ {st} /\ exec'.grant = exec.grant
      BY <1>1, <2>2, <2>4 DEF TaskShape
    <3> QED
      BY <1>1, <2>2, <2>3, <2>4, <3>1
  <2>5. CASE /\ cluster' \in {cluster, Revoked(st)}
             /\ exec' = [exec EXCEPT !.pc = "failed", !.sent = TRUE]
    <3>1. TaskShape' /\ exec'.check = exec.check /\ exec'.pc = "failed"
      BY <1>1, <2>2, <2>5 DEF TaskShape
    <3> QED
      BY <1>1, <2>2, <2>3, <2>5, <3>1
  <2> QED
    BY <2>1, <2>4, <2>5
<1>6. CASE Grant
  <2>1. PICK st \in exec.grant :
          \/ /\ cluster' = Granted(st)
             /\ exec' = [exec EXCEPT !.grant = @ \ {st}, !.sent = TRUE]
          \/ /\ cluster' \in {cluster, Granted(st)}
             /\ exec' = [exec EXCEPT !.pc = "failed", !.sent = TRUE]
    BY <1>6 DEF Grant
  <2>2. UNCHANGED <<start, ask, prev>> /\ exec.revoke = {}
    BY <1>6 DEF Grant
  <2>3. OnlyHolds
    BY <1>4, <2>1
  <2>4. CASE cluster' = Granted(st) /\ exec' = [exec EXCEPT !.grant = @ \ {st}, !.sent = TRUE]
    <3>1. /\ TaskShape' /\ exec'.check = exec.check /\ exec'.pc = "send" /\ exec'.next = exec.next
          /\ exec'.grant = exec.grant \ {st} /\ exec'.revoke = exec.revoke
      BY <1>1, <2>2, <2>4 DEF TaskShape
    <3> QED
      BY <1>1, <2>2, <2>3, <2>4, <3>1
  <2>5. CASE /\ cluster' \in {cluster, Granted(st)}
             /\ exec' = [exec EXCEPT !.pc = "failed", !.sent = TRUE]
    <3>1. TaskShape' /\ exec'.check = exec.check /\ exec'.pc = "failed"
      BY <1>1, <2>2, <2>5 DEF TaskShape
    <3> QED
      BY <1>1, <2>2, <2>3, <2>5, <3>1
  <2> QED
    BY <2>1, <2>4, <2>5
<1> QED
  BY <1>5, <1>6

-----------------------------------------------------------------------------
(* The permissions of a role.                                              *)

HoldsOn(h, on) == {p \in Perms : <<on, p>> \in h}

\* What PermissionsAsAsked says of what a role holds, without the task.
HeldAsAsked(h) ==
  /\ \A ks \in Keyspaces : HoldsOn(h, ks) = AskedPerms(ks)
  /\ AskedPerms(AllKeyspaces) \subseteq HoldsOn(h, AllKeyspaces)
  /\ ask.permsGiven /\ AskedOn # {} /\ AllKeyspaces \notin AskedOn
       => HoldsOn(h, AllKeyspaces) = {}

\* What is held once the statements of two sets are executed, the revokes first.
After(h, revoke, grant) == (h \ UNION {Named(st) : st \in revoke}) \cup UNION {Named(st) : st \in grant}

\* Permissions that are asked, by their names.
IsAsked(grant) == \A st \in grant : /\ ask.permsGiven /\ st[1] \in AskedOn
                                    /\ st[2] \in ask.perms[st[1]]

\* A role and the permissions asked for it are of their types.
LEMMA RoleTypes ==
  ASSUME ShapeOK, ask.kind = "role"
  PROVE  /\ cluster.held \in SUBSET (Resources \X Perms) /\ cluster.member \in SUBSET Groups
         /\ ask.permsGiven \in BOOLEAN /\ ask.rolesGiven \in BOOLEAN
         /\ ask.rolesGiven => ask.roles \subseteq Groups
         /\ ask.permsGiven => /\ AskedOn \subseteq Resources
                              /\ \A on \in AskedOn : ask.perms[on] \subseteq Perms \cup {All}
         /\ \A on : AskedPerms(on) \subseteq Perms
<1>1. cluster.held \in SUBSET (Resources \X Perms) /\ cluster.member \in SUBSET Groups
  BY DEF ShapeOK, RoleShapes
<1>2. /\ ask.permsGiven \in BOOLEAN /\ ask.rolesGiven \in BOOLEAN
      /\ ask.rolesGiven => ask.roles \subseteq Groups
      /\ ask.permsGiven => /\ AskedOn \subseteq Resources
                           /\ \A on \in AskedOn : ask.perms[on] \subseteq Perms \cup {All}
  BY AsksAssumption DEF ShapeOK, AskedOn
<1>3. ASSUME NEW on
      PROVE  AskedPerms(on) \subseteq Perms
  BY <1>2 DEF AskedPerms
<1> QED
  BY <1>1, <1>2, <1>3

\* The rows of the role itself are what it holds.
LEMMA OwnRowsAre ==
  ASSUME ShapeOK, ask.kind = "role"
  PROVE  /\ OwnRows = {[role |-> "itself", on |-> h[1], perm |-> h[2]] : h \in cluster.held}
         /\ cluster.member = {} => RowsOf = OwnRows
<1> DEFINE own == {[role |-> "itself", on |-> h[1], perm |-> h[2]] : h \in cluster.held}
           theirs == UNION {{[role |-> g, on |-> h[1], perm |-> h[2]] : h \in GroupHolds[g]}
                            : g \in cluster.member}
<1>1. RowsOf = own \cup theirs
  BY DEF RowsOf
<1>2. \A row \in own : row.role = "itself"
  OBVIOUS
<1>3. \A row \in theirs : row.role # "itself"
  BY RoleTypes, GroupsAssumption
<1>4. cluster.member = {} => theirs = {}
  OBVIOUS
<1> HIDE DEF own, theirs
<1>5. OwnRows = own
  BY <1>1, <1>2, <1>3 DEF OwnRows
<1> QED
  BY <1>1, <1>4, <1>5 DEF own

\* A row of the role itself for each permission it holds.
LEMMA OwnRowOf ==
  ASSUME ShapeOK, ask.kind = "role", NEW on, NEW p
  PROVE  (\E r \in OwnRows : r.on = on /\ r.perm = p) <=> <<on, p>> \in cluster.held
<1>1. ASSUME NEW r \in OwnRows, r.on = on, r.perm = p
      PROVE  <<on, p>> \in cluster.held
  <2>1. PICK h \in cluster.held : r = [role |-> "itself", on |-> h[1], perm |-> h[2]]
    BY <1>1, OwnRowsAre
  <2>2. h = <<h[1], h[2]>>
    BY <2>1, RoleTypes
  <2> QED
    BY <1>1, <2>1, <2>2
<1>2. ASSUME <<on, p>> \in cluster.held
      PROVE  \E r \in OwnRows : r.on = on /\ r.perm = p
  <2> DEFINE r == [role |-> "itself", on |-> on, perm |-> p]
  <2>1. r = [role |-> "itself", on |-> <<on, p>>[1], perm |-> <<on, p>>[2]]
    OBVIOUS
  <2>2. r \in OwnRows
    BY <1>2, <2>1, OwnRowsAre, Zenon
  <2> QED
    BY <2>2
<1> QED
  BY <1>1, <1>2

\* The permissions that are revoked, on a keyspace and on all of them.
LEMMA RevokesAre ==
  ASSUME ShapeOK, ask.kind = "role"
  PROVE  /\ \A on \in Keyspaces, p \in Perms :
              <<on, p>> \in PermissionRevokes <=>
                /\ <<on, p>> \in cluster.held
                /\ ask.permsGiven /\ on \in AskedOn => p \notin ask.perms[on] /\ All \notin ask.perms[on]
         /\ <<AllKeyspaces, All>> \in PermissionRevokes <=>
              /\ HoldsOn(cluster.held, AllKeyspaces) # {}
              /\ ask.permsGiven /\ AskedOn # {} /\ AllKeyspaces \notin AskedOn
         /\ \A st \in PermissionRevokes :
              st = <<AllKeyspaces, All>> \/ st \in Keyspaces \X Perms
<1> DEFINE first == {<<AllKeyspaces, All>> : row \in {r \in OwnRows : /\ r.on = AllKeyspaces
                                                    /\ ask.permsGiven /\ AskedOn # {}
                                                    /\ AllKeyspaces \notin AskedOn}}
           second == {<<row.on, row.perm>> : row \in {r \in OwnRows :
                        /\ r.on # AllKeyspaces
                        /\ ask.permsGiven /\ r.on \in AskedOn =>
                             r.perm \notin ask.perms[r.on] /\ All \notin ask.perms[r.on]}}
<1>1. PermissionRevokes = first \cup second
  BY DEF PermissionRevokes
<1>2. \A on, p : (\E r \in OwnRows : r.on = on /\ r.perm = p) <=> <<on, p>> \in cluster.held
  BY OwnRowOf
<1>3. \A r \in OwnRows : r.on \in Resources /\ r.perm \in Perms
  BY OwnRowsAre, RoleTypes
<1>4. \A on \in Resources : on # AllKeyspaces <=> on \in Keyspaces
  BY PermsAssumption DEF Resources
<1>5. \A st \in first : st = <<AllKeyspaces, All>>
  OBVIOUS
<1>6. <<AllKeyspaces, All>> \in first <=>
        /\ HoldsOn(cluster.held, AllKeyspaces) # {}
        /\ ask.permsGiven /\ AskedOn # {} /\ AllKeyspaces \notin AskedOn
  <2>1. (\E r \in OwnRows : r.on = AllKeyspaces) <=> HoldsOn(cluster.held, AllKeyspaces) # {}
    BY <1>2, <1>3 DEF HoldsOn
  <2> QED
    BY <2>1
<1>7. \A st \in second : st \in Keyspaces \X Perms
  BY <1>3, <1>4
<1>8. ASSUME NEW on \in Keyspaces, NEW p \in Perms
      PROVE  <<on, p>> \in second <=>
                /\ <<on, p>> \in cluster.held
                /\ ask.permsGiven /\ on \in AskedOn => p \notin ask.perms[on] /\ All \notin ask.perms[on]
  <2>1. on # AllKeyspaces
    BY PermsAssumption
  <2> QED
    BY <1>2, <2>1
<1>9. \A on \in Keyspaces : on # AllKeyspaces
  BY PermsAssumption
<1> HIDE DEF first, second
<1>10. ASSUME NEW on \in Keyspaces, NEW p \in Perms
       PROVE  <<on, p>> \in PermissionRevokes <=> <<on, p>> \in second
  BY <1>1, <1>5, <1>9
<1>11. <<AllKeyspaces, All>> \in PermissionRevokes <=> <<AllKeyspaces, All>> \in first
  BY <1>1, <1>7, <1>9
<1>12. \A st \in PermissionRevokes : st = <<AllKeyspaces, All>> \/ st \in Keyspaces \X Perms
  BY <1>1, <1>5, <1>7
<1> QED
  BY <1>6, <1>8, <1>10, <1>11, <1>12

\* A role of no group: "ALL PERMISSIONS" is held when each is.
LEMMA HasAll ==
  ASSUME ShapeOK, ask.kind = "role", cluster.member = {}, NEW on
  PROVE  DoesRoleHavePermission(All, on) <=> HoldsOn(cluster.held, on) = Perms
<1> DEFINE R == {row \in RowsOf : row.on = on}
           f == [row \in R |-> row.perm]
<1>1. RowsOf = OwnRows /\ \A row \in OwnRows : /\ row.perm \in Perms
                                               /\ row = [role |-> "itself", on |-> row.on,
                                                         perm |-> row.perm]
  BY OwnRowsAre, RoleTypes
<1>2. f \in Injection(R, Perms)
  <2>1. f \in [R -> Perms]
    BY <1>1
  <2>2. ASSUME NEW a \in R, NEW b \in R, a.perm = b.perm
        PROVE  a = b
    <3>1. a.on = on /\ b.on = on /\ a \in OwnRows /\ b \in OwnRows
      BY <1>1
    <3>2. /\ a = [role |-> "itself", on |-> on, perm |-> a.perm]
          /\ b = [role |-> "itself", on |-> on, perm |-> b.perm]
      BY <1>1, <3>1
    <3> QED
      BY <2>2, <3>2, Zenon
  <2> QED
    BY <2>1, <2>2 DEF Injection, IsInjective
<1>3. f \in Surjection(R, Perms) <=> \A p \in Perms : \E row \in R : row.perm = p
  BY <1>2 DEF Injection, Surjection
<1>4. ASSUME NEW p
      PROVE  (\E row \in R : row.perm = p) <=> <<on, p>> \in cluster.held
  BY <1>1, OwnRowOf
<1>5. Cardinality(R) = Cardinality(Perms) <=> f \in Surjection(R, Perms)
  <2> HIDE DEF R, f
  <2> QED
    BY <1>2, PermsAssumption, FS_Injection
<1>6. DoesRoleHavePermission(All, on) <=> Cardinality(R) = Cardinality(Perms)
  BY DEF DoesRoleHavePermission
<1> HIDE DEF R, f
<1> QED
  BY <1>3, <1>4, <1>5, <1>6 DEF HoldsOn

\* Another permission is held by its name.
LEMMA HasNamed ==
  ASSUME ShapeOK, ask.kind = "role", cluster.member = {}, NEW on, NEW p \in Perms
  PROVE  DoesRoleHavePermission(p, on) <=> <<on, p>> \in cluster.held
<1>1. p # All
  BY PermsAssumption
<1> QED
  BY <1>1, OwnRowsAre, OwnRowOf DEF DoesRoleHavePermission

\* What a statement stands for.
LEMMA NamedAre ==
  ASSUME NEW on, NEW p \in Perms
  PROVE  /\ \A q : <<on, p>> \in Named(<<on, q>>) <=> q \in {p, All}
         /\ \A st : <<on, p>> \in Named(st) => st[1] = on /\ st[2] \in {p, All}
  BY PermsAssumption DEF Named

\* A role of no group holds what is asked once the statements are executed.
LEMMA LeadsToAsked ==
  ASSUME ShapeOK, ask.kind = "role", cluster.member = {}
  PROVE  /\ HeldAsAsked(After(cluster.held, PermissionRevokes, PermissionGrants))
         /\ IsAsked(PermissionGrants)
<1> DEFINE held == cluster.held
           end == After(held, PermissionRevokes, PermissionGrants)
           lost(on, p) == \E st \in PermissionRevokes : <<on, p>> \in Named(st)
           gained(on, p) == \E st \in PermissionGrants : <<on, p>> \in Named(st)
<1>1. \A on, p : <<on, p>> \in end <=> \/ <<on, p>> \in held /\ ~lost(on, p)
                                       \/ gained(on, p)
  BY DEF After
<1>2. ASSUME NEW on \in Resources, NEW p \in Perms
      PROVE  gained(on, p) <=>
               /\ ask.permsGiven /\ on \in AskedOn
               /\ \/ p \in ask.perms[on] /\ <<on, p>> \notin held
                  \/ All \in ask.perms[on] /\ HoldsOn(held, on) # Perms
  <2>1. \A q \in Perms \cup {All} :
          <<on, q>> \in PermissionGrants <=>
             /\ ask.permsGiven /\ on \in AskedOn /\ q \in ask.perms[on]
             /\ ~DoesRoleHavePermission(q, on)
    BY DEF PermissionGrants
  <2>2. gained(on, p) <=> <<on, p>> \in PermissionGrants \/ <<on, All>> \in PermissionGrants
    <3>1. \A st \in PermissionGrants : st = <<st[1], st[2]>>
      BY DEF PermissionGrants
    <3> QED
      BY <3>1, NamedAre
  <2> QED
    BY <2>1, <2>2, HasAll, HasNamed
<1>3. ASSUME NEW on \in Keyspaces, NEW p \in Perms
      PROVE  lost(on, p) <=> /\ <<on, p>> \in held
                             /\ ask.permsGiven /\ on \in AskedOn
                                  => p \notin ask.perms[on] /\ All \notin ask.perms[on]
  <2>1. on # AllKeyspaces
    BY PermsAssumption
  <2>2. ASSUME lost(on, p)
        PROVE  <<on, p>> \in PermissionRevokes
    <3>1. PICK st \in PermissionRevokes : <<on, p>> \in Named(st)
      BY <2>2
    <3>2. st[1] = on /\ st[2] \in {p, All}
      BY <3>1, NamedAre
    <3>3. st # <<AllKeyspaces, All>>
      BY <2>1, <3>2
    <3>4. PICK k \in Keyspaces, q \in Perms : st = <<k, q>>
      BY <3>1, <3>3, RevokesAre
    <3>5. st = <<on, p>>
      BY <3>2, <3>4, PermsAssumption
    <3> QED
      BY <3>1, <3>5
  <2>3. <<on, p>> \in PermissionRevokes => lost(on, p)
    BY NamedAre
  <2>4. <<on, p>> \in PermissionRevokes <=>
          /\ <<on, p>> \in held
          /\ ask.permsGiven /\ on \in AskedOn => p \notin ask.perms[on] /\ All \notin ask.perms[on]
    BY RevokesAre
  <2> QED
    BY <2>2, <2>3, <2>4
<1>4. ASSUME NEW p \in Perms
      PROVE  lost(AllKeyspaces, p) <=>
               /\ HoldsOn(held, AllKeyspaces) # {}
               /\ ask.permsGiven /\ AskedOn # {} /\ AllKeyspaces \notin AskedOn
  <2>1. ASSUME lost(AllKeyspaces, p)
        PROVE  <<AllKeyspaces, All>> \in PermissionRevokes
    <3>1. PICK st \in PermissionRevokes : <<AllKeyspaces, p>> \in Named(st)
      BY <2>1
    <3>2. st[1] = AllKeyspaces
      BY <3>1, NamedAre
    <3>3. \A k \in Keyspaces, q \in Perms : st # <<k, q>>
      BY <3>2, PermsAssumption
    <3> QED
      BY <3>1, <3>3, RevokesAre
  <2>2. <<AllKeyspaces, All>> \in PermissionRevokes => lost(AllKeyspaces, p)
    BY NamedAre
  <2>3. <<AllKeyspaces, All>> \in PermissionRevokes <=>
               /\ HoldsOn(held, AllKeyspaces) # {}
               /\ ask.permsGiven /\ AskedOn # {} /\ AllKeyspaces \notin AskedOn
    BY RevokesAre
  <2> QED
    BY <2>1, <2>2, <2>3
<1>5. \A on : HoldsOn(held, on) \subseteq Perms /\ HoldsOn(end, on) \subseteq Perms
  BY DEF HoldsOn
<1>6. IsAsked(PermissionGrants)
  BY DEF IsAsked, PermissionGrants
<1> HIDE DEF end, lost, gained
<1>7. ASSUME NEW ks \in Keyspaces
      PROVE  HoldsOn(end, ks) = AskedPerms(ks)
  <2>1. ks \in Resources
    BY DEF Resources
  <2>2. SUFFICES ASSUME NEW p \in Perms
                 PROVE  <<ks, p>> \in end <=> p \in AskedPerms(ks)
    BY RoleTypes DEF HoldsOn
  <2>3. CASE ask.permsGiven /\ ks \in AskedOn
    BY <1>1, <1>2, <1>3, <2>1, <2>3 DEF AskedPerms, HoldsOn
  <2>4. CASE ~(ask.permsGiven /\ ks \in AskedOn)
    BY <1>1, <1>2, <1>3, <2>1, <2>4 DEF AskedPerms
  <2> QED
    BY <2>3, <2>4
<1>8. AllKeyspaces \in Resources
  BY DEF Resources
<1>9. AskedPerms(AllKeyspaces) \subseteq HoldsOn(end, AllKeyspaces)
  <2>1. SUFFICES ASSUME NEW p \in Perms, p \in AskedPerms(AllKeyspaces)
                 PROVE  <<AllKeyspaces, p>> \in end
    BY RoleTypes DEF HoldsOn
  <2>2. ask.permsGiven /\ AllKeyspaces \in AskedOn
    BY <2>1 DEF AskedPerms
  <2>3. ~lost(AllKeyspaces, p)
    BY <1>4, <2>2
  <2> QED
    BY <1>1, <1>2, <1>8, <2>1, <2>2, <2>3 DEF AskedPerms, HoldsOn
<1>10. ASSUME ask.permsGiven, AskedOn # {}, AllKeyspaces \notin AskedOn
       PROVE  HoldsOn(end, AllKeyspaces) = {}
  <2>1. SUFFICES ASSUME NEW p \in Perms, <<AllKeyspaces, p>> \in end
                 PROVE  FALSE
    BY DEF HoldsOn
  <2>2. ~gained(AllKeyspaces, p)
    BY <1>2, <1>8, <1>10
  <2>3. <<AllKeyspaces, p>> \in held /\ ~lost(AllKeyspaces, p)
    BY <1>1, <2>1, <2>2
  <2> QED
    BY <1>4, <1>10, <2>3 DEF HoldsOn
<1> QED
  BY <1>6, <1>7, <1>9, <1>10 DEF HeldAsAsked, end

\* Permissions that are asked do no harm to a role that holds what is asked.
LEMMA GrantsKeep ==
  ASSUME ShapeOK, ask.kind = "role", NEW h, HeldAsAsked(h), NEW grant, IsAsked(grant)
  PROVE  HeldAsAsked(After(h, {}, grant))
<1> DEFINE end == After(h, {}, grant)
<1>1. \A on, p : <<on, p>> \in end <=> <<on, p>> \in h \/ \E st \in grant : <<on, p>> \in Named(st)
  BY DEF After
<1> HIDE DEF end
<1>2. ASSUME NEW on, NEW p \in Perms, NEW st \in grant, <<on, p>> \in Named(st)
      PROVE  ask.permsGiven /\ on \in AskedOn /\ p \in AskedPerms(on)
  <2>1. st[1] = on /\ st[2] \in {p, All}
    BY <1>2, NamedAre
  <2>2. ask.permsGiven /\ on \in AskedOn /\ st[2] \in ask.perms[on]
    BY <2>1 DEF IsAsked
  <2> QED
    BY <2>1, <2>2 DEF AskedPerms
<1>3. ASSUME NEW ks \in Keyspaces
      PROVE  HoldsOn(end, ks) = AskedPerms(ks)
  <2>1. HoldsOn(h, ks) = AskedPerms(ks)
    BY DEF HeldAsAsked
  <2> QED
    BY <1>1, <1>2, <2>1 DEF HoldsOn
<1>4. AskedPerms(AllKeyspaces) \subseteq HoldsOn(end, AllKeyspaces)
  BY <1>1 DEF HeldAsAsked, HoldsOn
<1>5. ASSUME ask.permsGiven, AskedOn # {}, AllKeyspaces \notin AskedOn
      PROVE  HoldsOn(end, AllKeyspaces) = {}
  BY <1>1, <1>2, <1>5 DEF HeldAsAsked, HoldsOn
<1> QED
  BY <1>3, <1>4, <1>5 DEF HeldAsAsked, end

\* Nothing is left to revoke from a role that holds what is asked, nor, when it is
\* of no group, to grant to it.
LEMMA AskedIsQuiet ==
  ASSUME ShapeOK, ask.kind = "role", HeldAsAsked(cluster.held)
  PROVE  /\ PermissionRevokes = {}
         /\ cluster.member = {} => PermissionGrants = {}
<1>1. ASSUME NEW on \in Keyspaces, NEW p \in Perms
      PROVE  <<on, p>> \notin PermissionRevokes
  <2>1. SUFFICES ASSUME <<on, p>> \in cluster.held,
                        ask.permsGiven /\ on \in AskedOn =>
                          p \notin ask.perms[on] /\ All \notin ask.perms[on]
                 PROVE  FALSE
    BY RevokesAre
  <2>2. p \in AskedPerms(on)
    BY <2>1 DEF HeldAsAsked, HoldsOn
  <2> QED
    BY <2>1, <2>2 DEF AskedPerms
<1>2. <<AllKeyspaces, All>> \notin PermissionRevokes
  BY RevokesAre DEF HeldAsAsked
<1>3. PermissionRevokes = {}
  BY <1>1, <1>2, RevokesAre
<1>4. ASSUME cluster.member = {}, NEW st \in PermissionGrants
      PROVE  FALSE
  <2>1. PICK on \in Resources, q \in Perms \cup {All} :
          /\ ask.permsGiven /\ on \in AskedOn /\ q \in ask.perms[on]
          /\ ~DoesRoleHavePermission(q, on)
    BY DEF PermissionGrants
  <2>2. AskedPerms(on) \subseteq HoldsOn(cluster.held, on) /\ HoldsOn(cluster.held, on) \subseteq Perms
    BY DEF HeldAsAsked, HoldsOn, Resources
  <2>3. CASE q = All
    <3>1. AskedPerms(on) = Perms
      BY <2>1, <2>3 DEF AskedPerms
    <3>2. HoldsOn(cluster.held, on) = Perms
      BY <2>2, <3>1
    <3>3. DoesRoleHavePermission(All, on)
      BY <1>4, <3>2, HasAll
    <3> QED
      BY <2>1, <2>3, <3>3
  <2>4. CASE q \in Perms
    <3>1. q \in AskedPerms(on)
      BY <2>1, <2>4 DEF AskedPerms
    <3> QED
      BY <1>4, <2>1, <2>2, <2>4, <3>1, HasNamed DEF HoldsOn
  <2> QED
    BY <2>3, <2>4
<1> QED
  BY <1>3, <1>4

\* The statements leave what is left of them the same.
LEMMA AfterOne ==
  ASSUME NEW h, NEW revoke, NEW grant
  PROVE  /\ After(h, {}, {}) = h
         /\ \A st \in revoke : After(h \ Named(st), revoke \ {st}, grant) = After(h, revoke, grant)
         /\ \A st \in grant : After(h \cup Named(st), {}, grant \ {st}) = After(h, {}, grant)
         /\ \A st : After(h, {}, {st}) = h \cup Named(st)
  BY DEF After

-----------------------------------------------------------------------------
(* The inductive invariant.                                                *)

\* A role that was of no group gets one only once it holds what is asked, and
\* from then on no permission is taken away; what is left of the statements on
\* permissions leads to what is asked.
PermsInv ==
  ask.kind = "role" /\ ask.state = "present" /\ start.member = {} =>
    /\ cluster.member # {} => HeldAsAsked(cluster.held)
    /\ exec.pc = "send" /\ exec.next = "roles" =>
         /\ HeldAsAsked(After(cluster.held, exec.revoke, exec.grant))
         /\ IsAsked(exec.grant)
         /\ cluster.member # {} => exec.revoke = {}
    /\ \/ exec.pc \in {"roles", "done"} /\ ~exec.check
       \/ exec.pc = "send" /\ exec.next = "done"
       => HeldAsAsked(cluster.held)

\* Groups that are not asked for are neither granted nor, if there was none, revoked.
MemberInv ==
  ask.kind = "role" /\ ~ask.rolesGiven =>
    /\ start.member = {} => cluster.member = {}
    /\ exec.pc = "send" /\ exec.next = "done" /\ start.member = {} =>
         exec.revoke = {} /\ exec.grant = {}

\* The second of two tasks, after one that succeeded, has nothing to do.
QuietInv ==
  /\ prev.end = "none" \/ ~exec.check
  /\ /\ prev.end = "done" /\ ~prev.check /\ Comparable /\ exec.pc # "failed"
     /\ ask.kind = "role" => start.member = {} /\ ~ask.rolesGiven
     => /\ ~exec.sent /\ ~exec.changed /\ exec.revoke = {} /\ exec.grant = {}
        /\ Settled
        /\ ask.kind = "role" /\ ask.state = "present" => HeldAsAsked(cluster.held)

SchemaInv == ObjectInv /\ PermsInv /\ MemberInv /\ QuietInv

\* The first part of a task, of any object.
LEMMA ObjectStep ==
  ASSUME SchemaInv, CannotConnect \/ SchemaReadFails \/ NoStatement \/ Statement
  PROVE  /\ ObjectInv'
         /\ Settled /\ cluster' = cluster => Settled'
         /\ ask.kind = "role" /\ ask.state = "present" => /\ cluster'.held = cluster.held
                                                          /\ cluster'.member = cluster.member
         /\ ask.kind = "role" => cluster'.member \in {{}, cluster.member}
<1> USE DEF SchemaInv, ObjectInv
<1>1. /\ TaskShape' /\ UNCHANGED <<start, ask, prev>>
      /\ exec.pc = "object" /\ exec'.check = exec.check
      /\ \/ cluster' = cluster
         \/ Plan.run /\ cluster' = Plan.to
      /\ \/ exec'.pc = "failed"
         \/ /\ exec'.pc = AfterObject /\ ~Plan.fails
            /\ \/ ~Plan.run /\ cluster' = cluster
               \/ exec'.check
               \/ Plan.run /\ cluster' = Plan.to
  BY FirstPart
<1>2. exec.check \in BOOLEAN /\ ask.kind \in {"keyspace", "table", "role"}
      /\ ask.state \in {"present", "absent"}
  BY AsksAssumption DEF TaskShape, ShapeOK
<1>3. /\ Settled => ObjectDone
      /\ Plan.run /\ cluster' = Plan.to =>
           /\ ShapeOK' /\ KeyspaceFrom' /\ ObjectDone'
           /\ Comparable => Settled'
           /\ ask.kind = "role" /\ ask.state = "present" => /\ cluster'.held = cluster.held
                                                            /\ cluster'.member = cluster.member
           /\ ask.kind = "role" => cluster'.member \in {{}, cluster.member}
  <2>1. CASE ask.kind = "keyspace"
    BY <1>1, <2>1, KeyspaceStep DEF Settled
  <2>2. CASE ask.kind = "table"
    BY <1>1, <2>2, TableStep DEF Settled
  <2>3. CASE ask.kind = "role"
    <3>1. Plan.run /\ cluster' = Plan.to /\ ask.state = "absent" => cluster'.member = {}
      <4>1. cluster \in RoleShapes
        BY <2>3 DEF ShapeOK
      <4> QED
        BY <2>3, <4>1, RoleStatement DEF NoRole, RoleShapes
    <3> QED
      BY <1>1, <1>2, <2>3, <3>1, RoleStep DEF Settled
  <2> QED
    BY <1>2, <2>1, <2>2, <2>3
<1>4. ~Plan.run /\ ~Plan.fails => Settled
  BY SettledIsQuiet DEF ObjectQuiet
<1>5. cluster' = cluster => /\ ShapeOK' /\ KeyspaceFrom'
                            /\ (ObjectDone => ObjectDone')
                            /\ (Settled => Settled')
  BY <1>1 DEF ShapeOK, KeyspaceFrom, AskedKeyspace, ObjectDone, Settled, KeyspaceSettled,
     KeyspaceUnread, KeyspaceIsChanged, TableSettled, TableExists, RoleSettled, IsRoleChanged
<1>6. ShapeOK' /\ KeyspaceFrom' /\ Comparable' = Comparable
  BY <1>1, <1>3, <1>5 DEF Comparable
<1>7. PastObject' => \/ ~Plan.run /\ ~Plan.fails /\ cluster' = cluster
                     \/ Plan.run /\ cluster' = Plan.to
  BY <1>1 DEF PastObject
<1>8. (PastObject => ObjectDone)' /\ (PastObject /\ Comparable => Settled)'
  BY <1>3, <1>4, <1>5, <1>6, <1>7
<1> QED
  BY <1>1, <1>3, <1>5, <1>6, <1>8

\* What is asked of a role does not change with what it holds.
LEMMA SameAsk ==
  ASSUME ask' = ask, start' = start
  PROVE  /\ HeldAsAsked(cluster.held)' <=> HeldAsAsked(cluster'.held)
         /\ HeldAsAsked(After(cluster.held, exec.revoke, exec.grant))'
              <=> HeldAsAsked(After(cluster'.held, exec'.revoke, exec'.grant))
         /\ IsAsked(exec.grant)' <=> IsAsked(exec'.grant)
         /\ Comparable' <=> Comparable
<1>1. AskedPerms(AllKeyspaces)' = AskedPerms(AllKeyspaces) /\ AskedOn' = AskedOn
  BY DEF AskedPerms, AskedOn
<1>2. \A ks \in Keyspaces : AskedPerms(ks)' = AskedPerms(ks)
  BY <1>1 DEF AskedPerms
<1>3. HeldAsAsked(cluster.held)' <=> HeldAsAsked(cluster'.held)
  BY <1>1, <1>2 DEF HeldAsAsked
<1>4. HeldAsAsked(After(cluster.held, exec.revoke, exec.grant))'
        <=> HeldAsAsked(After(cluster'.held, exec'.revoke, exec'.grant))
  BY <1>1, <1>2 DEF HeldAsAsked, After
<1>5. (IsAsked(exec.grant)' <=> IsAsked(exec'.grant)) /\ (Comparable' <=> Comparable)
  BY <1>1 DEF IsAsked, Comparable
<1> QED
  BY <1>3, <1>4, <1>5

\* The first part keeps the invariant: it ends before the permissions.
LEMMA FirstPartInv ==
  ASSUME SchemaInv, CannotConnect \/ SchemaReadFails \/ NoStatement \/ Statement
  PROVE  SchemaInv'
<1>1. /\ TaskShape' /\ UNCHANGED <<start, ask, prev>>
      /\ exec.pc = "object" /\ exec'.check = exec.check
      /\ exec'.revoke = {} /\ exec'.grant = {}
      /\ \/ exec'.pc = "failed"
         \/ /\ exec'.pc = AfterObject /\ ~Plan.fails
            /\ \/ ~Plan.run /\ cluster' = cluster /\ exec'.sent = exec.sent /\ exec'.changed = FALSE
               \/ exec'.check
               \/ Plan.run /\ cluster' = Plan.to
  BY FirstPart DEF SchemaInv, ObjectInv
<1>2. exec'.pc \in {"failed", "perms", "done"}
      /\ (exec'.pc = "done" => ~(ask.kind = "role" /\ ask.state = "present"))
  BY <1>1 DEF AfterObject
<1>3. ObjectInv'
  BY ObjectStep
<1>4. PermsInv'
  <2>1. SUFFICES ASSUME ask.kind = "role", ask.state = "present", start.member = {},
                        cluster'.member # {}
                 PROVE  HeldAsAsked(cluster'.held)
    BY <1>1, <1>2, SameAsk DEF PermsInv
  <2>2. cluster'.held = cluster.held /\ cluster'.member = cluster.member
    BY <2>1, ObjectStep
  <2> QED
    BY <2>1, <2>2 DEF SchemaInv, PermsInv
<1>5. MemberInv'
  BY <1>1, <1>2, ObjectStep DEF SchemaInv, MemberInv
<1>6. QuietInv'
  <2>1. (prev.end = "none" \/ ~exec.check)'
    BY <1>1 DEF SchemaInv, QuietInv
  <2>2. SUFFICES ASSUME prev.end = "done", ~prev.check, Comparable, exec'.pc # "failed",
                        ask.kind = "role" => start.member = {} /\ ~ask.rolesGiven
                 PROVE  /\ ~exec'.sent /\ ~exec'.changed /\ exec'.revoke = {} /\ exec'.grant = {}
                        /\ Settled'
                        /\ ask.kind = "role" /\ ask.state = "present" => HeldAsAsked(cluster'.held)
    BY <1>1, <2>1, SameAsk DEF QuietInv
  <2>3. /\ ~exec.sent /\ ~exec.check /\ Settled
        /\ ask.kind = "role" /\ ask.state = "present" => HeldAsAsked(cluster.held)
    BY <1>1, <2>2 DEF SchemaInv, QuietInv
  <2>4. ~Plan.run
    BY <2>3, SettledIsQuiet DEF SchemaInv, ObjectInv, ObjectQuiet
  <2>5. cluster' = cluster /\ exec'.sent = exec.sent /\ exec'.changed = FALSE
    BY <1>1, <2>2, <2>3, <2>4
  <2>6. Settled'
    BY <2>3, <2>5, ObjectStep
  <2> QED
    BY <1>1, <2>3, <2>5, <2>6
<1> QED
  BY <1>3, <1>4, <1>5, <1>6 DEF SchemaInv

\* What is said of the object outlives what only changes what a role holds.
LEMMA ObjectKept ==
  ASSUME SchemaInv, ask.kind = "role", exec.pc \in {"perms", "roles", "send"},
         UNCHANGED <<start, ask>>, OnlyHolds, TaskShape', exec'.check = exec.check
  PROVE  ObjectInv' /\ (Settled => Settled')
<1>1. cluster \in RoleShapes /\ start \in RoleShapes
  BY DEF SchemaInv, ObjectInv, ShapeOK
<1>2. PICK held \in SUBSET (Resources \X Perms), member \in SUBSET Groups :
        cluster' = [cluster EXCEPT !.held = held, !.member = member]
  BY DEF OnlyHolds
<1>3. /\ cluster' \in RoleShapes /\ cluster'.exists = cluster.exists
      /\ cluster'.super = cluster.super /\ cluster'.login = cluster.login
  BY <1>1, <1>2 DEF RoleShapes
<1>4. ShapeOK' /\ KeyspaceFrom'
  BY <1>1, <1>3 DEF SchemaInv, ObjectInv, ShapeOK, KeyspaceFrom
<1>5. (ObjectDone => ObjectDone') /\ (Settled => Settled') /\ (Comparable' <=> Comparable)
  BY <1>3 DEF ObjectDone, Settled, RoleSettled, IsRoleChanged, Comparable
<1>6. PastObject' => PastObject
  BY DEF PastObject
<1> QED
  BY <1>4, <1>5, <1>6 DEF SchemaInv, ObjectInv

\* The permissions are worked out.
LEMMA BuildPermissionsInv ==
  ASSUME SchemaInv, BuildRolePermissions
  PROVE  SchemaInv'
<1>1. /\ ShapeOK /\ TaskShape /\ exec.pc = "perms" /\ ask.kind = "role" /\ ask.state = "present"
      /\ UNCHANGED <<cluster, start, ask, prev>>
  BY DEF SchemaInv, ObjectInv, TaskShape, BuildRolePermissions, Ends, Todo
<1>2. cluster \in RoleShapes
  BY <1>1 DEF ShapeOK
<1>3. OnlyHolds
  <2>1. cluster' = [cluster EXCEPT !.held = cluster.held, !.member = cluster.member]
    BY <1>1, <1>2 DEF RoleShapes
  <2> QED
    BY <1>2, <2>1 DEF OnlyHolds, RoleShapes
<1>4. CASE exec' = [exec EXCEPT !.pc = "failed"]
  <2>1. TaskShape' /\ exec'.pc = "failed" /\ exec'.check = exec.check
    BY <1>1, <1>4 DEF TaskShape
  <2>2. ObjectInv'
    BY <1>1, <1>3, <2>1, ObjectKept
  <2> QED
    BY <1>1, <2>1, <2>2, SameAsk DEF SchemaInv, PermsInv, MemberInv, QuietInv
<1>5. CASE Todo(PermissionRevokes, PermissionGrants, "roles")
  <2>1. PermissionGrants \subseteq Resources \X (Perms \cup {All})
    BY DEF PermissionGrants
  <2>2. /\ TaskShape' /\ exec'.check = exec.check /\ exec'.sent = exec.sent
        /\ \/ /\ exec.check /\ exec'.pc = "roles" /\ exec'.revoke = {} /\ exec'.grant = {}
           \/ /\ ~exec.check /\ exec'.pc = "send" /\ exec'.next = "roles"
              /\ exec'.revoke = PermissionRevokes /\ exec'.grant = PermissionGrants
        /\ exec'.changed = (exec.changed \/ PermissionRevokes \cup PermissionGrants # {})
    BY <1>1, <1>5, <2>1, TodoStep
  <2>3. ObjectInv' /\ (Settled => Settled')
    BY <1>1, <1>3, <2>2, ObjectKept
  <2>4. PermsInv'
    <3>1. SUFFICES ASSUME start.member = {}
                   PROVE  /\ cluster.member # {} => HeldAsAsked(cluster.held)
                          /\ HeldAsAsked(After(cluster.held, PermissionRevokes, PermissionGrants))
                          /\ IsAsked(PermissionGrants)
                          /\ cluster.member # {} => PermissionRevokes = {}
      BY <1>1, <2>2, SameAsk DEF PermsInv
    <3>2. cluster.member # {} => HeldAsAsked(cluster.held)
      BY <1>1, <3>1 DEF SchemaInv, PermsInv
    <3>3. IsAsked(PermissionGrants)
      BY DEF IsAsked, PermissionGrants
    <3>4. CASE cluster.member = {}
      BY <1>1, <3>3, <3>4, LeadsToAsked
    <3>5. CASE cluster.member # {}
      <4>1. PermissionRevokes = {}
        BY <1>1, <3>2, <3>5, AskedIsQuiet
      <4> QED
        BY <1>1, <3>2, <3>3, <3>5, <4>1, GrantsKeep
    <3> QED
      BY <3>4, <3>5
  <2>5. MemberInv'
    BY <1>1, <2>2 DEF SchemaInv, MemberInv
  <2>6. QuietInv'
    <3>1. (prev.end = "none" \/ ~exec.check)'
      BY <1>1, <2>2 DEF SchemaInv, QuietInv
    <3>2. SUFFICES ASSUME prev.end = "done", ~prev.check, Comparable, start.member = {},
                          ~ask.rolesGiven
                   PROVE  /\ ~exec'.sent /\ ~exec'.changed /\ exec'.revoke = {} /\ exec'.grant = {}
                          /\ Settled' /\ HeldAsAsked(cluster'.held)
      BY <1>1, <3>1, SameAsk DEF QuietInv
    <3>3. ~exec.sent /\ ~exec.changed /\ Settled /\ HeldAsAsked(cluster.held)
      BY <1>1, <3>2 DEF SchemaInv, QuietInv
    <3>4. cluster.member = {}
      BY <1>1, <3>2 DEF SchemaInv, MemberInv
    <3>5. PermissionRevokes = {} /\ PermissionGrants = {}
      BY <1>1, <3>3, <3>4, AskedIsQuiet
    <3> QED
      BY <1>1, <2>2, <2>3, <3>3, <3>5
  <2> QED
    BY <2>3, <2>4, <2>5, <2>6 DEF SchemaInv
<1> QED
  BY <1>4, <1>5 DEF BuildRolePermissions, Ends

\* The groups are worked out, once the permissions are held.
LEMMA BuildGrantsInv ==
  ASSUME SchemaInv, BuildRoleGrants
  PROVE  SchemaInv'
<1>1. /\ ShapeOK /\ TaskShape /\ exec.pc = "roles" /\ ask.kind = "role" /\ ask.state = "present"
      /\ UNCHANGED <<cluster, start, ask, prev>>
  BY DEF SchemaInv, ObjectInv, TaskShape, BuildRoleGrants, Todo
<1>2. cluster \in RoleShapes /\ ask.rolesGiven \in BOOLEAN
  BY <1>1, RoleTypes DEF ShapeOK
<1>3. OnlyHolds
  <2>1. cluster' = [cluster EXCEPT !.held = cluster.held, !.member = cluster.member]
    BY <1>1, <1>2 DEF RoleShapes
  <2> QED
    BY <1>2, <2>1 DEF OnlyHolds, RoleShapes
<1>4. PICK revoke, grant : /\ Todo(revoke, grant, "done") /\ grant \subseteq Groups
                           /\ ~ask.rolesGiven => revoke = {} /\ grant = {}
  <2>1. CASE ask.rolesGiven
    <3>1. Todo(CurrentRoles \ ask.roles, ask.roles \ CurrentRoles, "done")
      BY <2>1 DEF BuildRoleGrants
    <3>2. ask.roles \ CurrentRoles \subseteq Groups
      BY <1>1, <2>1, RoleTypes
    <3> QED
      BY <2>1, <3>1, <3>2
  <2>2. CASE ~ask.rolesGiven
    BY <2>2 DEF BuildRoleGrants
  <2> QED
    BY <2>1, <2>2
<1>5. /\ TaskShape' /\ exec'.check = exec.check /\ exec'.sent = exec.sent
      /\ \/ /\ exec.check /\ exec'.pc = "done" /\ exec'.revoke = {} /\ exec'.grant = {}
         \/ /\ ~exec.check /\ exec'.pc = "send" /\ exec'.next = "done"
            /\ exec'.revoke = revoke /\ exec'.grant = grant
      /\ exec'.changed = (exec.changed \/ revoke \cup grant # {})
  BY <1>1, <1>4, TodoStep
<1>6. ObjectInv' /\ (Settled => Settled')
  BY <1>1, <1>3, <1>5, ObjectKept
<1>7. PermsInv'
  BY <1>1, <1>5, SameAsk DEF SchemaInv, PermsInv
<1>8. MemberInv'
  BY <1>1, <1>4, <1>5 DEF SchemaInv, MemberInv
<1>9. QuietInv'
  <2>1. (prev.end = "none" \/ ~exec.check)'
    BY <1>1, <1>5 DEF SchemaInv, QuietInv
  <2>2. SUFFICES ASSUME prev.end = "done", ~prev.check, Comparable, start.member = {},
                        ~ask.rolesGiven
                 PROVE  /\ ~exec'.sent /\ ~exec'.changed /\ exec'.revoke = {} /\ exec'.grant = {}
                        /\ Settled' /\ HeldAsAsked(cluster'.held)
    BY <1>1, <2>1, SameAsk DEF QuietInv
  <2>3. ~exec.sent /\ ~exec.changed /\ Settled /\ HeldAsAsked(cluster.held)
    BY <1>1, <2>2 DEF SchemaInv, QuietInv
  <2> QED
    BY <1>1, <1>4, <1>5, <1>6, <2>2, <2>3
<1> QED
  BY <1>6, <1>7, <1>8, <1>9 DEF SchemaInv

\* A statement on the role.
LEMMA SendInv ==
  ASSUME SchemaInv, Revoke \/ Grant
  PROVE  SchemaInv'
<1>1. /\ TaskShape' /\ UNCHANGED <<start, ask, prev>> /\ OnlyHolds
      /\ exec.pc = "send" /\ exec'.check = exec.check
      /\ \/ cluster' = cluster /\ exec'.pc = "failed"
         \/ \E st \in exec.revoke :
              /\ cluster' = Revoked(st)
              /\ \/ exec'.pc = "failed"
                 \/ /\ exec'.pc = "send" /\ exec'.next = exec.next
                    /\ exec'.revoke = exec.revoke \ {st} /\ exec'.grant = exec.grant
         \/ \E st \in exec.grant :
              /\ cluster' = Granted(st) /\ exec.revoke = {}
              /\ \/ exec'.pc = "failed"
                 \/ /\ exec'.pc = "send" /\ exec'.next = exec.next
                    /\ exec'.revoke = {} /\ exec'.grant = exec.grant \ {st}
  BY SendStep DEF SchemaInv, ObjectInv
<1>2. ask.kind = "role" /\ ask.state = "present" /\ exec.next \in {"roles", "done"} /\ ~exec.check
  BY <1>1 DEF SchemaInv, ObjectInv, TaskShape
<1>3. cluster \in RoleShapes
  BY <1>2 DEF SchemaInv, ObjectInv, ShapeOK
<1>4. ObjectInv'
  BY <1>1, <1>2, ObjectKept
<1>5. CASE start.member # {}
  <2>1. QuietInv'
    BY <1>1, <1>2, <1>5 DEF QuietInv
  <2> QED
    BY <1>1, <1>4, <1>5, <2>1 DEF SchemaInv, PermsInv, MemberInv
<1>6. CASE start.member = {}
  <2> DEFINE was == cluster.held
             now == cluster'.held
             kept ==
               /\ cluster'.member # {} => HeldAsAsked(now)
               /\ exec'.pc = "send" /\ exec'.next = "roles" =>
                    /\ HeldAsAsked(After(now, exec'.revoke, exec'.grant))
                    /\ IsAsked(exec'.grant)
                    /\ cluster'.member # {} => exec'.revoke = {}
               /\ exec'.pc = "send" /\ exec'.next = "done" => HeldAsAsked(now)
               /\ ~ask.rolesGiven => /\ cluster'.member = {}
                                     /\ exec'.pc = "send" /\ exec'.next = "done" =>
                                          exec'.revoke = {} /\ exec'.grant = {}
  <2>1. /\ cluster.member # {} => HeldAsAsked(was)
        /\ exec.next = "roles" => /\ HeldAsAsked(After(was, exec.revoke, exec.grant))
                                  /\ IsAsked(exec.grant)
                                  /\ cluster.member # {} => exec.revoke = {}
        /\ exec.next = "done" => HeldAsAsked(was)
    BY <1>1, <1>2, <1>6 DEF SchemaInv, PermsInv
  <2>2. kept => SchemaInv'
    <3>1. QuietInv'
      <4>1. (prev.end = "none" \/ ~exec.check)'
        BY <1>1, <1>2
      <4>2. exec'.pc # "failed" => exec.revoke # {} \/ exec.grant # {}
        BY <1>1
      <4> QED
        BY <1>1, <1>2, <4>1, <4>2, SameAsk DEF SchemaInv, QuietInv
    <3>2. kept => PermsInv'
      BY <1>1, <1>2, SameAsk DEF PermsInv
    <3>3. kept => MemberInv'
      BY <1>1, <1>2 DEF MemberInv
    <3> QED
      BY <1>4, <3>1, <3>2, <3>3 DEF SchemaInv
  <2>3. ~ask.rolesGiven => /\ cluster.member = {}
                           /\ exec.next = "done" => exec.revoke = {} /\ exec.grant = {}
    BY <1>1, <1>2, <1>6 DEF SchemaInv, MemberInv
  <2>4. ASSUME cluster' = cluster, exec'.pc = "failed"
        PROVE  kept
    <3>1. now = was /\ cluster'.member = cluster.member
      BY <2>4
    <3>2. exec'.pc # "send"
      BY <2>4
    <3> HIDE DEF was, now
    <3> QED
      BY <2>1, <2>3, <3>1, <3>2
  <2>5. ASSUME NEW st \in exec.revoke, cluster' = Revoked(st),
               \/ exec'.pc = "failed"
               \/ /\ exec'.pc = "send" /\ exec'.next = exec.next
                  /\ exec'.revoke = exec.revoke \ {st} /\ exec'.grant = exec.grant
        PROVE  kept
    <3>1. CASE exec.next = "roles"
      <4>1. now = was \ Named(st) /\ cluster'.member = cluster.member
        BY <1>3, <2>5, <3>1 DEF Revoked, RoleShapes
      <4>2. cluster.member = {}
        BY <2>1, <3>1
      <4>3. After(now, exec.revoke \ {st}, exec.grant) = After(was, exec.revoke, exec.grant)
        BY <4>1, AfterOne
      <4> HIDE DEF was, now
      <4> QED
        BY <2>1, <2>5, <3>1, <4>1, <4>2, <4>3
    <3>2. CASE exec.next = "done"
      <4>1. now = was
        BY <1>3, <2>5, <3>2 DEF Revoked, RoleShapes
      <4> HIDE DEF was, now
      <4> QED
        BY <2>1, <2>3, <2>5, <3>2, <4>1
    <3> QED
      BY <1>2, <3>1, <3>2
  <2>6. ASSUME NEW st \in exec.grant, cluster' = Granted(st), exec.revoke = {},
               \/ exec'.pc = "failed"
               \/ /\ exec'.pc = "send" /\ exec'.next = exec.next
                  /\ exec'.revoke = {} /\ exec'.grant = exec.grant \ {st}
        PROVE  kept
    <3>1. CASE exec.next = "roles"
      <4>1. now = was \cup Named(st) /\ cluster'.member = cluster.member
        BY <1>3, <2>6, <3>1 DEF Granted, RoleShapes
      <4>2. /\ After(now, {}, exec.grant \ {st}) = After(was, {}, exec.grant)
            /\ After(was, {}, {st}) = now
        BY <4>1, AfterOne
      <4>3. IsAsked({st}) /\ IsAsked(exec.grant \ {st})
        BY <2>1, <3>1 DEF IsAsked
      <4>4. HeldAsAsked(was) => HeldAsAsked(After(was, {}, {st}))
        BY <1>2, <4>3, GrantsKeep DEF SchemaInv, ObjectInv
      <4>5. HeldAsAsked(was) => HeldAsAsked(now)
        BY <4>2, <4>4
      <4> HIDE DEF was, now
      <4> QED
        BY <2>1, <2>3, <2>6, <3>1, <4>1, <4>2, <4>3, <4>5
    <3>2. CASE exec.next = "done"
      <4>1. now = was
        BY <1>3, <2>6, <3>2 DEF Granted, RoleShapes
      <4> HIDE DEF was, now
      <4> QED
        BY <2>1, <2>3, <2>6, <3>2, <4>1
    <3> QED
      BY <1>2, <3>1, <3>2
  <2> HIDE DEF kept
  <2> QED
    BY <1>1, <2>2, <2>4, <2>5, <2>6
<1> QED
  BY <1>5, <1>6

\* All the statements are executed.
LEMMA SentInv ==
  ASSUME SchemaInv, Sent
  PROVE  SchemaInv'
<1>1. /\ exec.pc = "send" /\ exec.revoke = {} /\ exec.grant = {}
      /\ exec' = [exec EXCEPT !.pc = exec.next]
      /\ UNCHANGED <<cluster, start, ask, prev>>
  BY DEF Sent
<1>2. /\ ask.kind = "role" /\ ask.state = "present" /\ exec.next \in {"roles", "done"}
      /\ ~exec.check /\ TaskShape
  BY <1>1 DEF SchemaInv, ObjectInv, TaskShape
<1>3. /\ TaskShape' /\ exec'.pc = exec.next /\ exec'.check = exec.check
      /\ exec'.revoke = {} /\ exec'.grant = {}
      /\ exec'.sent = exec.sent /\ exec'.changed = exec.changed
  BY <1>1, <1>2 DEF TaskShape
<1>4. OnlyHolds
  <2>1. cluster \in RoleShapes
    BY <1>2 DEF SchemaInv, ObjectInv, ShapeOK
  <2>2. cluster' = [cluster EXCEPT !.held = cluster.held, !.member = cluster.member]
    BY <1>1, <2>1 DEF RoleShapes
  <2> QED
    BY <2>1, <2>2 DEF OnlyHolds, RoleShapes
<1>5. ObjectInv' /\ (Settled => Settled')
  BY <1>1, <1>2, <1>3, <1>4, ObjectKept
<1>6. PermsInv'
  <2>1. After(cluster.held, {}, {}) = cluster.held
    BY AfterOne
  <2>2. start.member = {} => HeldAsAsked(cluster.held)
    BY <1>1, <1>2, <2>1 DEF SchemaInv, PermsInv
  <2> QED
    BY <1>1, <1>2, <1>3, <2>2, SameAsk DEF PermsInv
<1>7. MemberInv'
  BY <1>1, <1>3 DEF SchemaInv, MemberInv
<1>8. QuietInv'
  BY <1>1, <1>2, <1>3, <1>5, SameAsk DEF SchemaInv, QuietInv
<1> QED
  BY <1>5, <1>6, <1>7, <1>8 DEF SchemaInv

\* The task is run again: after one that succeeded, all of it is as asked.
LEMMA RunAgainInv ==
  ASSUME SchemaInv, RunAgain
  PROVE  SchemaInv'
<1>1. /\ exec.pc \in {"done", "failed"} /\ exec' = Fresh(FALSE)
      /\ prev' = [end |-> exec.pc, check |-> exec.check, changed |-> exec.changed]
      /\ UNCHANGED <<cluster, start, ask>>
  BY DEF RunAgain
<1>2. /\ exec'.pc = "object" /\ exec'.check = FALSE /\ exec'.sent = FALSE /\ exec'.changed = FALSE
      /\ exec'.revoke = {} /\ exec'.grant = {} /\ prev'.end = exec.pc /\ prev'.check = exec.check
  BY <1>1 DEF Fresh
<1>3. TaskShape'
  BY <1>1 DEF Fresh, TaskShape
<1>4. ShapeOK' /\ KeyspaceFrom' /\ (Settled => Settled')
  BY <1>1 DEF SchemaInv, ObjectInv, ShapeOK, KeyspaceFrom, AskedKeyspace, Settled,
     KeyspaceSettled, KeyspaceUnread, KeyspaceIsChanged, TableSettled, TableExists, RoleSettled,
     IsRoleChanged
<1>5. ObjectInv'
  BY <1>2, <1>3, <1>4 DEF ObjectInv, PastObject
<1>6. PermsInv' /\ MemberInv'
  BY <1>1, <1>2, SameAsk DEF SchemaInv, PermsInv, MemberInv
<1>7. QuietInv'
  <2>1. SUFFICES ASSUME exec.pc = "done", ~exec.check, Comparable,
                        ask.kind = "role" => start.member = {} /\ ~ask.rolesGiven
                 PROVE  /\ Settled
                        /\ ask.kind = "role" /\ ask.state = "present" => HeldAsAsked(cluster.held)
    BY <1>1, <1>2, <1>4, SameAsk DEF QuietInv
  <2>2. Settled
    BY <2>1 DEF SchemaInv, ObjectInv, PastObject
  <2>3. ask.kind = "role" /\ ask.state = "present" => HeldAsAsked(cluster.held)
    BY <2>1 DEF SchemaInv, PermsInv
  <2> QED
    BY <2>2, <2>3
<1> QED
  BY <1>5, <1>6, <1>7 DEF SchemaInv

\* The invariant holds when the first task begins.
LEMMA InitInv == SchemaInit => SchemaInv
<1> SUFFICES ASSUME SchemaInit
             PROVE  SchemaInv
  OBVIOUS
<1>1. /\ ask \in Asks /\ cluster \in Objects /\ cluster.kind = ask.kind /\ start = cluster
      /\ prev = [end |-> "none", check |-> FALSE, changed |-> FALSE]
  BY DEF SchemaInit
<1>2. PICK check \in BOOLEAN : exec = Fresh(check)
  BY DEF SchemaInit
<1>3. TaskShape /\ exec.pc = "object"
  BY <1>2 DEF TaskShape, Fresh
<1>4. ShapeOK /\ KeyspaceFrom
  BY <1>1, ObjectsAssumption DEF ShapeOK, KeyspaceFrom, AKeyspace, RoleShapes
<1>5. ObjectInv
  BY <1>3, <1>4 DEF ObjectInv, PastObject
<1>6. PermsInv /\ MemberInv /\ QuietInv
  BY <1>1, <1>3 DEF PermsInv, MemberInv, QuietInv
<1> QED
  BY <1>5, <1>6 DEF SchemaInv

\* A step that changes nothing keeps the invariant.
LEMMA IdleInv ==
  ASSUME SchemaInv, UNCHANGED schemaVars
  PROVE  SchemaInv'
<1>1. UNCHANGED <<cluster, start, ask, exec, prev>>
  BY DEF schemaVars
<1>2. ObjectInv'
  <2>1. ShapeOK' /\ KeyspaceFrom'
    BY <1>1 DEF SchemaInv, ObjectInv, ShapeOK, KeyspaceFrom, AskedKeyspace
  <2>2. TaskShape'
    BY <1>1 DEF SchemaInv, ObjectInv, TaskShape
  <2>3. (PastObject' <=> PastObject) /\ (Comparable' <=> Comparable) /\ (Settled' <=> Settled)
    BY <1>1 DEF PastObject, Comparable, Settled, KeyspaceSettled, KeyspaceUnread,
       KeyspaceIsChanged, TableSettled, TableExists, RoleSettled, IsRoleChanged
  <2>4. ObjectDone' <=> ObjectDone
    BY <1>1 DEF ObjectDone, AskedKeyspace
  <2> QED
    BY <2>1, <2>2, <2>3, <2>4 DEF SchemaInv, ObjectInv
<1>3. PermsInv' /\ MemberInv'
  BY <1>1, SameAsk DEF SchemaInv, PermsInv, MemberInv
<1>4. Settled' <=> Settled
  BY <1>1 DEF Settled, KeyspaceSettled, KeyspaceUnread, KeyspaceIsChanged, TableSettled,
     TableExists, RoleSettled, IsRoleChanged
<1>5. QuietInv'
  BY <1>1, <1>4, SameAsk DEF SchemaInv, QuietInv
<1> QED
  BY <1>2, <1>3, <1>5 DEF SchemaInv

\* In every reachable state: what the object is by its kind, what a role holds, and
\* that the second of two tasks has nothing left to do.
LEMMA SchemaInvariant == SchemaSpec => []SchemaInv
<1>1. SchemaInv /\ [SchemaNext]_schemaVars => SchemaInv'
  BY FirstPartInv, BuildPermissionsInv, BuildGrantsInv, SendInv, SentInv, RunAgainInv, IdleInv
     DEF SchemaNext
<1> QED
  BY <1>1, InitInv, PTL DEF SchemaSpec

\* A task that succeeded leaves the object as asked, whatever failed before it
\* (KeyspacePlan, TablePlan, LoginPlan and RoleOnlyPlan, for every object and task),
\* and a role of no group holds what was asked and nothing else on each keyspace, at
\* least that on all of them: build_role_permissions and the statements after it, in
\* any order and after any failure.
LEMMA TasksEndAsAsked == SchemaSpec => []EndsAsAsked
<1>1. SchemaInv => ObjectAsAsked
  <2> SUFFICES ASSUME SchemaInv, Succeeded
               PROVE  ObjectAsAsked
    BY DEF ObjectAsAsked
  <2>1. ObjectDone
    BY DEF SchemaInv, ObjectInv, PastObject, Succeeded
  <2> QED
    BY <2>1 DEF ObjectAsAsked, ObjectDone
<1>2. SchemaInv => PermissionsAsAsked
  <2> SUFFICES ASSUME SchemaInv, Succeeded, ask.kind = "role", ask.state = "present",
                      start.member = {}
               PROVE  HeldAsAsked(cluster.held)
    BY DEF PermissionsAsAsked, HeldAsAsked, HeldOn, HoldsOn
  <2> QED
    BY DEF SchemaInv, PermsInv, Succeeded
<1>3. SchemaInv => EndsAsAsked
  BY <1>1, <1>2 DEF EndsAsAsked
<1> QED
  BY <1>3, SchemaInvariant, PTL

\* The same task after one that succeeded sends no statement and tells no change.
LEMMA SecondRunIsQuiet == SchemaSpec => []SecondRunQuiet
<1>1. SchemaInv => SecondRunQuiet
  BY DEF SchemaInv, QuietInv, SecondRunQuiet, Comparable, Succeeded
<1> QED
  BY <1>1, SchemaInvariant, PTL

\* What a task of the object modules is asked for is done, whatever failed in the
\* tasks before it, and the same task after it changes nothing.
THEOREM TasksEndAsAskedOnce == SchemaSpec => []ObjectsAsAskedOnce
<1>1. EndsAsAsked /\ SecondRunQuiet => ObjectsAsAskedOnce
  BY DEF ObjectsAsAskedOnce
<1> QED
  BY <1>1, TasksEndAsAsked, SecondRunIsQuiet, PTL

=============================================================================
