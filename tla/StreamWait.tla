----------------------------- MODULE StreamWait -----------------------------
(***************************************************************************)
(* The wait for a streaming operation, check after check:                  *)
(*   tasks/stream_wait.yml, stream_check.yml, wait_loop.yml                *)
(*   plugins/filter/cassandra_stream.py   the progress, where it stands    *)
(*   plugins/modules/cassandra_netstats.py, cassandra_compactionstats      *)
(* Pure operators over what the wait remembers and what one check reads.   *)
(* Time is counted in checks (one every cassandra_stream_check_interval).  *)
(*                                                                         *)
(* The reading of a check:                                                 *)
(*   own      this node's netstats: its mode, or why it has none           *)
(*   seen     how the other nodes see this node, "none" when not read      *)
(*   job      where the async job followed is, "none" without one          *)
(*   removal  nodetool removenode status, "none" when not followed         *)
(*   refused  the hosts that refused the JMX login                         *)
(***************************************************************************)
EXTENDS Naturals, Sequences, FiniteSets, FiniteSetsExt, SequencesExt

CONSTANTS StallTime,    \* cassandra_stream_stall_time, in checks
          QuietFactor,  \* quiet_factor: as many times longer with nothing to transfer
          TooLong       \* bound on the time counted: past any cassandra_stream_max_time

ASSUME StreamAssumption ==
    /\ StallTime \in Nat \ {0} /\ QuietFactor \in Nat \ {0} /\ TooLong \in Nat

\* What a new wait remembers (_cassandra_stream_state: {}).
NoState == [checks |-> 0, streams |-> {}, idle |-> 0, transferring |-> FALSE, answered |-> {}]

-----------------------------------------------------------------------------
(* cassandra_stream_progress: `heard` are the hosts that answered, `listed`  *)
(* the sessions [host, plan, done, total] they show.                         *)

Same(t, s) == t.host = s.host /\ t.plan = s.plan

NotListed(w, listed) == {t \in w.streams : \A s \in listed : ~Same(t, s)}

(* Mutant: a session not listed is over, whether its host answered or not.  *)
EndedUnanswered(w, heard, listed) == {t \in NotListed(w, listed) : ~t.gone}

\* Finished sessions leave netstats.  A host that does not answer tells nothing
\* about its own.
Ended(w, heard, listed) == {t \in NotListed(w, listed) : ~t.gone /\ t.host \in heard}

\* Bytes streamed, another total, or a session that starts.
Moved(w, s) == \A t \in w.streams : Same(t, s) => s.done > t.done \/ s.total # t.total

Progressed(w, heard, listed) ==
    \/ \E s \in listed : Moved(w, s)
    \/ Ended(w, heard, listed) # {}

Stream(s, gone) == [host |-> s.host, plan |-> s.plan, done |-> s.done, total |-> s.total, gone |-> gone]

Streams(w, heard, listed) ==
    {Stream(s, FALSE) : s \in listed}
    \cup {[t EXCEPT !.gone = TRUE, !.done = t.total] : t \in Ended(w, heard, listed)}
    \cup (NotListed(w, listed) \ Ended(w, heard, listed))

\* The state kept for the next check.
Progress(w, heard, listed) ==
    [checks       |-> Min({w.checks + 1, TooLong + 1}),
     streams      |-> Streams(w, heard, listed),
     idle         |-> IF w.checks = 0 \/ Progressed(w, heard, listed) THEN 0
                      ELSE Min({w.idle + 1, StallTime * QuietFactor}),
     transferring |-> \E s \in listed : s.done < s.total,
     answered     |-> w.answered \cup heard]

\* Nothing left to transfer in netstats: the phases that show no bytes.
Limit(w) == IF w.transferring THEN StallTime ELSE StallTime * QuietFactor

Stalled(w) == w.idle >= Limit(w)

-----------------------------------------------------------------------------
(* cassandra_stream_status                                                 *)

\* Its own nodetool gives no mode, though Cassandra may run (cassandra_stream_own_error).
OwnError(own) == own.mode = "none" /\ own.why # "none"

\* JMX refuses the connection, not the host (_own_stopped).
OwnStopped(own) == own.why = "connection refused"

\* The other side is read instead.
Blind(own) == OwnError(own) /\ ~OwnStopped(own)

JobOver(job) == job \in {"changed", "unchanged", "failed"}

(* Mutant: a job that changed nothing is the end of a decommission too.     *)
DoneUnchanged(op, r) ==
    \/ op = "join" /\ (r.own.mode = "NORMAL" \/ (Blind(r.own) /\ r.seen = "UN"))
    \/ op = "leave" /\ r.own.mode = "DECOMMISSIONED"
    \/ JobOver(r.job) /\ r.job # "failed"
    \/ r.removal = "no removal"

Done(op, r) ==
    \/ op = "join" /\ (r.own.mode = "NORMAL" \/ (Blind(r.own) /\ r.seen = "UN"))
    \/ op = "leave" /\ r.own.mode = "DECOMMISSIONED"
    \/ JobOver(r.job) /\ r.job # "failed" /\ (r.job = "changed" \/ op # "leave")
    \/ r.removal = "no removal"

\* Why a check ends the wait, the first that holds.
Verdicts(op, w, r, maxTime) == <<
    <<Done(op, r),                                        "done">>,
    <<r.job = "failed",                                   "job_failed">>,
    <<r.job = "lost",                                     "job_lost">>,
    <<op = "join" /\ r.own.mode = "JOINING_FAILED",       "join_failed">>,
    <<op = "leave" /\ r.own.mode = "DECOMMISSION_FAILED", "leave_failed">>,
    <<op \in {"join", "leave"} /\ OwnStopped(r.own),      "stopped">>,
    <<r.refused # {},                                     "jmx_refused">>,
    <<Stalled(w),                                         "stalled">>,
    <<maxTime > 0 /\ w.checks > maxTime,                  "too_long">>,
    <<TRUE,                                               "going">> >>

Status(op, w, r, maxTime) ==
    LET verdicts == Verdicts(op, w, r, maxTime)
    IN verdicts[SelectInSeq(verdicts, LAMBDA v : v[1])][2]

(* Mutant: every refusal counts.                                           *)
JmxRefusedAlways(hosts, answers, joining, answered) ==
    {h \in hosts : answers[h] \in {"login refused", "login not ready"}}

\* cassandra_jmx_refused: the joining node's own passing refusals do not
\* count, nor those of a host that answered in this wait.
JmxRefused(hosts, answers, joining, answered) ==
    {h \in hosts \ answered :
        \/ answers[h] = "login refused"
        \/ answers[h] = "login not ready" /\ h # joining}
=============================================================================
