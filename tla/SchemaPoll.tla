----------------------------- MODULE SchemaPoll -----------------------------
(***************************************************************************)
(* plugins/modules/cassandra_schema.py: the schema check of a health check *)
(* polls nodetool describecluster while schema changes spread.             *)
(***************************************************************************)
EXTENDS Naturals, FiniteSets

CONSTANTS
    Nodes,
    SchemaVersions,
    Poll,         \* the option poll
    ExpectedUuid  \* the option uuid (is), None without it
VARIABLES
    schema,        \* node -> its schema version
    iterations,
    answers,       \* len(cluster_schema_list)
    schemaStatus,  \* the versions describecluster last listed
    rc,            \* return_codes[-1]
    pc,            \* "poll", "sleep", "main", "done"
    result         \* what the module says

vars == <<schema, iterations, answers, schemaStatus, rc, pc, result>>

Init ==
    /\ schema \in [Nodes -> SchemaVersions]
    /\ iterations = 0
    /\ answers = 0
    /\ schemaStatus = {}
    /\ rc = "none"
    /\ pc = "poll"
    /\ result = "none"

(* External: a node applies a schema change, or pulls another's version.   *)
SchemaChanges ==
    /\ \E n \in Nodes, v \in SchemaVersions : schema' = [schema EXCEPT ![n] = v]
    /\ UNCHANGED <<iterations, answers, schemaStatus, rc, pc, result>>

(* describecluster answers: cluster_schema lists its versions.  The loop   *)
(* ends when the list of answers (schema_count_total) has one element.     *)
Answered ==
    /\ pc = "poll"
    /\ iterations' = iterations + 1
    /\ rc' = "ok"
    /\ schemaStatus' = {schema[n] : n \in Nodes}
    /\ answers' = answers + 1
    /\ pc' = IF answers' = 1 \/ iterations' = Poll THEN "main" ELSE "sleep"
    /\ UNCHANGED <<schema, result>>

Failed ==
    /\ pc = "poll"
    /\ iterations' = iterations + 1
    /\ rc' = "failed"
    /\ pc' = IF iterations' = Poll THEN "main" ELSE "sleep"
    /\ UNCHANGED <<schema, answers, schemaStatus, result>>

Sleeps ==
    /\ pc = "sleep"
    /\ pc' = "poll"
    /\ UNCHANGED <<schema, iterations, answers, schemaStatus, rc, result>>

(* Without any answer schema_status is unbound: the module fails there.    *)
Main ==
    /\ pc = "main"
    /\ result' = CASE rc = "failed"                                 -> "failed"
                   [] answers = 1 /\ ExpectedUuid \in schemaStatus  -> "expected version"
                   [] answers = 1 /\ ExpectedUuid \notin schemaStatus -> "consensus"
                   [] OTHER                                         -> "failed"
    /\ pc' = "done"
    /\ UNCHANGED <<schema, iterations, answers, schemaStatus, rc>>

Next == SchemaChanges \/ Answered \/ Failed \/ Sleeps \/ Main

Spec == Init /\ [][Next]_vars

-----------------------------------------------------------------------------
Succeeds == result \in {"expected version", "consensus"}

(* "Ensure that all nodes are have the same schema version", "Can poll     *)
(* multiple times to wait for the schema version to converge"              *)
(* (cassandra_schema.py): it succeeds on an answer with one version only.  *)
Agreement == Succeeds => Cardinality(schemaStatus) = 1

(* "Ensure all Cassandra nodes have the expected schema version" (the      *)
(* example of the option is): with a version expected, it succeeds only on *)
(* an answer that has that one.                                            *)
ExpectedVersion == Succeeds => ExpectedUuid \in schemaStatus

=============================================================================
