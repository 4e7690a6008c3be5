\* The schema check of cluster_health.yml: the first answer ends it, whatever it lists.
SPECIFICATION Spec
CONSTANTS
    Nodes = {n1, n2}
    SchemaVersions = {v1, v2}
    Poll = 6
    ExpectedUuid = None
INVARIANTS Agreement
