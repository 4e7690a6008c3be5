\* Any sequence of fresh and resumed runs, on Cassandra: a drained node's own
\* nodetool status shows it up.
SPECIFICATION Spec
CONSTANTS
    n1 = n1
    n2 = n2
    n3 = n3
    Nodes <- MCNodes
    Order <- MCOrder
    Operations = {"restart", "reboot"}
    DrainedShowsItselfUp = TRUE
    FollowsHint = FALSE
    MaxCrashes = 1
    MaxFaults = 1
INVARIANTS ActsAlone AtMostOneOut KnownDownStops CompleteMeansAll
PROPERTIES NoRepeat RestartKeepsPromise

