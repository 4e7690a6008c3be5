\* A resumed run whose second node is one another operation left drained: on
\* Cassandra that node shows itself up, and the run goes on next to it.
SPECIFICATION Spec
CONSTANTS
    n1 = n1
    n2 = n2
    n3 = n3
    Nodes <- MCNodes
    Order <- MCOrder
    Operations = {"restart", "reboot"}
    DrainedShowsItselfUp = TRUE
    FollowsHint = FALSE
    MaxCrashes = 1
    MaxFaults = 1
INVARIANTS OtherDownStops
