\* A stopped run is resumed, as its last message asks, until it is complete.
SPECIFICATION FairSpec
CONSTANTS
    n1 = n1
    n2 = n2
    n3 = n3
    Nodes <- MCNodes
    Order <- MCOrder
    Operations = {"restart","reboot"}
    DrainedShowsItselfUp = TRUE
    FollowsHint = TRUE
    MaxCrashes = 1
    MaxFaults = 1
PROPERTIES RunCompletes TakenComesBack

