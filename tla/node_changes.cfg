SPECIFICATION FairSpec
CONSTANTS
    a = a
    b = b
    c = c
    Group <- MCGroup
    Dc <- MCDc
    Rack <- MCRack
    Rf <- MCRf
    Founders <- MCFounders
    SeedLists <- MCSeedLists
    MaxFaults = 1
    MaxStops = 1
    MaxEdits = 2
PROPERTIES
    LeavesSafely
    DataKept
    JoinsThroughMember
    Converges
CHECK_DEADLOCK FALSE
