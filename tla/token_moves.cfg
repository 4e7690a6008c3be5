SPECIFICATION Spec
CONSTANTS
    a1 = a1
    a2 = a2
    a3 = a3
    a4 = a4
    a5 = a5
    b1 = b1
    Size = 60
    DcOffset = 1
    DefaultRf = 3
    Order <- MCOrder
    Founders <- MCFounders
    Dc <- MCDc
    Rack <- MCRack
    Rfs <- MCRfs
    Rings <- MCRings
    Additions <- MCAdditions
    Givens <- MCGivens
    Targets <- MCTargets
    Modes <- MCModes
    Limits <- MCLimits
    MaxRuns = 3
    MaxFaults = 1
INVARIANTS TokensFree EndsEven CleanupsKept
CHECK_DEADLOCK FALSE
