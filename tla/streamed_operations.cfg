SPECIFICATION FairSpec
CONSTANTS
    n = n
    p = p
    q = q
    x = x
    Self = n
    Peers = {p, q}
    Outside = x
    At <- MCAt
    Ops = {"join", "leave", "removal"}
    MaxTimes = {0}
    MaxRuns <- MCMaxRuns
    MaxFaults <- MCMaxFaults
    StallTime = 1
    QuietFactor = 2
    TooLong = 0
PROPERTIES DoneIsOver StopsForCause WaitEnds OneRemoval
CHECK_DEADLOCK FALSE
