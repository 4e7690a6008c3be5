SPECIFICATION Spec
CONSTANTS
    a = a
    b = b
    c = c
    Nodes = {a, b, c}
    Order <- ThreeNodes
    Limits <- AnyLimit
    Conditions <- SomeConditions
    DrainedShowsItselfUp = TRUE
    MaxFaults = 2
INVARIANTS RestartWaits
PROPERTIES AppliedAtEnd OwnPlanHolds StaysStopped
