SPECIFICATION Spec
CONSTANTS
    g1 = g1
    g2 = g2
    NoCaller = nobody
    Threshold = 2
    Caller = {g1, g2}
    Ops = {"publish", "health"}
    FaultKinds = {"expire", "drop"}
    MaxFaults = 2
INVARIANTS
    CancelledDialLeavesNothing
