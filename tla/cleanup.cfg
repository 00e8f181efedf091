SPECIFICATION Spec
CONSTANTS
    a1 = a1
    a2 = a2
    d1 = d1
    d2 = d2
    d3 = d3
    w1 = w1
    w2 = w2
    t1 = t1
    t2 = t2
    Original = original
    NoEvent = noEvent
    Avatar = {a1}
    Deleter = {d1, d2}
    Worker = {w1, w2}
    Thumb = {t1, t2}
    MaxRetry = 1
    Broken = {}
    FaultKinds = {"publish", "abort", "db"}
    MaxFaults = 3
    Owner <- OneOwner
    Actor <- OneActor
INVARIANTS
    FreshDeleteLeavesNothing
SYMMETRY ConsumersAndRequests
CHECK_DEADLOCK FALSE
