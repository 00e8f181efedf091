SPECIFICATION Spec
CONSTANTS
    a1 = a1
    a2 = a2
    d1 = d1
    d2 = d2
    d3 = d3
    w1 = w1
    w2 = w2
    t1 = t1
    t2 = t2
    Original = original
    NoEvent = noEvent
    Avatar = {a1}
    Deleter = {d1}
    Worker = {w1}
    Thumb = {t1}
    MaxRetry = 1
    Broken = {}
    FaultKinds = {"cancel"}
    MaxFaults = 1
    Owner <- OneOwner
    Actor <- OneActor
INVARIANT NoLostJob
CHECK_DEADLOCK FALSE
