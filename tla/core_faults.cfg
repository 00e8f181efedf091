SPECIFICATION Spec
CONSTANTS
    a1 = a1
    a2 = a2
    d1 = d1
    d2 = d2
    d3 = d3
    w1 = w1
    w2 = w2
    t1 = t1
    t2 = t2
    Original = original
    NoEvent = noEvent
    Avatar = {a1}
    Deleter = {d1, d2}
    Worker = {w1, w2}
    Thumb = {t1}
    MaxRetry = 0
    Broken = {}
    FaultKinds = {"s3", "db", "publish", "lost", "unsure", "abort", "cancel", "disconnect", "crash"}
    MaxFaults = 2
    Owner <- OneOwner
    Actor <- OneActor
INVARIANTS
    TypeOK
    AckedAvatarServable
    DeleteIsFinal
    IInv
    KeptFromInsertOn
PROPERTIES
    ImplementsPromise
SYMMETRY ConsumersAndRequests
CHECK_DEADLOCK FALSE
