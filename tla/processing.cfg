SPECIFICATION ReadSpec
CONSTANTS
    a1 = a1
    d1 = d1
    w1 = w1
    w2 = w2
    t1 = t1
    t2 = t2
    r1 = r1
    Original = original
    NoEvent = noEvent
    Avatar = {a1}
    Deleter = {d1}
    Reader = {r1}
    Worker = {w1, w2}
    Thumb = {t1, t2}
    MaxRetry = 1
    Broken = {}
    FaultKinds = {"s3", "db", "cancel", "abort", "publish", "lost"}
    MaxFaults = 2
    Owner <- OneOwner
    Actor <- OneActor
INVARIANTS
    ReadTypeOK
    CompletedHasThumbs
    JobInv
PROPERTIES
    ReadFailsOnlyIfDeleted
    KeepsThumbnails
SYMMETRY ReplicasAndSizes
CHECK_DEADLOCK FALSE
