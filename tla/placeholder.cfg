SPECIFICATION FairSpec
CONSTANTS
    r1 = r1
    r2 = r2
    g1 = g1
    v1 = v1
    v2 = v2
    NoFile = noFile
    Replica = {r1, r2}
    Reader = {g1}
    Image = {v1, v2}
    Objects = 2
    FaultKinds = {"s3", "unsure", "restart"}
    MaxFaults = 2
INVARIANTS
    TypeOK
    CleanPrewarmStores
    StreamsNeverBlank
    IInv
PROPERTIES
    PrewarmEnds
CHECK_DEADLOCK FALSE
