SPECIFICATION FairSpec
CONSTANTS
    g1 = g1
    g2 = g2
    NoCaller = nobody
    Threshold = 2
    Caller = {g1, g2}
    Ops = {"publish", "health", "close"}
    FaultKinds = {"dial", "channel", "expire", "drop"}
    MaxFaults = 4
INVARIANTS
    TypeOK
    NeverUsesNil
    OneSession
    BreakerCountsFailures
    OpenOnlyWithoutSession
    IInv
PROPERTIES
    CallsReturn
    SessionComesBack
