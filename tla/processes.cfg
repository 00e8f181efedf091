SPECIFICATION FairSpec
CONSTANTS
    s1 = s1
    w1 = w1
    q1 = q1
    q2 = q2
    NoServer = noServer
    NoMessage = noMessage
    Server = {s1}
    Worker = {w1}
    Request = {q1, q2}
    OpOf <- OneOfEach
    Poison = {q1}
    Configs <- SomeConfigs
    Providers = 2
    MaxConns = 1
    MaxTTL = 1
    MaxRetries = 1
    FaultKinds = {"startup", "db", "publish", "job", "timeout", "channel", "drop", "serverDrop", "signal", "crash"}
    MaxFaults = 1
INVARIANTS
    TypeOK
    NothingLeftOpen
    DroppedOnlyWithoutDelay
    AnsweredIsKept
    JobsKeepThePool
    IInv
PROPERTIES
    AllComeUp
    SignalledExits
    HalfWorkerEnds
    AnsweredIsSettled
