SPECIFICATION FairSpec
CONSTANTS
    b1 = b1
    b2 = b2
    Bridges = {b1, b2}
    Users <- TwoLoops
    KindsOf <- Kinds
    Rates = {2, 3}
    TicksPerSecond = 1
    Sizes = {1, 3}
    InitialCount = 1
    MaxCount = 3
INVARIANTS NeverFaster PoolConserved OnStopOnce NoHalfBridge
PROPERTIES EveryoneGoes StopEndsBridge
