SPECIFICATION FairSpec
CONSTANTS
    t1 = t1
    t2 = t2
    t3 = t3
    v1 = v1
    v2 = v2
    Thread <- ThreeThreads
    Nothing = Nothing
    Value <- Values
    MaxLen = 3
    MaxFaults = 1
INVARIANTS
    TypeOK
    EnoughWoken
PROPERTIES
    ImplementsFifo
    WaiterServed
