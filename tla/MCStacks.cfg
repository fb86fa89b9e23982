SPECIFICATION StacksSpec
CONSTANTS
    t1 = t1
    t2 = t2
    t3 = t3
    a1 = a1
    a2 = a2
    n1 = n1
    n2 = n2
    n3 = n3
    v1 = v1
    v2 = v2
    NoAddress = NoAddress
    Nothing = Nothing
    NewElement = v1
    NoThread = NoThread
    max_hazard_pointers = 2
    Thread <- ThreeThreads
    Address <- TwoAddresses
    ListNode <- ThreeNodes
    max_size = 3
    Value <- TwoValues
SYMMETRY Symmetry
INVARIANTS
    SlotsOwned
    ThrowsOnlyIfTooMany
    NoUseAfterFree
    NodesAccounted
    CountedNodesSafe
PROPERTIES
    ImplementsStack
    OthersImplementStack
