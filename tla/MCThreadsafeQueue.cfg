SPECIFICATION FairSpec
CONSTANTS
    p1 = p1
    p2 = p2
    c1 = c1
    c2 = c2
    n1 = n1
    n2 = n2
    n3 = n3
    v1 = v1
    v2 = v2
    NoNode = NoNode
    NoThread = NoThread
    Nothing = Nothing
    Producer <- TwoProducers
    Consumer <- TwoConsumers
    Node <- ThreeNodes
    Value <- TwoValues
    Pushes <- OwnValue
    PopOp <- BothPops
INVARIANTS
    TypeOK
    MemorySafe
PROPERTIES
    ImplementsFifo
    PushesGoOn
    ServedByLaterPush
