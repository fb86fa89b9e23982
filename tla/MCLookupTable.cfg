SPECIFICATION Spec
CONSTANTS
    t1 = t1
    t2 = t2
    k1 = k1
    k2 = k2
    k3 = k3
    v1 = v1
    v2 = v2
    Nothing = Nothing
    NoThread = NoThread
    Thread <- TwoThreads
    Key <- ThreeKeys
    Value <- TwoValues
    num_buckets = 2
    hasher <- Hash
SYMMETRY Symmetry
INVARIANTS
    TypeOK
    OnePairPerKey
    EntryValid
    NoCircularWait
PROPERTIES
    ImplementsMap
