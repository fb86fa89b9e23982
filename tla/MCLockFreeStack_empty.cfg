SPECIFICATION Spec
CONSTANTS
    t1 = t1
    t2 = t2
    n1 = n1
    n2 = n2
    n3 = n3
    NoNode = NoNode
    Nothing = Nothing
    Thread <- TwoThreads
    Node <- ThreeNodes
    Value = {v1}
SYMMETRY Symmetry
INVARIANTS
    PopOfEmptyIsSafe
