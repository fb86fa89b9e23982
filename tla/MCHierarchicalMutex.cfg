SPECIFICATION Spec
CONSTANTS
    t1 = t1
    t2 = t2
    t3 = t3
    m1 = m1
    m2 = m2
    m3 = m3
    m4 = m4
    Thread <- Threads
    Mutex <- Mutexes
    hierarchy_value <- Levels
    ULONG_MAX = 3
    NoThread = NoThread
SYMMETRY Symmetry
INVARIANTS
    LevelsTracked
    NoCircularWait
    GuardsOwn
