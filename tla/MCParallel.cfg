SPECIFICATION AllSpec
CONSTANTS
    Element <- FourElements
    Whole <- NoInteger
    Keys <- SomeKeys
    hardware_concurrency = {0, 2, 3}
    UINT_MAX = 1000
    Vectors <- SomeVectors
    hardware_threads = 3
    max_batch_size = 3
    default_size = 2
    min_per_thread = 2
INVARIANTS
    ListsSorted
    SomebodyWorks
    LimitKept
    Reclaimed
    RightAnswers
    NoTaskLeft
PROPERTIES
    AllReturn
