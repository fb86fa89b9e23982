SPECIFICATION FairSpec
CONSTANTS
    Programs <- AllPrograms
    number_of_items = 8
    loop_count = 2
INVARIANTS
    Outcomes
    NoDataRace
PROPERTIES
    Ends
