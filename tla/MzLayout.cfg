CONSTANTS
    Para = 4
    Max16 = 27
    Chunk = 24
    MaxSegs = 5
    Reach = 16
    Files <- MCFiles
    Programs <- MCPrograms
    Offsets = {3, 18}
SPECIFICATION Spec
INVARIANTS
    
    FlatRelocatesAll
    SitesCovered
CHECK_DEADLOCK FALSE
