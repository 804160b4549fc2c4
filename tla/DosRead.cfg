CONSTANTS
    Chunk = 3
    Word = 16
    NearWants = {0, 1, 4, 7}
    FarWants = {0, 1, 3, 4, 9, 15}
    Errors = {4}
    MaxBytes = 12
SPECIFICATION Spec
INVARIANTS
    NoByteLost
PROPERTIES
    ImplementsDosStream
    ReadEnds
