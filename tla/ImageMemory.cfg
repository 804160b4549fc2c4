SPECIFICATION Spec
CONSTANTS
    Options <- MCOptions
    ComLengths <- MCComLengths
    MzPrograms <- MCMzPrograms
    StubSizes <- MCStubSizes
INVARIANTS
    TypeOK
    ComBudgetSuffices
    ArenaPlaced
    AddedAboveStackTop
    ArenaBelowStack
PROPERTY ComScratchPolicy
CHECK_DEADLOCK FALSE
