SPECIFICATION Spec
CONSTANTS
    Options <- MCOptions
    ComLengths <- MCComLengths
    MzPrograms <- MCMzPrograms
    StubSizes <- MCStubSizes
INVARIANT NeArenaBelowStack
CHECK_DEADLOCK FALSE
