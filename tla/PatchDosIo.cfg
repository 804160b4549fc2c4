SPECIFICATION Spec
CONSTANTS
    Inputs <- MCInputs
    StubBytes = 178
    MaxText = 430
INVARIANTS
    TypeOK
    PatchesDisjoint
    OthersUntouched
    SitesCallTheirAdapter
    AdaptersApart
    DosCallsAccounted
    RawModeWhenNeeded
CHECK_DEADLOCK FALSE
