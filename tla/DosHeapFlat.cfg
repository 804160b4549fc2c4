SPECIFICATION Spec
CONSTANTS
    Base = "ss"
    First = 2
    Limit = 8
    Requests = {0, 1, 2, 4, 7, 65535}
    MaxGrants = 3
    StackSeg = 0
    FakeSeg = 4096
    KernelEnd = 0
    MaxOthers = 0
INVARIANTS
    TypeOK
    HeldSound
    TruthfulRefusal
PROPERTY ImplementsDosMemory
