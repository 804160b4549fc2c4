SPECIFICATION Spec
CONSTANTS
    Base = "fmem"
    First = 0
    Limit = 4
    Requests = {1, 3, 5, 65535}
    MaxGrants = 2
    StackSeg = 3
    FakeSeg = 4
    KernelEnd = 7
    MaxOthers = 1
INVARIANTS
    HeldSound
    KernelCoversHeld
    LeaksAreLow
PROPERTY RetryEnds
