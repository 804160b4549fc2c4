CONSTANTS
    Kinds = {"com", "mz", "ne_psp", "ne_code"}
    ArgLists <- MCArgLists
    DataLen = 256
    TopPara = 4095
SPECIFICATION Spec
INVARIANTS
    TailDelivered
    DataKept
    ReturnsToExit
