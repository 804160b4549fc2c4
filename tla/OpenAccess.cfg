CONSTANTS
    Ids = {n1, n2}
    Buffers = {b1, b2}
    DataSegs = {"ss"}
    AnyRename = FALSE
    MaxInodes = 2
    MaxSize = 1
    MaxFds = 2
SPECIFICATION Spec
INVARIANT
    AccessKept
