SPECIFICATION Spec
CONSTANTS
    Clients = {c1, c2, c3}
    Sessions = {s1}
    MaxClientCount = 2
    IoThreads = 2
INVARIANT WithinLimit
CHECK_DEADLOCK FALSE
