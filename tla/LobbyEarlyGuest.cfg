SPECIFICATION Spec
CONSTANTS
    Clients = {c1, c2}
    Sessions = {s1}
    MaxClientCount = 2
    IoThreads = 2
INVARIANT GuestsAfterActivation
CHECK_DEADLOCK FALSE
