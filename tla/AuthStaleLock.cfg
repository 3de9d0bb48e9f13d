SPECIFICATION Spec
CONSTANTS
    NoValue = NoValue
    Tokens = {t1, t2}
    Ids = {i1, i2}
    Profiles = {p1}
    IoThreads = 1
INVARIANT LockHasOwner
