SPECIFICATION Spec
CONSTANTS
    NoValue = NoValue
    Tokens = {t1, t2}
    Ids = {i1}
    Profiles = {p1}
    IoThreads = 2
INVARIANT SingleLogin
