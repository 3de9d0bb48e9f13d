SPECIFICATION Spec
SYMMETRY Symmetry
CONSTANTS
    NoValue = NoValue
    Tokens = {t1, t2}
    Ids = {i1, i2}
    Profiles = {p1}
    IoThreads = 2
INVARIANT TypeOK
INVARIANT ClientKeyTracksConnection
INVARIANT SingleLoginUnlessContended
INVARIANT SessionLocked
INVARIANT LockExplained
PROPERTY DisconnectReleasesLogin
