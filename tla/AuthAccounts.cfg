SPECIFICATION FairSpec
CONSTANTS
    NoValue = NoValue
    Tokens = {t1, t2}
    Ids = {i1}
    Profiles = {p1, p2}
    IoThreads = 2
INVARIANT PasswordPresent
INVARIANT AccountTornOnlyByEnd
PROPERTY ImplementsRegistry
PROPERTY RequestAnswered
