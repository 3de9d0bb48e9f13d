SPECIFICATION FairSpec
CONSTANTS
    Clients = {c1, c2, c3}
    Sessions = {s1}
    MaxClientCount = 1
    IoThreads = 2
INVARIANT TypeOK
INVARIANT ActiveKeysPersist
INVARIANT NeverTorn
INVARIANT ListedHasHost
INVARIANT CacheCountMatches
PROPERTY ImplementsDirectory
PROPERTY FullTakesNobody
PROPERTY LocksGivenBack
PROPERTY ActivatedGetsListed
CHECK_DEADLOCK FALSE
