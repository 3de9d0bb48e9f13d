SPECIFICATION FairSpec
CONSTANTS
    MaxPosts = 4
    Chunks = 2
    MaxConcurrency = 2
INVARIANT TypeOK
INVARIANT NoneSkipped
INVARIANT NoStall
INVARIANT InOrderUnlessReissued
PROPERTY Drains
CHECK_DEADLOCK FALSE
