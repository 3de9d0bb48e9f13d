SPECIFICATION Spec
CONSTANTS
    BlockSize = 64
    ChunkSizes <- MCChunkSizes
    MaxLength = 200
INVARIANT TypeOK
INVARIANT DigestsPaddedMessage
INVARIANT NothingLost
CHECK_DEADLOCK FALSE
