SPECIFICATION FairSpec
CONSTANTS
    Tokens = {t1, t2, t3}
    PacketTypes = 4
    MaxConcurrency = 3
INVARIANT TypeOK
INVARIANT KeptIsServed
INVARIANT NoLockCycle
INVARIANT KeysFollowSockets
PROPERTY DisconnectCompletes
PROPERTY AddClientCompletes
CHECK_DEADLOCK FALSE
