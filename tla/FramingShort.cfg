SPECIFICATION Spec
CONSTANTS
    Base = 8
    ReadSizes = {1, 3, 9, 11, 12, 13, 25}
    Magic <- MCMagic
    Payloads <- MCPayloads
    Types = {1, 2}
    Handled = {1}
    Garbage <- MCZeroed
    MaxPackets = 2
INVARIANT NoneInsufficient
CHECK_DEADLOCK FALSE
