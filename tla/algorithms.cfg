CONSTANTS
    IdBytes = 2
    Byte = {0, 1, 2, 3}
    ByteXor <- BitXor
    MaxClosest = 2
    WordSize = 1048576
    Base = 1000
    MaxOps = 3
    MaxText = 4
SPECIFICATION Spec
CHECK_DEADLOCK FALSE
INVARIANTS
    BencodeRoundTrips
    DecoderStaysInside
    SentMessagesReadBack
    ClosestNodesFirst
