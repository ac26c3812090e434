SPECIFICATION Spec
CONSTANTS
    Byte = {0, 1, 170, 246}
    Header <- HEADER
    Crc8 <- crc8
    MaxFrameLen = 5
    MaxChunk = 5
    MaxFed = 9
INVARIANTS
    TypeOK
    Remainder
    OnlyFrames
    NothingMissed
    Bounded
