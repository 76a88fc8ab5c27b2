CONSTANTS
    OctetBits = 2
    V4Len = 2
    V6Len = 4
    MaxPort = 2
    MaxUint = 8
    NoText = NoText
    NoFilter = NoFilter
    NoPkt = NoPkt
    Description <- MCDescription
    Packet <- MCPacket
SPECIFICATION Spec
INVARIANTS TypeOK MatchesAsDescribed
