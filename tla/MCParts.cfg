CONSTANTS
    CommandLines <- SmallLines
    DefaultConfig <- SmallDefaults
    Uint16 = 4
    Uint32 = 5
    SizeT = 256
    MapLimit = 100
    SlotHeaderSize = 3
    MAX_FRAME_SIZE = 6
    CacheLine = 4
    U64 <- MCU64
    U32 <- MCU32
    U16 <- MCU16
    Formats <- MCFormats
    Threads <- MCThreads
    BUF_SIZE = 5
    Lengths = {0, 1, 4, 5}
    MaxLines = 2
SPECIFICATION PartsSpec
INVARIANTS
    SlotsMapped
    MappingReleased
    RoundTrip
    NetworkOrder
    BufferBounds
    LinesTerminated
    OpenedBeforeUse
    SameOrder
