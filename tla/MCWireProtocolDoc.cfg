CONSTANTS
    U64 <- MCU64
    U32 <- MCU32
    U16 <- MCU16
    Formats <- MCFormats
SPECIFICATION WireSpec
INVARIANT
    DocumentedHeaderSize
