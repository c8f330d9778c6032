SPECIFICATION ParserSpec
CONSTANTS
    Byte <- MCByte
    MAX_BUFFER_SIZE = 7
INVARIANTS
    StoresInBounds
    DeliveredTextShape
PROPERTIES
    TextReplaced
    OnlyOverflowWedges
