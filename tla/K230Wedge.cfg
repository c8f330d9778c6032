SPECIFICATION ParserSpec
CONSTANTS
    Byte <- MCByte
    MAX_BUFFER_SIZE = 7
INVARIANT
    HeaderTwoAccepted
