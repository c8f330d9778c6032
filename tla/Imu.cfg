SPECIFICATION Spec
CONSTANTS
    Byte <- MCByte
    TypeOf <- MCTypeOf
    FrameLen = 4
    HeadByte = 1
    Modulus = 3
    WIT_DATA_BUFF_SIZE = 5
    MaxFrames = 2
INVARIANTS
    SampleFlagged
    Fresh
    TornForward
PROPERTIES
    FindsExactlyTheFrames
    SampleArrives
