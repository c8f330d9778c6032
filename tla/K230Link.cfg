SPECIFICATION Spec
CONSTANTS
    Byte <- MCByte
    MAX_BUFFER_SIZE = 32
    Texts <- LongTexts
    Objects <- MCObjects
    Uart4Found = TRUE
    MsgRoom = 3
    AI_MSG_QUEUE_SIZE = 1
    MaxFrames = 3
    MaxLoss = 2
CHECK_DEADLOCK FALSE
INVARIANTS
    InStepParsed
    NoTextForgotten
PROPERTY
    TextAnnounced
