SPECIFICATION Spec
CONSTANTS
    SynLen = 2
    SmsLen = 2
    USART1_REC_LEN = 2
    Uart3Found = TRUE
    Uart4Found = TRUE
    FallPossible = TRUE
    MaxJobs = 1
    MaxLog = 1
CHECK_DEADLOCK FALSE
INVARIANTS
    TypeOK
    Exclusive
    SmsNotMixed
    ReceivesUntilFirstSend
    WholeOrRefused
PROPERTY
    JobsEnd
