SPECIFICATION Spec
CONSTANTS
    Uart3Found = TRUE
    BrightSteps = 2
    AccMax = 16
    AccLimit = 20
    GyroMax = 20
    GyroLimit = 3
    AccSamples <- MCAcc
    GyroSamples <- MCGyro
    TickMod = 4
    Gap = 2
    SemMax = 2
    MaxTime = 8
PROPERTIES
    Spaced
    SuppressedIsRepeat
    AlarmBlinks
    HelpShown
