SPECIFICATION FallSpec
CONSTANTS
    AccMax = 16
    AccLimit = 30
    GyroMax = 20
    GyroLimit = 3
    AccSamples <- MCAcc
    GyroSamples <- MCGyro
    TickMod = 8
    Gap = 3
    SemMax = 2
    MaxTime = 24
PROPERTY
    HardestImpactIsAFall
