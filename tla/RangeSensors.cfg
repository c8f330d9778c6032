SPECIFICATION Spec
CONSTANTS
    N = 3
    Dist = {50, 1050, 8190}
    MIN_DISTANCE = 100
    MAX_DISTANCE = 2000
    MAX_VIBRATION = 100
    MIN_VIBRATION = 0
    MaxFaults = 2
INVARIANTS
    TypeOK
    FaultsSpreadForward
    OwnSensor
    OneFaultNeverSwaps
    NoStaleVibration
    CloserIsStronger
