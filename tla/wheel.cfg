SPECIFICATION WheelSpec
CONSTANTS
    Sensors = {}
    Gnss = {gps}
    ImuStamps <- MCImuStamps
    SensorStamps <- MCSensorStamps
    Offsets <- MCOffsets
    Periods <- MCPeriods
    Window = 6
    KeepTime = 3
    InitWindow = 8
    HistCap = 1
    WheelEnabled = TRUE
    GtStamps <- NoGroundTruth
    GtReach = 3
    WheelStamps <- MCWheelStamps
    Keep = 8
    MaxReadings = 4
CHECK_DEADLOCK FALSE
INVARIANTS
    WheelTypeOK
    SelectionSpans
    TurnsBackAtKeyframes
PROPERTIES
    MotionUsedOnce
    ChainReaches
