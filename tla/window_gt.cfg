SPECIFICATION Spec
CONSTANTS
    Sensors = {}
    Gnss = {}
    ImuStamps <- MCImuStamps
    SensorStamps <- MCSensorStamps
    Offsets <- MCOffsets
    Periods <- MCPeriods
    Window = 12
    KeepTime = 10
    InitWindow = 12
    HistCap = 1
    WheelEnabled = TRUE
    GtStamps <- MCGtStamps
    GtReach = 3
CHECK_DEADLOCK FALSE
INVARIANT NoSameTimeClone
