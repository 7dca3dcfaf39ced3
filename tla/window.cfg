SPECIFICATION Spec
CONSTANTS
    Sensors = {cam}
    Gnss = {gps}
    ImuStamps <- MCImuStamps
    SensorStamps <- MCSensorStamps
    Offsets <- MCOffsets
    Periods <- MCPeriods
    Window = 10
    KeepTime = 3
    InitWindow = 12
    HistCap = 1
    WheelEnabled = TRUE
    GtStamps <- NoGroundTruth
    GtReach = 3
CHECK_DEADLOCK FALSE
INVARIANTS
    TypeOK
    CaughtUp
    CloneSpacing
    WindowBound
    NoFatalExit
    KeyframesHeld
PROPERTIES
    KeyframesKept
    WindowPromised
