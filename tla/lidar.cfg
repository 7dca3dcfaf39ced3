SPECIFICATION LidarSpec
CONSTANTS
    Sensors = {ldr}
    Gnss = {gps}
    ImuStamps <- MCImuStamps
    SensorStamps <- MCSensorStamps
    Offsets <- MCOffsets
    Periods <- MCPeriods
    Window = 6
    KeepTime = 3
    InitWindow = 3
    HistCap = 0
    WheelEnabled = FALSE
    GtStamps <- NoGroundTruth
    GtReach = 3
    Order = 1
    DtExp = 0
    Queries = 0
    Lidar = ldr
    Delay = 1
    Patience = 6
CHECK_DEADLOCK FALSE
INVARIANTS
    LidarTypeOK
    ExitsHaveACause
PROPERTIES
    AnchorFollows
    NoScanLost
