SPECIFICATION GnssSpec
CONSTANTS
    Sensors = {}
    Gnss = {gps}
    ImuStamps <- MCImuStamps
    SensorStamps <- MCSensorStamps
    Offsets <- MCOffsets
    Periods <- MCPeriods
    Window = 5
    KeepTime = 3
    InitWindow = 6
    HistCap = 1
    WheelEnabled = TRUE
    GtStamps <- NoGroundTruth
    GtReach = 3
    Order = 1
    DtExp = 0
    Queries = 1
    Needed = 1
CHECK_DEADLOCK FALSE
INVARIANTS
    GnssTypeOK
    InitAssertionsHold
PROPERTIES
    NoMeasurementLost
    InsideIsTried
