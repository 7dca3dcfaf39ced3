SPECIFICATION CacheSpec
CONSTANTS
    Sensors = {cam}
    Gnss = {gps}
    ImuStamps <- MCImuStamps
    SensorStamps <- MCSensorStamps
    Offsets <- MCOffsets
    Periods <- MCPeriods
    Window = 6
    KeepTime = 4
    InitWindow = 9
    HistCap = 1
    WheelEnabled = TRUE
    GtStamps <- NoGroundTruth
    GtReach = 3
    Order = 3
    DtExp = 0
    Queries = 1
CHECK_DEADLOCK FALSE
INVARIANTS
    CacheTypeOK
    WindowPolynomialCorrect
    EstimateFitted
