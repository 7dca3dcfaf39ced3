SPECIFICATION CpiSpec
CONSTANTS
    Sensors = {cam}
    Gnss = {gps}
    ImuStamps <- MCImuStamps
    SensorStamps <- MCSensorStamps
    Offsets <- MCOffsets
    Periods <- MCPeriods
    Window = 7
    KeepTime = 3
    InitWindow = 9
    HistCap = 1
    WheelEnabled = TRUE
    GtStamps <- NoGroundTruth
    GtReach = 3
CHECK_DEADLOCK FALSE
INVARIANTS
    CpiTypeOK
    AnchorsResolve
    ClonesAnchorThemselves
PROPERTY UsableEntriesStay
