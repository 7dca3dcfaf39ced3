SPECIFICATION Spec
CONSTANTS
    ext = ext
    dt = dt
    Calibrated <- MCCalibrated
    CalibDim <- MCCalibDim
    Clones = {c1, c2, c3}
    Landmarks = {f1, f2}
    Imu = imu
    Trans = trans
INVARIANT
    ClonesKeepToThemselves
