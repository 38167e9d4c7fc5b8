\* Calibrations among ordinary runs, with every failure.
SPECIFICATION CalibrationFairSpec
CONSTANTS
    MaxRuns = 2
    TimedRuns = {TRUE}
    ConfigMayFail = TRUE
    StartMayFail = TRUE
    StopMayFail = TRUE
    DeviceMayFail = TRUE
    ProcessorMayFail = TRUE
    ScopeUpdates = TRUE
    ClicksSettled = FALSE
    DelaySettled = TRUE
    StopsSettled = FALSE
    StageCounts <- MCStageCounts
INVARIANTS CalibrationTypeOK HeardOnce StageInRange
PROPERTY CalibrationEnds
\* The program waits for the user once every acquisition is over.
CHECK_DEADLOCK FALSE
