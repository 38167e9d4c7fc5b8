\* One undisturbed calibration of two stages.
SPECIFICATION CalibrationSpec
CONSTANTS
    MaxRuns = 1
    TimedRuns = {TRUE}
    ConfigMayFail = FALSE
    StartMayFail = FALSE
    StopMayFail = FALSE
    DeviceMayFail = FALSE
    ProcessorMayFail = FALSE
    ScopeUpdates = FALSE
    ClicksSettled = FALSE
    DelaySettled = TRUE
    StopsSettled = TRUE
    StageCounts <- MCTwoStages
INVARIANT AllFinished
\* The program waits for the user once every acquisition is over.
CHECK_DEADLOCK FALSE
