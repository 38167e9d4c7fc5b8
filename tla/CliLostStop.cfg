\* The stop of the run may be lost.
SPECIFICATION CliFairSpec
CONSTANTS
    MaxRuns = 1
    TimedRuns = {TRUE}
    ConfigMayFail = TRUE
    StartMayFail = TRUE
    StopMayFail = FALSE
    DeviceMayFail = TRUE
    ProcessorMayFail = TRUE
    ScopeUpdates = FALSE
    ClicksSettled = FALSE
    DelaySettled = FALSE
    StopsSettled = FALSE
    DeviceMissing = FALSE
    Durations = {TRUE}
    SaveModes <- MCAccepted
PROPERTY FinishedRunExits
\* The program ends, or a refused start leaves the event loop idle.
CHECK_DEADLOCK FALSE
