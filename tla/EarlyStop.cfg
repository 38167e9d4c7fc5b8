\* A stop may come before ADQThread picks up its start call.
SPECIFICATION Spec
CONSTANTS
    MaxRuns = 2
    TimedRuns = {TRUE, FALSE}
    ConfigMayFail = TRUE
    StartMayFail = TRUE
    StopMayFail = FALSE
    DeviceMayFail = TRUE
    ProcessorMayFail = TRUE
    ScopeUpdates = TRUE
    ClicksSettled = TRUE
    DelaySettled = TRUE
    StopsSettled = FALSE
INVARIANT ResetBeforeStart
\* The program waits for the user once every acquisition is over.
CHECK_DEADLOCK FALSE
