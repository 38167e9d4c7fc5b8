\* One run of every configuration, with every failure and every interleaving.
SPECIFICATION CliFairSpec
CONSTANTS
    MaxRuns = 1
    TimedRuns = {TRUE}
    ConfigMayFail = TRUE
    StartMayFail = TRUE
    StopMayFail = TRUE
    DeviceMayFail = TRUE
    ProcessorMayFail = TRUE
    ScopeUpdates = FALSE
    ClicksSettled = FALSE
    DelaySettled = FALSE
    StopsSettled = FALSE
    DeviceMissing = TRUE
    Durations = {TRUE, FALSE}
    SaveModes <- MCAllModes
INVARIANTS CliTypeOK SaverOutlivesRecords
PROPERTY RunExits
\* The program ends, or a refused start leaves the event loop idle.
CHECK_DEADLOCK FALSE
