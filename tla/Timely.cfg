\* Every failure; starts and stops keep to the timing assumptions.
SPECIFICATION FairSpec
CONSTANTS
    MaxRuns = 3
    TimedRuns = {TRUE, FALSE}
    ConfigMayFail = TRUE
    StartMayFail = TRUE
    StopMayFail = TRUE
    DeviceMayFail = TRUE
    ProcessorMayFail = TRUE
    ScopeUpdates = TRUE
    ClicksSettled = TRUE
    DelaySettled = FALSE
    StopsSettled = TRUE
INVARIANTS TypeOK RecordsBetweenStartAndFinish ProcessorsNotShared ReadyIsQuiet BuffersReturned
PROPERTIES LifecycleSpec LoopIsEntered
\* The program waits for the user once every acquisition is over.
CHECK_DEADLOCK FALSE
