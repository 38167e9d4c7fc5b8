\* Every failure and no timing assumption at all.
SPECIFICATION FairSpec
CONSTANTS
    MaxRuns = 2
    TimedRuns = {TRUE, FALSE}
    ConfigMayFail = TRUE
    StartMayFail = TRUE
    StopMayFail = TRUE
    DeviceMayFail = TRUE
    ProcessorMayFail = TRUE
    ScopeUpdates = TRUE
    ClicksSettled = FALSE
    DelaySettled = FALSE
    StopsSettled = FALSE
INVARIANTS ControlInvariant StopIsAnswered LoopStateOwnership FinishedWhenReady
PROPERTIES StoppingEnds ScopeReturns
\* The program waits for the user once every acquisition is over.
CHECK_DEADLOCK FALSE
