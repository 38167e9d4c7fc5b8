---------------------------- MODULE CommandLine ----------------------------
(***************************************************************************)
(* The headless mode: CLIApplication::start requests one acquisition, main *)
(* ignores what start returns and enters the event loop, READY leaves it,  *)
(* and the application object is destroyed member by member while the      *)
(* record loop of AcquisitionControl may still be on its way out.          *)
(***************************************************************************)
EXTENDS AcquisitionControl

CONSTANTS
    DeviceMissing, \* the control unit may find no device
    Durations,     \* TRUE: the configuration may set one, FALSE: it may be 0
    SaveModes      \* file save modes the configuration may ask for

FileSaveModes == {"DISABLED", "BINARY", "BINARY_VERBOSE", "BUFFERED_BINARY",
                  "BUFFERED_BINARY_VERBOSE"}

ASSUME OneRunAssumption == MaxRuns > 0
ASSUME DeviceMissingAssumption == DeviceMissing \in BOOLEAN
ASSUME DurationsAssumption == Durations \subseteq BOOLEAN
ASSUME SaveModesAssumption == SaveModes \subseteq FileSaveModes

VARIABLES
    app,      \* where main and the destructors of the application stand
    saveMode, \* file save mode of the loaded configuration
    saver     \* the record processor appended to the digitizer

appVars == <<app, saveMode, saver>>
cliVars == <<vars, appVars>>

AppStates == {"start", "refused", "running", "leaving", "saver_freed",
              "unit_deleted", "join_write", "join_wait", "exited"}

CliTypeOK ==
    /\ TypeOK
    /\ app \in AppStates
    /\ saveMode \in SaveModes
    /\ saver \in {"none", "BINARY", "BINARY_VERBOSE"}

CliInit ==
    /\ Init
    /\ app = "start"
    /\ saveMode \in SaveModes
    /\ saver = "none"

---------------------------------------------------------------------------
(* CLIApplication::start.                                                  *)

\* No device, no duration and the buffered writers make start return false.
StartRefused ==
    /\ app = "start"
    /\ \/ DeviceMissing
       \/ FALSE \in Durations
       \/ saveMode \in {"BUFFERED_BINARY", "BUFFERED_BINARY_VERBOSE"}
    /\ app' = "refused"
    /\ UNCHANGED <<vars, saveMode, saver>>

\* Mutant of SaverOf: each mode is taken as it is.
SaverOfUnchanged(mode) == mode

\* DISABLED falls through to BINARY.
SaverOf(mode) == IF mode = "DISABLED" THEN "BINARY" ELSE mode

StartAccepted ==
    /\ app = "start" /\ TRUE \in Durations
    /\ saveMode \notin {"BUFFERED_BINARY", "BUFFERED_BINARY_VERBOSE"}
    /\ app' = "running"
    /\ saver' = SaverOf(saveMode)
    /\ RunAcquisition
    /\ runs' = runs + 1
    /\ UNCHANGED <<delayTimer, runTimer, guiQueue, loopState, workerVars,
                   startCalls, device, processors, saveMode>>

---------------------------------------------------------------------------
(* main and the destructors.                                               *)

\* Mutant of FinishRun: the READY handler does not leave the event loop.
FinishRunStays ==
    /\ app = "running"
    /\ BecomeReady
    /\ app' = "running"
    /\ UNCHANGED <<saveMode, saver>>

\* The READY handler of start calls QApplication::exit.
FinishRun ==
    /\ app = "running"
    /\ BecomeReady
    /\ app' = "leaving"
    /\ UNCHANGED <<saveMode, saver>>

Destroys(from, to) == app = from /\ app' = to

\* ~CLIApplication destroys fileSaver; the digitizer still lists it.
FreeSaver ==
    /\ Destroys("leaving", "saver_freed")
    /\ UNCHANGED <<vars, saveMode, saver>>

\* ~ScopeApplication deletes the control unit before its members go.
DeleteUnit ==
    /\ Destroys("saver_freed", "unit_deleted")
    /\ UNCHANGED <<vars, saveMode, saver>>

\* ~Digitizer: joinThreads calls stop(), quits the thread and waits for it.
JoinRead ==
    /\ Destroys("unit_deleted",
                IF loopState = "ACTIVE" THEN "join_write" ELSE "join_wait")
    /\ UNCHANGED <<vars, saveMode, saver>>

JoinWrite ==
    /\ Destroys("join_write", "join_wait")
    /\ loopState' = "STOPPING"
    /\ UNCHANGED <<guiVars, guiQueue, workerVars, startCalls, device,
                   processors, saveMode, saver>>

Joined ==
    /\ Destroys("join_wait", "exited")
    /\ workerPc = "idle"
    /\ UNCHANGED <<vars, saveMode, saver>>

---------------------------------------------------------------------------

\* The GUI thread runs the digitizer's handlers between start and exit.
Handler ==
    /\ app = "running"
    /\ StartStep \/ LaunchStep \/ StopStep \/ FinishProcessors \/ ResetLoop
    /\ UNCHANGED appVars

Dispatch(event) == app = "running" /\ event /\ UNCHANGED appVars

Destruction == FreeSaver \/ DeleteUnit \/ JoinRead \/ JoinWrite \/ Joined

\* The thread is gone once it has been joined.
Worker == app # "exited" /\ WorkerNext /\ UNCHANGED appVars

CliNext ==
    \/ StartRefused \/ StartAccepted
    \/ Handler \/ Dispatch(EventStep) \/ FinishRun
    \/ Destruction
    \/ Worker

CliSpec == CliInit /\ [][CliNext]_cliVars

\* As in AcquisitionControl; main and the destructors never pause.
CliFairSpec ==
    /\ CliSpec
    /\ WF_cliVars(StartRefused \/ StartAccepted) /\ WF_cliVars(Destruction)
    /\ SF_cliVars(Handler) /\ SF_cliVars(FinishRun)
    /\ SF_cliVars(Dispatch(DelayEnds)) /\ WF_cliVars(Dispatch(RunTimerEnds))
    /\ WF_cliVars(Dispatch(DeliverCall)) /\ WF_cliVars(Worker)

---------------------------------------------------------------------------
(* Properties.                                                             *)

UnitDeleted == app \in {"unit_deleted", "join_write", "join_wait", "exited"}

\* ADQThread has no record of the device in its hands.
NoRecord == workerPc \notin {"got"} \cup ProcessingPcs

LoopAtRest == workerPc = "idle" /\ loopState = "INACTIVE"

\* Until the start call is posted, and until it is taken up, the loop rests.
\* Nothing but the run timer can be heard of then.
LoopIsUnused ==
    /\ digState \in {"STARTING", "STABILIZING"} /\ guiPc # "activate" =>
           LoopAtRest /\ startCalls = 0 /\ guiQueue = <<>>
    /\ startCalls > 0 =>
           /\ LoopAtRest /\ startCalls = 1
           /\ \A i \in DOMAIN guiQueue : guiQueue[i] = "timeout"

\* The device runs from the end of the delay until StopDevice, and the
\* processors are open until they are finished, early stop or not.
DeviceIsOfRun ==
    /\ delayTimer => digState = "STABILIZING" /\ guiPc = "idle"
    /\ runTimer => device = "running" /\ guiPc \in {"idle", "activate"}
    /\ device = "running" =>
           \/ /\ digState = "ACTIVE"
              /\ guiPc \in {"idle", "stop_write", "stop_device"}
           \/ guiPc \in {"launched", "activate"}
    /\ guiPc \in {"launched", "activate"} => device = "running"
    /\ device = "stuck" => StopMayFail
    /\ processors = "open" <=> /\ digState \notin {"READY", "STARTING"}
                               /\ guiPc \notin {"reset", "ready"}

\* The stop overtook the start call and the device failed to stop: only then
\* a loop gets records although its acquisition is over.
LateRecords == device = "stuck" /\ ~StopsSettled

\* A loop that was told to stop is one whose device is being stopped.
StopIsOfRun ==
    /\ guiPc \notin {"idle", "configure"} =>
           digState \in {"STABILIZING", "ACTIVE", "STOPPING"}
    /\ guiPc \in {"launched", "activate"} =>
           digState = "STABILIZING" /\ loopState # "STOPPING"
    /\ guiPc = "stop_write" => loopState \in {"ACTIVE", "SERROR"}
    /\ guiPc = "check_serror" => digState # "STABILIZING"
    /\ loopState = "STOPPING" /\ guiPc = "idle" => device # "running"
    /\ workerPc = "post_inactive"
          \/ (\E i \in DOMAIN guiQueue : guiQueue[i] = "INACTIVE") =>
              /\ startCalls = 0 /\ loopState = "INACTIVE"
              /\ guiPc \notin {"launched", "activate"}
              /\ guiPc = "idle" => device # "running"
    /\ guiPc \in {"finish", "reset", "ready"} => NoRecord \/ LateRecords

\* A loop that is over for good: it has been entered and told its end.
LoopIsOver == startCalls = 0 /\ loopState \in {"INACTIVE", "SERROR"}

\* If no stop overtakes the start call, each is of a loop that was entered.
StopsAreOrdered ==
    StopsSettled =>
        /\ \/ guiPc \notin {"idle", "configure", "launched", "activate"}
           \/ guiQueue # <<>>
           => startCalls = 0
        /\ startCalls > 0 \/ loopState = "ACTIVE" =>
               /\ device = "running"
               /\ guiPc \in {"idle", "activate", "stop_write"}
        /\ guiPc \in {"finish", "reset", "ready"} => LoopIsOver

RunIsOn ==
    /\ digState # "READY"
    /\ LoopIsUnused /\ DeviceIsOfRun /\ StopIsOfRun /\ StopsAreOrdered

\* What is left of the acquisition for the destructors: at most a loop that
\* gets no record any more, unless its device failed to stop.
RunIsOver ==
    /\ digState = "READY" /\ guiPc = "idle"
    /\ device # "running" /\ processors = "closed"
    /\ device = "stuck" => StopMayFail
    /\ NoRecord \/ LateRecords
    /\ StopsSettled => LoopIsOver

\* The one acquisition of main, before, during and after.
CliInvariant ==
    /\ app \in {"start", "refused"} => Init
    /\ app = "running" => RunIsOn
    /\ app \notin {"start", "refused", "running"} => RunIsOver
    /\ StopsSettled => app # "join_write"

\* No record is handed to the file saver once it has been destroyed, whatever
\* failed before and whatever overtook what; except to a loop that was entered
\* after its stop, of a device that failed to stop.
SaverOutlivesRecords ==
    UnitDeleted \/ app = "saver_freed" =>
        workerPc \notin ProcessingPcs \/ LateRecords

\* A configured acquisition ends the program, unless its stop is lost, or came
\* before the loop it was meant for while the device failed to stop as well.
RunExits ==
    digState = "STABILIZING" ~> (app = "exited" \/ StopLost
                                 \/ LoopEnteredLate)

\* README: the application exits after the acquisition is finished.
FinishedRunExits == digState = "STOPPING" ~> app = "exited"

=============================================================================
