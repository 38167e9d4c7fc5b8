------------------------ MODULE AcquisitionControl ------------------------
(***************************************************************************)
(* The acquisition state machine of Digitizer.cpp (GUI thread) together    *)
(* with the record loop of BufferProcessorThread.cpp (ADQThread), the two  *)
(* event queues that join them, the two QTimers of the digitizer and the   *)
(* state of the device behind MutexADQWrapper.                             *)
(*                                                                         *)
(* BufferProcessor::loopState is written by both threads without a lock    *)
(* (stateMutex is declared and never taken), so every handler that touches *)
(* it is cut at each access: guiPc and workerPc name the next access.      *)
(* Code between two accesses that only touches state of its own thread is  *)
(* merged into the step before it.                                         *)
(***************************************************************************)
EXTENDS Naturals, Sequences

CONSTANTS
    MaxRuns,          \* bound: acquisitions requested in one behaviour
    TimedRuns,        \* kinds of acquisition: TRUE has a duration, FALSE none
    ConfigMayFail,    \* configureAcquisition may return false
    StartMayFail,     \* StartDataAcquisition may refuse
    StopMayFail,      \* StopDataAcquisition may fail (ADQ_EIO)
    DeviceMayFail,    \* WaitForRecordBuffer may report a fatal error
    ProcessorMayFail, \* a record processor may refuse a record
    ScopeUpdates,     \* a record processor draws in the GUI thread
    ClicksSettled,    \* timing: START is pressed once the last run is over
    DelaySettled,     \* timing: 2500 ms outlast what the threads still owe
    StopsSettled      \* timing: stops come once the loop has been entered

ASSUME MaxRunsAssumption == MaxRuns \in Nat
ASSUME TimedRunsAssumption == TimedRuns \subseteq BOOLEAN /\ TimedRuns # {}
ASSUME SwitchesAssumption ==
    {ConfigMayFail, StartMayFail, StopMayFail, DeviceMayFail,
     ProcessorMayFail, ScopeUpdates, ClicksSettled, DelaySettled,
     StopsSettled} \subseteq BOOLEAN

VARIABLES
    digState,    \* Digitizer::currentState
    guiPc,       \* next access of the handler the GUI thread is running
    guiQueue,    \* calls posted to the GUI thread
    delayTimer,  \* acquisitionStartDelayTimer is running
    runTimer,    \* acquisitionTimer is running
    runs,        \* acquisitions requested so far
    loopState,   \* BufferProcessor::loopState
    workerPc,    \* next access of the slot ADQThread is running
    startCalls,  \* startBufferProcessLoop calls posted to ADQThread
    device,      \* "running" an acquisition, "off", or "stuck" in one that
                 \* it failed to stop
    holding,     \* a record buffer is out to the application
    processors   \* record processors: "open" after startNewAcquisition

guiVars    == <<digState, guiPc, delayTimer, runTimer, runs>>
workerVars == <<workerPc, holding>>
vars == <<guiVars, guiQueue, loopState, workerVars, startCalls, device,
          processors>>

---------------------------------------------------------------------------
(* Types.                                                                  *)

DigitizerStates == {"READY", "STARTING", "STABILIZING", "STOPPING", "ACTIVE"}
LoopStates      == {"INACTIVE", "ACTIVE", "STOPPING", "SERROR"}

\* stateChanged(INACTIVE), stateChanged(SERROR), the queued stopAcquisition of
\* the run timer and the blocking onScopeUpdate. stateChanged(ACTIVE) and
\* (STOPPING) have no effect in processorLoopStateChanged and are left out.
GuiCalls == {"INACTIVE", "SERROR", "timeout", "scope"}

GuiPcs == {"idle", "configure", "stop_write", "stop_device", "check_inactive",
           "check_serror", "finish", "reset", "ready", "launched", "activate"}

WorkerPcs == {"idle", "test", "wait", "waiting", "refused", "set_serror",
              "post_serror", "got", "process", "scope", "shown", "return",
              "exit", "post_inactive"}

\* completeRecord is calling the record processors.
ProcessingPcs == {"process", "scope", "shown"}

TypeOK ==
    /\ digState \in DigitizerStates
    /\ guiPc \in GuiPcs
    /\ guiQueue \in Seq(GuiCalls)
    /\ delayTimer \in BOOLEAN
    /\ runTimer \in BOOLEAN
    /\ runs \in 0..MaxRuns
    /\ loopState \in LoopStates
    /\ workerPc \in WorkerPcs
    /\ startCalls \in Nat
    /\ device \in {"off", "running", "stuck"}
    /\ holding \in BOOLEAN
    /\ processors \in {"open", "closed"}

Init ==
    /\ digState = "READY"
    /\ guiPc = "idle"
    /\ guiQueue = <<>>
    /\ delayTimer = FALSE
    /\ runTimer = FALSE
    /\ runs = 0
    /\ loopState = "INACTIVE"
    /\ workerPc = "idle"
    /\ startCalls = 0
    /\ device = "off"
    /\ holding = FALSE
    /\ processors = "closed"

---------------------------------------------------------------------------
(* Scheduling.                                                             *)

\* Mutant of ApiFree: the API stays locked until the record is returned.
ApiFreeLate == workerPc \notin {"waiting", "got", "return"} \cup ProcessingPcs

\* MutexADQWrapper: the worker owns the API for the whole WaitForRecordBuffer.
ApiFree == workerPc # "waiting"

\* The worker is between a write of loopState and the post that announces it.
Announcing == workerPc \in {"refused", "set_serror", "post_serror",
                            "exit", "post_inactive"}

\* Nothing of an earlier acquisition is still on its way between the threads.
Settled == guiQueue = <<>> /\ startCalls = 0 /\ ~Announcing

\* Timing assumptions, stated where they are used.
MayClickStart == ClicksSettled => Settled
MayGoLive     == DelaySettled => Settled
MayStop       == StopsSettled => startCalls = 0

Post(call) == guiQueue' = Append(guiQueue, call)

\* StopDataAcquisition. Its result is only logged, also when the device may
\* still be acquiring.
DeviceStops ==
    \/ device' = "off"
    \/ StopMayFail /\ device # "off" /\ device' = "stuck"

---------------------------------------------------------------------------
(* GUI thread: stopAcquisition, entered from the stop button, the run      *)
(* timer, an SERROR event or a failed start.                               *)

\* Mutant of BeginStop: the start delay timer is not stopped.
BeginStopKeepsDelay ==
    /\ delayTimer' = delayTimer
    /\ runTimer' = FALSE
    /\ guiPc' = IF loopState = "ACTIVE" THEN "stop_write" ELSE "stop_device"

\* Both timers are stopped, then stop() reads loopState.
BeginStop ==
    /\ delayTimer' = FALSE
    /\ runTimer' = FALSE
    /\ guiPc' = IF loopState = "ACTIVE" THEN "stop_write" ELSE "stop_device"

StopWrite ==
    /\ guiPc = "stop_write"
    /\ loopState' = "STOPPING"
    /\ guiPc' = "stop_device"
    /\ UNCHANGED <<digState, delayTimer, runTimer, runs, guiQueue, workerVars,
                   startCalls, device, processors>>

StopDevice ==
    /\ guiPc = "stop_device"
    /\ ApiFree
    /\ DeviceStops
    /\ guiPc' = "check_inactive"
    /\ UNCHANGED <<digState, delayTimer, runTimer, runs, guiQueue, loopState,
                   workerVars, startCalls, processors>>

\* handleAcquisitionFullyStopped returns at once when already READY.
CompletionEntry == IF digState = "READY" THEN "idle" ELSE "finish"

CheckInactive ==
    /\ guiPc = "check_inactive"
    /\ guiPc' = IF loopState = "INACTIVE" THEN CompletionEntry
                                          ELSE "check_serror"
    /\ UNCHANGED <<digState, delayTimer, runTimer, runs, guiQueue, loopState,
                   workerVars, startCalls, device, processors>>

\* Mutant of CheckSerror: a loop still STOPPING counts as stopped.
CheckSerrorEager ==
    /\ guiPc = "check_serror"
    /\ IF loopState \in {"SERROR", "STOPPING"}
       THEN guiPc' = CompletionEntry /\ UNCHANGED digState
       ELSE guiPc' = "idle" /\ digState' = "STOPPING"
    /\ UNCHANGED <<delayTimer, runTimer, runs, guiQueue, loopState,
                   workerVars, startCalls, device, processors>>

CheckSerror ==
    /\ guiPc = "check_serror"
    /\ IF loopState = "SERROR"
       THEN guiPc' = CompletionEntry /\ UNCHANGED digState
       ELSE guiPc' = "idle" /\ digState' = "STOPPING"
    /\ UNCHANGED <<delayTimer, runTimer, runs, guiQueue, loopState,
                   workerVars, startCalls, device, processors>>

---------------------------------------------------------------------------
(* GUI thread: handleAcquisitionFullyStopped.                              *)

\* Mutant of FinishProcessors: the processors are never finished.
FinishProcessorsSkipped ==
    /\ guiPc = "finish"
    /\ guiPc' = "reset"
    /\ UNCHANGED <<digState, delayTimer, runTimer, runs, guiQueue, loopState,
                   workerVars, startCalls, device, processors>>

FinishProcessors ==
    /\ guiPc = "finish"
    /\ processors' = "closed"
    /\ guiPc' = "reset"
    /\ UNCHANGED <<digState, delayTimer, runTimer, runs, guiQueue, loopState,
                   workerVars, startCalls, device>>

\* Mutants of ResetLoop: no reset at all, and a reset in any state.
ResetLoopMissing ==
    /\ guiPc = "reset"
    /\ guiPc' = "ready"
    /\ UNCHANGED <<digState, delayTimer, runTimer, runs, guiQueue, loopState,
                   workerVars, startCalls, device, processors>>

ResetLoopAlways ==
    /\ guiPc = "reset"
    /\ loopState' = "INACTIVE"
    /\ guiPc' = "ready"
    /\ UNCHANGED <<digState, delayTimer, runTimer, runs, guiQueue, workerVars,
                   startCalls, device, processors>>

ResetLoop ==
    /\ guiPc = "reset"
    /\ loopState' = IF loopState = "SERROR" THEN "INACTIVE" ELSE loopState
    /\ guiPc' = "ready"
    /\ UNCHANGED <<digState, delayTimer, runTimer, runs, guiQueue, workerVars,
                   startCalls, device, processors>>

\* GetStreamOverflow needs the API; then READY is announced.
BecomeReady ==
    /\ guiPc = "ready"
    /\ ApiFree
    /\ digState' = "READY"
    /\ guiPc' = "idle"
    /\ UNCHANGED <<delayTimer, runTimer, runs, guiQueue, loopState,
                   workerVars, startCalls, device, processors>>

---------------------------------------------------------------------------
(* GUI thread: what its event loop dispatches.                             *)

\* PrimaryControls::digitizerStateChanged.
ButtonEnabled == digState \in {"READY", "STABILIZING", "ACTIVE"}

\* runOverridenAcquisition: STARTING is announced, then the rest follows.
RunAcquisition ==
    /\ digState = "READY"
    /\ digState' = "STARTING"
    /\ guiPc' = "configure"

ClickStart ==
    /\ guiPc = "idle" /\ ButtonEnabled /\ MayClickStart
    /\ runs < MaxRuns
    /\ runs' = runs + 1
    /\ RunAcquisition
    /\ UNCHANGED <<delayTimer, runTimer, guiQueue, loopState, workerVars,
                   startCalls, device, processors>>

\* configureAcquisition stops the device, programs it and hands the new
\* acquisition to every record processor.
Configured ==
    /\ guiPc = "configure"
    /\ ApiFree
    /\ DeviceStops
    /\ processors' = "open"
    /\ digState' = "STABILIZING"
    /\ delayTimer' = TRUE
    /\ guiPc' = "idle"
    /\ UNCHANGED <<runTimer, runs, guiQueue, loopState, workerVars,
                   startCalls>>

\* Any device call of configureAcquisition may fail: runOverridenAcquisition
\* returns false and leaves STARTING behind.
ConfigureFailed ==
    /\ guiPc = "configure" /\ ConfigMayFail
    /\ ApiFree
    /\ DeviceStops
    /\ guiPc' = "idle"
    /\ UNCHANGED <<digState, delayTimer, runTimer, runs, guiQueue, loopState,
                   workerVars, startCalls, processors>>

ClickStop ==
    /\ guiPc = "idle" /\ ButtonEnabled /\ MayStop
    /\ digState \in {"ACTIVE", "STABILIZING"}
    /\ BeginStop
    /\ UNCHANGED <<digState, runs, guiQueue, loopState, workerVars,
                   startCalls, device, processors>>

\* onAcquisitionDelayEnd. StartDataAcquisition refuses a device that is
\* acquiring.
DelayEnds ==
    /\ guiPc = "idle" /\ delayTimer /\ MayGoLive
    /\ ApiFree
    /\ \/ /\ device = "off"
          /\ delayTimer' = FALSE
          /\ device' = "running"
          /\ guiPc' = "launched"
          /\ UNCHANGED runTimer
       \/ /\ device # "off" \/ StartMayFail
          /\ BeginStop
          /\ UNCHANGED device
    /\ UNCHANGED <<digState, runs, guiQueue, loopState, workerVars,
                   startCalls, processors>>

\* acquisitionStarted is posted to ADQThread, which may take it up from now
\* on. A duration of 0 leaves the run timer alone.
PostStart ==
    /\ guiPc = "launched"
    /\ startCalls' = startCalls + 1
    /\ \E timed \in TimedRuns : runTimer' = (runTimer \/ timed)
    /\ guiPc' = "activate"
    /\ UNCHANGED <<digState, delayTimer, runs, guiQueue, loopState,
                   workerVars, device, processors>>

\* The register write needs the API, which the record loop may have by now;
\* then ACTIVE is announced.
BecomeActive ==
    /\ guiPc = "activate"
    /\ ApiFree
    /\ digState' = "ACTIVE"
    /\ guiPc' = "idle"
    /\ UNCHANGED <<delayTimer, runTimer, runs, guiQueue, loopState,
                   workerVars, startCalls, device, processors>>

\* The run timer is connected to stopAcquisition with a queued connection.
RunTimerEnds ==
    /\ guiPc = "idle" /\ runTimer /\ MayStop
    /\ runTimer' = FALSE
    /\ Post("timeout")
    /\ UNCHANGED <<digState, guiPc, delayTimer, runs, loopState, workerVars,
                   startCalls, device, processors>>

Delivered(calls) ==
    /\ guiPc = "idle" /\ guiQueue # <<>>
    /\ Head(guiQueue) \in calls
    /\ guiQueue' = Tail(guiQueue)

\* processorLoopStateChanged(INACTIVE).
DeliverInactive ==
    /\ Delivered({"INACTIVE"})
    /\ guiPc' = CompletionEntry
    /\ UNCHANGED <<digState, delayTimer, runTimer, runs, loopState, workerVars,
                   startCalls, device, processors>>

\* processorLoopStateChanged(SERROR), and the run timer's stopAcquisition.
DeliverStop ==
    /\ Delivered({"SERROR", "timeout"})
    /\ BeginStop
    /\ UNCHANGED <<digState, runs, loopState, workerVars, startCalls,
                   device, processors>>

\* updateScope draws; then the emitting thread may go on.
DeliverScope ==
    /\ Delivered({"scope"})
    /\ workerPc' = "shown"
    /\ UNCHANGED <<guiVars, loopState, holding, startCalls, device,
                   processors>>

DeliverCall == DeliverInactive \/ DeliverStop \/ DeliverScope

---------------------------------------------------------------------------
(* ADQThread: startBufferProcessLoop.                                      *)

WorkerGoes(from, to) == workerPc = from /\ workerPc' = to

\* Mutant of EnterLoop: it runs without a posted call.
EnterLoopUncalled ==
    /\ startCalls' = startCalls - 1
    /\ IF loopState = "INACTIVE"
       THEN WorkerGoes("idle", "test") /\ loopState' = "ACTIVE"
       ELSE WorkerGoes("idle", "idle") /\ UNCHANGED loopState
    /\ UNCHANGED <<guiVars, guiQueue, holding, device, processors>>

\* Only an INACTIVE loop is entered; any other state drops the call.
EnterLoop ==
    /\ startCalls > 0
    /\ startCalls' = startCalls - 1
    /\ IF loopState = "INACTIVE"
       THEN WorkerGoes("idle", "test") /\ loopState' = "ACTIVE"
       ELSE WorkerGoes("idle", "idle") /\ UNCHANGED loopState
    /\ UNCHANGED <<guiVars, guiQueue, holding, device, processors>>

TestLoop ==
    /\ WorkerGoes("test", IF loopState = "ACTIVE" THEN "wait" ELSE "exit")
    /\ UNCHANGED <<guiVars, guiQueue, loopState, holding, startCalls,
                   device, processors>>

LockApi ==
    /\ WorkerGoes("wait", "waiting")
    /\ UNCHANGED <<guiVars, guiQueue, loopState, holding, startCalls,
                   device, processors>>

\* A timeout, an interruption or an empty status only ends the round.
WaitReturnsNothing ==
    /\ device # "off"
    /\ WorkerGoes("waiting", "test")
    /\ UNCHANGED <<guiVars, guiQueue, loopState, holding, startCalls,
                   device, processors>>

WaitReturnsRecord ==
    /\ device # "off"
    /\ WorkerGoes("waiting", "got")
    /\ holding' = TRUE
    /\ UNCHANGED <<guiVars, guiQueue, loopState, startCalls, device,
                   processors>>

\* A device that is not acquiring answers ADQ_ENOTREADY.
WaitReturnsError ==
    /\ device = "off" \/ DeviceMayFail
    /\ WorkerGoes("waiting", "refused")
    /\ UNCHANGED <<guiVars, guiQueue, loopState, holding, startCalls,
                   device, processors>>

JudgeError ==
    /\ WorkerGoes("refused",
                  IF loopState # "STOPPING" THEN "set_serror" ELSE "test")
    /\ UNCHANGED <<guiVars, guiQueue, loopState, holding, startCalls,
                   device, processors>>

SetSerror ==
    /\ WorkerGoes("set_serror", "post_serror")
    /\ loopState' = "SERROR"
    /\ UNCHANGED <<guiVars, guiQueue, holding, startCalls, device,
                   processors>>

\* Mutant of PostSerror: the refused record's buffer is not given back.
PostSerrorKeepsBuffer ==
    /\ WorkerGoes("post_serror", "test")
    /\ Post("SERROR")
    /\ UNCHANGED <<guiVars, loopState, holding, startCalls, device,
                   processors>>

PostSerror ==
    /\ WorkerGoes("post_serror", IF holding THEN "return" ELSE "test")
    /\ Post("SERROR")
    /\ UNCHANGED <<guiVars, loopState, holding, startCalls, device,
                   processors>>

TakeRecord ==
    /\ WorkerGoes("got", IF loopState = "ACTIVE" THEN "process" ELSE "return")
    /\ UNCHANGED <<guiVars, guiQueue, loopState, holding, startCalls,
                   device, processors>>

\* onScopeUpdate is a blocking queued connection.
ShowRecord ==
    /\ ScopeUpdates
    /\ WorkerGoes("process", "scope")
    /\ Post("scope")
    /\ UNCHANGED <<guiVars, loopState, holding, startCalls, device,
                   processors>>

CompleteRecord ==
    /\ workerPc \in {"process", "shown"}
    /\ \/ workerPc' = "return"
       \/ ProcessorMayFail /\ workerPc' = "set_serror"
    /\ UNCHANGED <<guiVars, guiQueue, loopState, holding, startCalls,
                   device, processors>>

ReturnRecord ==
    /\ WorkerGoes("return", "test")
    /\ holding' = FALSE
    /\ UNCHANGED <<guiVars, guiQueue, loopState, startCalls, device,
                   processors>>

\* Mutant of LeaveLoop: INACTIVE is written but not announced.
LeaveLoopSilently ==
    /\ WorkerGoes("exit", "idle")
    /\ loopState' = IF loopState = "STOPPING" THEN "INACTIVE" ELSE loopState
    /\ UNCHANGED <<guiVars, guiQueue, holding, startCalls, device,
                   processors>>

LeaveLoop ==
    /\ IF loopState = "STOPPING"
       THEN WorkerGoes("exit", "post_inactive") /\ loopState' = "INACTIVE"
       ELSE WorkerGoes("exit", "idle") /\ UNCHANGED loopState
    /\ UNCHANGED <<guiVars, guiQueue, holding, startCalls, device,
                   processors>>

PostInactive ==
    /\ WorkerGoes("post_inactive", "idle")
    /\ Post("INACTIVE")
    /\ UNCHANGED <<guiVars, loopState, holding, startCalls, device,
                   processors>>

---------------------------------------------------------------------------

StopStep     == StopWrite \/ StopDevice \/ CheckInactive \/ CheckSerror
CompleteStep == FinishProcessors \/ ResetLoop \/ BecomeReady
EventStep    == DelayEnds \/ RunTimerEnds \/ DeliverCall
UserStep     == ClickStart \/ ClickStop

\* PrimaryControls ignores a failed runAcquisition.
StartStep == Configured \/ ConfigureFailed

\* The rest of onAcquisitionDelayEnd.
LaunchStep == PostStart \/ BecomeActive

GuiNext ==
    \/ StartStep \/ LaunchStep \/ StopStep \/ CompleteStep
    \/ EventStep \/ UserStep

WorkerNext ==
    \/ EnterLoop \/ TestLoop \/ LockApi
    \/ WaitReturnsNothing \/ WaitReturnsRecord \/ WaitReturnsError
    \/ JudgeError \/ SetSerror \/ PostSerror
    \/ TakeRecord \/ ShowRecord \/ CompleteRecord \/ ReturnRecord
    \/ LeaveLoop \/ PostInactive

Next == GuiNext \/ WorkerNext

Spec == Init /\ [][Next]_vars

\* Both threads keep running and the run and delay timers eventually expire;
\* the user owes nothing. A lock that is released again and again is
\* eventually obtained by the GUI thread (strong fairness).
Fairness ==
    /\ SF_vars(StartStep \/ LaunchStep \/ StopStep \/ CompleteStep)
    /\ SF_vars(DelayEnds) /\ WF_vars(RunTimerEnds) /\ WF_vars(DeliverCall)
    /\ WF_vars(WorkerNext)

FairSpec == Spec /\ Fairness

---------------------------------------------------------------------------
(* Properties.                                                             *)

\* The record loop is over and its state still says STOPPING: stop() read
\* ACTIVE, the loop ended with SERROR, and stop() then wrote STOPPING.
StopLost == loopState = "STOPPING" /\ workerPc = "idle"

\* The record loop was entered after the stop meant for it, and the device
\* failed to stop: nothing tells the loop to end.
LoopEnteredLate == loopState = "ACTIVE" /\ device = "stuck"

\* A digitizer left in STOPPING is never forgotten: either the record loop is
\* still running, or a call that re-examines it is queued, or the stop was
\* lost to the unlocked test-and-set of BufferProcessor::stop().
StopIsAnswered ==
    digState = "STOPPING" /\ guiPc = "idle"
        => StopLost \/ workerPc # "idle" \/ guiQueue # <<>>

\* loopState of a loop at work: whatever the GUI thread does, reset() never
\* pulls INACTIVE under a loop that is waiting for or handling a record, and
\* a loop that has been left is never ACTIVE.
LoopStateOwnership ==
    /\ workerPc \in {"wait", "waiting", "refused", "got"} \cup ProcessingPcs
           => loopState \in {"ACTIVE", "STOPPING"}
    /\ loopState = "ACTIVE" => workerPc \notin {"idle", "exit", "post_inactive"}

\* The device gets every record buffer back before it is asked for another
\* and before the loop is left, also when a record processor refused.
BuffersReturned ==
    workerPc \in {"idle", "test", "wait", "waiting", "refused", "exit",
                  "post_inactive"} => ~holding

\* READY is announced only after the record processors were finished.
FinishedWhenReady == digState = "READY" => processors = "closed"

\* A loop that ended under a digitizer that is, or is about to be, STOPPING
\* still has its announcement ahead of it.
EndIsAnnounced ==
    /\ \/ guiPc = "check_serror"
       \/ digState = "STOPPING" /\ guiPc = "idle"
       => (loopState = "INACTIVE"
              => workerPc = "post_inactive" \/ guiQueue # <<>>)
    /\ digState = "STOPPING" /\ guiPc = "idle" /\ loopState = "SERROR"
       => workerPc = "post_serror" \/ guiQueue # <<>>

\* The GUI thread owes a scope update to the loop that waits for it, and to
\* no other.
ScopeIsAwaited ==
    /\ \A i \in DOMAIN guiQueue : guiQueue[i] = "scope" => workerPc = "scope"
    /\ \A i, j \in DOMAIN guiQueue :
           guiQueue[i] = "scope" /\ guiQueue[j] = "scope" => i = j

\* Loop state, buffers and processors follow the program counters.
ThreadsAgree ==
    /\ EndIsAnnounced
    /\ LoopStateOwnership
    /\ workerPc = "set_serror" => loopState \in {"ACTIVE", "STOPPING"}
    /\ BuffersReturned
    /\ FinishedWhenReady
    /\ guiPc \in {"reset", "ready"} => processors = "closed"
    /\ guiPc = "configure" => digState = "STARTING"

\* The strengthening that makes the four invariants above inductive, for every
\* interleaving of the two threads of Digitizer and BufferProcessor.
ControlInvariant == ThreadsAgree /\ ScopeIsAwaited

\* With the timing assumptions, what an acquisition meets until its start call
\* is taken up: a record loop that is over, or on its way out with nothing
\* more to announce.
LoopIsFresh ==
    /\ loopState = "INACTIVE" /\ guiQueue = <<>>
    /\ workerPc \in {"idle", "test", "return", "exit"}

\* ... the timers, the device and the processors follow the digitizer's state,
DeviceFollows ==
    /\ delayTimer <=> digState = "STABILIZING" /\ guiPc = "idle"
    /\ runTimer => \/ digState = "ACTIVE" /\ guiPc = "idle"
                   \/ guiPc = "activate"
    /\ device = "running" <=>
           \/ /\ digState = "ACTIVE"
              /\ guiPc \in {"idle", "stop_write", "stop_device"}
           \/ guiPc \in {"launched", "activate"}
    /\ device = "stuck" => StopMayFail
    /\ processors = "open" <=> /\ digState \notin {"READY", "STARTING"}
                               /\ guiPc \notin {"reset", "ready"}

\* The start call has been posted and stop() has not been called since.
LoopIsWanted ==
    \/ digState = "ACTIVE" /\ guiPc \in {"idle", "stop_write"}
    \/ guiPc = "activate"

\* ... and a loop is at work, or announces its end, only in states that
\* expect it.
LoopFollows ==
    /\ startCalls > 0 => /\ startCalls = 1 /\ LoopIsFresh
                         /\ LoopIsWanted /\ guiPc # "stop_write"
    /\ digState \in {"STARTING", "STABILIZING"} /\ guiPc # "activate"
           => LoopIsFresh
    /\ loopState = "INACTIVE" =>
           workerPc \in {"idle", "test", "return", "post_serror", "exit",
                         "post_inactive"}
    /\ loopState = "ACTIVE" => LoopIsWanted
    /\ loopState # "INACTIVE" =>
           digState \in {"ACTIVE", "STOPPING"} \/ guiPc = "activate"
    /\ LoopIsWanted => loopState \in {"ACTIVE", "SERROR"} \/ startCalls > 0
    /\ workerPc = "post_inactive" \/ (\E i \in DOMAIN guiQueue :
                                         guiQueue[i] = "INACTIVE") =>
           /\ loopState = "INACTIVE"
           /\ digState \in {"READY", "ACTIVE", "STOPPING"}
           /\ digState = "ACTIVE" => guiPc \notin {"idle", "stop_write"}

\* What a stop and its completion rest on.
StopFollows ==
    /\ guiPc = "idle" \/ (guiPc = "configure" <=> digState = "STARTING")
    /\ guiPc = "stop_write" => digState = "ACTIVE"
    /\ guiPc \in {"launched", "activate"} => digState = "STABILIZING"
    /\ guiPc = "check_serror" => digState \in {"ACTIVE", "STOPPING"}
    /\ guiPc \in {"finish", "reset", "ready"} =>
           /\ digState \in {"STABILIZING", "ACTIVE", "STOPPING"}
           /\ loopState \in {"INACTIVE", "SERROR"}
    /\ guiPc = "ready" => loopState = "INACTIVE"

\* The strengthening that makes the three invariants below, and the announced
\* life cycle, inductive when the timing assumptions hold.
TimelyInvariant == DeviceFollows /\ LoopFollows /\ StopFollows

\* At rest in READY nothing of the last acquisition is left: no timer can
\* revive it, the loop can be entered again, and the device is off unless it
\* failed to stop when it was told to, which is only logged.
ReadyIsQuiet ==
    digState = "READY" /\ guiPc = "idle" =>
        /\ ~delayTimer /\ ~runTimer
        /\ device = "off" \/ (StopMayFail /\ device = "stuck")
        /\ loopState = "INACTIVE"

\* completeRecord hands records only to processors that were started for
\* this acquisition and are not finished yet.
RecordsBetweenStartAndFinish ==
    workerPc \in ProcessingPcs => processors = "open"

\* startNewAcquisition and finish run on the GUI thread while processRecord
\* runs on ADQThread; no processor has a lock, so they must not overlap.
ProcessorsNotShared ==
    guiPc \in {"configure", "finish"} => workerPc \notin ProcessingPcs

\* A loop in the error state is reset before it is asked to start.
ResetBeforeStart == startCalls > 0 => loopState # "SERROR"

\* STOPPING ends, unless the stop was lost, or came before the loop it was
\* meant for while the device failed to stop as well.
StoppingEnds ==
    digState = "STOPPING" ~> (digState = "READY" \/ StopLost
                              \/ LoopEnteredLate)

\* The two threads never wait for each other: a loop that waits for the GUI
\* thread to draw goes on, although the GUI thread may be waiting for the API.
ScopeReturns == workerPc = "scope" ~> workerPc # "scope"

\* An acquisition that went ACTIVE gets its record loop or is stopped.
LoopIsEntered == digState = "ACTIVE" ~> (loopState = "ACTIVE"
                                         \/ digState # "ACTIVE")

\* The acquisition life cycle that the states announce.
Lifecycle == INSTANCE AcquisitionLifecycle
    WITH phase <- digState, recording <- (processors = "open"),
         walking <- (workerPc \in ProcessingPcs),
         streaming <- (device = "running")

LifecycleSpec == Lifecycle!Spec

=============================================================================
