------------------------- MODULE CommandLineProofs -------------------------
(***************************************************************************)
(* Theorems about CommandLine, for every configuration and every failure;  *)
(* all but the last hold whether or not a stop overtakes the start of the  *)
(* record loop.                                                            *)
(***************************************************************************)
EXTENDS CommandLine, TimelyControlProofs

\* What every step may rely on.
Headless == CliTypeOK /\ ControlInvariant /\ CliInvariant

\* The requested acquisition.
LEMMA StartAcceptedIsSafe ==
    ASSUME Headless, StartAccepted
    PROVE  Headless'
<1>0. TypeOK /\ Init /\ RunAcquisition
  BY DEF Headless, CliInvariant, StartAccepted, CliTypeOK
<1>1. UNCHANGED <<delayTimer, runTimer, guiQueue, loopState, workerVars,
                  startCalls, device, processors, saveMode>>
  BY DEF StartAccepted
<1>2. CliTypeOK'
  <2>1. runs' \in 0..MaxRuns
    BY <1>0, OneRunAssumption, MaxRunsAssumption DEF StartAccepted, Init
  <2>2. TypeOK'
    BY <1>0, <1>1, <2>1 DEF TypeOK, RunAcquisition, DigitizerStates,
       GuiPcs, workerVars
  <2>3. app' \in AppStates /\ saver' \in {"none", "BINARY", "BINARY_VERBOSE"}
    BY SaveModesAssumption DEF StartAccepted, AppStates, SaverOf, Headless,
       CliTypeOK, FileSaveModes
  <2> QED
    BY <1>1, <2>2, <2>3 DEF Headless, CliTypeOK
<1>3. ControlInvariant'
  BY <1>0, <1>1 DEF Init, RunAcquisition, workerVars, ControlInvariant,
     ThreadsAgree, ScopeIsAwaited, EndIsAnnounced, LoopStateOwnership,
     BuffersReturned, FinishedWhenReady, ProcessingPcs
<1>4. RunIsOn'
  BY <1>0, <1>1 DEF Init, RunAcquisition, workerVars, RunIsOn, LoopIsUnused,
     LoopAtRest, DeviceIsOfRun, StopIsOfRun, StopsAreOrdered
<1>5. CliInvariant'
  BY <1>4 DEF StartAccepted, CliInvariant
<1> QED
  BY <1>2, <1>3, <1>5 DEF Headless

---------------------------------------------------------------------------
(* The acquisition under way.                                              *)

\* Handlers that the GUI thread is in.
LEMMA HandlersKeepRun ==
    ASSUME TypeOK, ControlInvariant, RunIsOn,
           \/ StartStep \/ LaunchStep \/ StopStep
           \/ FinishProcessors \/ ResetLoop
    PROVE  RunIsOn'
<1> USE DEF RunIsOn, LoopIsUnused, LoopAtRest, DeviceIsOfRun, StopIsOfRun,
            StopsAreOrdered, LoopIsOver, NoRecord, LateRecords,
            ControlInvariant, ThreadsAgree, workerVars
<1>1. CASE StartStep
  BY <1>1 DEF StartStep, Configured, ConfigureFailed, DeviceStops
<1>8. CASE PostStart
  BY <1>8 DEF PostStart, TypeOK
<1>9. CASE BecomeActive
  BY <1>9 DEF BecomeActive
<1>2. CASE StopWrite
  BY <1>2 DEF StopWrite
<1>3. CASE StopDevice
  BY <1>3 DEF StopDevice, DeviceStops
<1>4. CASE CheckInactive
  BY <1>4 DEF CheckInactive, CompletionEntry, LoopStateOwnership, TypeOK,
     DigitizerStates
<1>5. CASE CheckSerror
  BY <1>5 DEF CheckSerror, CompletionEntry, LoopStateOwnership
<1>6. CASE FinishProcessors
  BY <1>6 DEF FinishProcessors, TypeOK
<1>7. CASE ResetLoop
  BY <1>7 DEF ResetLoop
<1> QED
  BY <1>1, <1>2, <1>3, <1>4, <1>5, <1>6, <1>7, <1>8, <1>9
  DEF StopStep, LaunchStep

\* The timers, and the calls posted to the GUI thread.
LEMMA EventsKeepRun ==
    ASSUME TypeOK, ControlInvariant, RunIsOn, EventStep
    PROVE  RunIsOn'
<1> USE DEF RunIsOn, LoopIsUnused, LoopAtRest, DeviceIsOfRun, StopIsOfRun,
            StopsAreOrdered, LoopIsOver, NoRecord, LateRecords,
            ControlInvariant, ThreadsAgree
<1>1. CASE DelayEnds
  BY <1>1 DEF DelayEnds, BeginStop, workerVars, TypeOK
<1>2. CASE RunTimerEnds
  <2>1. \A i \in DOMAIN guiQueue' : guiQueue'[i] = "timeout"
            \/ \E j \in DOMAIN guiQueue : guiQueue'[i] = guiQueue[j]
    BY <1>2, QueueSteps DEF RunTimerEnds, GuiCalls
  <2>2. /\ digState = "ACTIVE" /\ guiPc = "idle"
        /\ StopsSettled => startCalls = 0
        /\ runTimer' = FALSE
        /\ UNCHANGED <<digState, guiPc, delayTimer, loopState, workerPc,
                       startCalls, device, processors>>
    BY <1>2 DEF RunTimerEnds, MayStop, workerVars
  <2> QED
    BY <2>1, <2>2
<1>3. CASE DeliverCall
  <2>1. /\ guiQueue # <<>> /\ guiPc = "idle"
        /\ \A i \in DOMAIN guiQueue' :
               \E j \in DOMAIN guiQueue : guiQueue'[i] = guiQueue[j]
    BY <1>3, QueueSteps
    DEF DeliverCall, DeliverInactive, DeliverStop, DeliverScope, Delivered
  <2>2. digState \in {"ACTIVE", "STOPPING"}
    BY <2>1 DEF TypeOK, DigitizerStates
  <2>3. CASE DeliverInactive
    <3>1. \E j \in DOMAIN guiQueue : guiQueue[j] = "INACTIVE"
      BY <2>3, QueueSteps DEF DeliverInactive
    <3>2. startCalls = 0 /\ loopState = "INACTIVE" /\ device # "running"
      BY <2>1, <3>1
    <3>3. NoRecord
      BY <3>2 DEF LoopStateOwnership
    <3>4. guiPc' = "finish"
      BY <2>2, <2>3 DEF DeliverInactive, CompletionEntry
    <3>5. UNCHANGED <<digState, delayTimer, runTimer, loopState, workerPc,
                      startCalls, device, processors>>
      BY <2>3 DEF DeliverInactive, workerVars
    <3> QED
      BY <2>1, <2>2, <3>2, <3>3, <3>4, <3>5
  <2>4. CASE DeliverStop
    BY <2>1, <2>2, <2>4 DEF DeliverStop, BeginStop, workerVars
  <2>5. CASE DeliverScope
    <3>1. \E j \in DOMAIN guiQueue : guiQueue[j] = "scope"
      BY <2>5, QueueSteps DEF DeliverScope
    <3> QED
      BY <2>1, <2>2, <2>5, <3>1
      DEF DeliverScope, guiVars, ScopeIsAwaited
  <2> QED
    BY <1>3, <2>3, <2>4, <2>5 DEF DeliverCall
<1> QED
  BY <1>1, <1>2, <1>3 DEF EventStep

\* ADQThread.
LEMMA WorkerKeepsRun ==
    ASSUME TypeOK, ControlInvariant, RunIsOn, WorkerNext
    PROVE  RunIsOn'
<1> USE DEF RunIsOn, LoopIsUnused, LoopAtRest, DeviceIsOfRun, StopIsOfRun,
            StopsAreOrdered, LoopIsOver, NoRecord, LateRecords,
            ControlInvariant, ThreadsAgree, guiVars, WorkerGoes
<1>1. CASE EnterLoop
  BY <1>1 DEF EnterLoop, ProcessingPcs, TypeOK
<1>2. CASE TestLoop \/ LockApi \/ JudgeError
  BY <1>2 DEF TestLoop, LockApi, JudgeError, ProcessingPcs
<1>3. CASE WaitReturnsNothing \/ WaitReturnsError
  BY <1>3 DEF WaitReturnsNothing, WaitReturnsError, ProcessingPcs
<1>10. CASE WaitReturnsRecord
  <2>1. loopState \in {"ACTIVE", "STOPPING"} /\ startCalls = 0
    BY <1>10 DEF WaitReturnsRecord, LoopStateOwnership, TypeOK
  <2>2. guiPc \in {"finish", "reset", "ready"} => LateRecords
    BY <1>10, <2>1 DEF WaitReturnsRecord, TypeOK
  <2> QED
    BY <1>10, <2>1, <2>2 DEF WaitReturnsRecord, ProcessingPcs
<1>4. CASE SetSerror
  BY <1>4 DEF SetSerror, ProcessingPcs
<1>5. CASE PostSerror
  <2>1. \A i \in DOMAIN guiQueue' : guiQueue'[i] = "SERROR"
            \/ \E j \in DOMAIN guiQueue : guiQueue'[i] = guiQueue[j]
    BY <1>5, QueueSteps DEF PostSerror, GuiCalls
  <2> QED
    BY <1>5, <2>1 DEF PostSerror, ProcessingPcs, TypeOK
<1>6. CASE ShowRecord
  <2>1. \A i \in DOMAIN guiQueue' : guiQueue'[i] = "scope"
            \/ \E j \in DOMAIN guiQueue : guiQueue'[i] = guiQueue[j]
    BY <1>6, QueueSteps DEF ShowRecord, GuiCalls
  <2> QED
    BY <1>6, <2>1 DEF ShowRecord, ProcessingPcs, TypeOK
<1>7. CASE PostInactive
  <2>1. \A i \in DOMAIN guiQueue' : guiQueue'[i] = "INACTIVE"
            \/ \E j \in DOMAIN guiQueue : guiQueue'[i] = guiQueue[j]
    BY <1>7, QueueSteps DEF PostInactive, GuiCalls
  <2> QED
    BY <1>7, <2>1 DEF PostInactive, ProcessingPcs, TypeOK
<1>8. CASE TakeRecord \/ CompleteRecord \/ ReturnRecord
  BY <1>8 DEF TakeRecord, CompleteRecord, ReturnRecord, ProcessingPcs
<1>9. CASE LeaveLoop
  BY <1>9 DEF LeaveLoop, ProcessingPcs, TypeOK
<1> QED
  BY <1>1, <1>2, <1>3, <1>4, <1>5, <1>6, <1>7, <1>8, <1>9,
     <1>10
  DEF WorkerNext

---------------------------------------------------------------------------
(* The acquisition is over.                                                *)

\* ADQThread may still enter the loop, but gets no record.
LEMMA WorkerStaysOver ==
    ASSUME TypeOK, ControlInvariant, RunIsOver, WorkerNext
    PROVE  RunIsOver'
<1> USE DEF RunIsOver, LoopIsOver, NoRecord, LateRecords, ControlInvariant,
            ThreadsAgree, guiVars, WorkerGoes, ProcessingPcs
<1>1. CASE EnterLoop \/ LeaveLoop
  BY <1>1 DEF EnterLoop, LeaveLoop, TypeOK
<1>2. CASE TestLoop \/ LockApi \/ JudgeError \/ SetSerror
  BY <1>2 DEF TestLoop, LockApi, JudgeError, SetSerror
<1>3. CASE WaitReturnsNothing \/ WaitReturnsRecord \/ WaitReturnsError
  <2>1. loopState \in {"ACTIVE", "STOPPING"}
    BY <1>3 DEF WaitReturnsNothing, WaitReturnsRecord, WaitReturnsError,
       LoopStateOwnership
  <2>2. ~StopsSettled
    BY <2>1
  <2> QED
    BY <1>3, <2>2 DEF WaitReturnsNothing, WaitReturnsRecord, WaitReturnsError,
       TypeOK
<1>4. CASE PostSerror \/ PostInactive \/ ShowRecord
  BY <1>4 DEF PostSerror, PostInactive, ShowRecord
<1>5. CASE TakeRecord \/ CompleteRecord \/ ReturnRecord
  BY <1>5 DEF TakeRecord, CompleteRecord, ReturnRecord
<1> QED
  BY <1>1, <1>2, <1>3, <1>4, <1>5 DEF WorkerNext

\* joinThreads tells a loop that was entered late to stop.
LEMMA JoinWriteIsSafe ==
    ASSUME Headless, JoinWrite
    PROVE  Headless'
<1>1. /\ app = "join_write" /\ app' = "join_wait" /\ ~StopsSettled
      /\ loopState' = "STOPPING" /\ RunIsOver
      /\ UNCHANGED <<guiVars, guiQueue, workerVars, startCalls, device,
                     processors, saveMode, saver>>
  BY DEF JoinWrite, Destroys, Headless, CliInvariant
<1>2. CliTypeOK'
  BY <1>1 DEF Headless, CliTypeOK, TypeOK, LoopStates, AppStates, guiVars,
     workerVars
<1>3. ControlInvariant'
  BY <1>1 DEF Headless, RunIsOver, ControlInvariant, ThreadsAgree,
     ScopeIsAwaited, EndIsAnnounced, LoopStateOwnership, BuffersReturned,
     FinishedWhenReady, guiVars, workerVars
<1>4. CliInvariant'
  BY <1>1 DEF CliInvariant, RunIsOver, NoRecord, LateRecords, guiVars,
     workerVars
<1> QED
  BY <1>2, <1>3, <1>4 DEF Headless

---------------------------------------------------------------------------

\* The digitizer's handlers and threads, and main between them.
LEMMA DigitizerStepIsSafe ==
    ASSUME Headless, Handler \/ Dispatch(EventStep) \/ FinishRun \/ Worker
    PROVE  Headless'
<1>1. \/ StartStep \/ LaunchStep \/ StopStep \/ CompleteStep
      \/ EventStep \/ WorkerNext
  BY DEF Handler, Dispatch, FinishRun, Worker, CompleteStep
<1>2. Next /\ TypeOK /\ ControlInvariant /\ CliInvariant
  BY <1>1 DEF Next, GuiNext, Headless, CliTypeOK
<1>3. TypeOK' /\ ControlInvariant'
  BY <1>2, StepsAreTyped, StepsKeepControl
<1>4. app' \in AppStates /\ UNCHANGED <<saveMode, saver>>
  BY DEF Handler, Dispatch, FinishRun, Worker, appVars, AppStates, Headless,
     CliTypeOK
<1>5. CliInvariant'
  <2>1. CASE Handler \/ Dispatch(EventStep)
    <3>1. app = "running" /\ app' = "running" /\ RunIsOn
      BY <1>2, <2>1 DEF Handler, Dispatch, appVars, CliInvariant
    <3>2. RunIsOn'
      BY <1>2, <2>1, <3>1, HandlersKeepRun, EventsKeepRun
      DEF Handler, Dispatch
    <3> QED
      BY <3>1, <3>2 DEF CliInvariant
  <2>2. CASE FinishRun
    <3>1. RunIsOn /\ BecomeReady /\ app' = "leaving"
      BY <1>2, <2>2 DEF FinishRun, CliInvariant
    <3>2. RunIsOver'
      BY <1>2, <3>1 DEF BecomeReady, RunIsOn, DeviceIsOfRun, StopIsOfRun,
         StopsAreOrdered, RunIsOver, NoRecord, LateRecords, LoopIsOver,
         workerVars,
         ControlInvariant, ThreadsAgree, TypeOK
    <3> QED
      BY <3>1, <3>2 DEF CliInvariant
  <2>3. CASE Worker
    <3>1. WorkerNext /\ app' = app
      BY <2>3 DEF Worker, appVars
    <3>2. ~Init
      BY <3>1 DEF Init, WorkerNext, EnterLoop, TestLoop, LockApi,
         WaitReturnsNothing, WaitReturnsRecord, WaitReturnsError,
         JudgeError, SetSerror, PostSerror, TakeRecord, ShowRecord,
         CompleteRecord, ReturnRecord, LeaveLoop, PostInactive, WorkerGoes
    <3> QED
      BY <1>2, <3>1, <3>2, WorkerKeepsRun, WorkerStaysOver DEF CliInvariant
  <2> QED
    BY <2>1, <2>2, <2>3
<1> QED
  BY <1>3, <1>4, <1>5 DEF Headless, CliTypeOK

\* Refusal, and the destructors.
LEMMA DestructionIsSafe ==
    ASSUME Headless, StartRefused \/ Destruction \/ UNCHANGED cliVars
    PROVE  Headless'
<1>1. CASE JoinWrite
  BY <1>1, JoinWriteIsSafe
<1>2. CASE ~JoinWrite
  <2>1. UNCHANGED <<vars, saveMode, saver>>
    BY <1>2 DEF StartRefused, Destruction, FreeSaver, DeleteUnit, JoinRead,
       Joined, cliVars, appVars
  <2>2. TypeOK' /\ ControlInvariant'
    BY <2>1, StepsAreTyped, StepsKeepControl DEF Headless, CliTypeOK
  <2>3. app' \in AppStates
    BY <1>2 DEF StartRefused, Destruction, FreeSaver, DeleteUnit, JoinRead,
       Joined, Destroys, cliVars, appVars, AppStates, Headless, CliTypeOK
  <2>4. /\ Init => Init'
        /\ RunIsOn => RunIsOn'
        /\ RunIsOver => RunIsOver'
    BY <2>1 DEF vars, guiVars, workerVars, Init, RunIsOn, LoopIsUnused,
       LoopAtRest, DeviceIsOfRun, StopIsOfRun, StopsAreOrdered, LoopIsOver,
       NoRecord, LateRecords, RunIsOver
  <2>5. CliInvariant'
    BY <1>2, <2>4 DEF Headless, CliInvariant, RunIsOver, LoopIsOver,
       StartRefused, Destruction, FreeSaver, DeleteUnit, JoinRead, Joined,
       Destroys, cliVars, appVars
  <2> QED
    BY <2>1, <2>2, <2>3, <2>5 DEF Headless, CliTypeOK
<1> QED
  BY <1>1, <1>2

\* From start to exit the digitizer is where main expects it.
THEOREM HeadlessHolds == CliSpec => []Headless
<1>1. CliInit => Headless
  <2> SUFFICES ASSUME CliInit PROVE Headless
    OBVIOUS
  <2>1. Init
    BY DEF CliInit
  <2> QED
    BY <2>1, InitTyped, InitControl
    DEF CliInit, Headless, CliTypeOK, CliInvariant, AppStates
<1>2. ASSUME Headless, [CliNext]_cliVars PROVE Headless'
  BY <1>2, StartAcceptedIsSafe, DigitizerStepIsSafe, DestructionIsSafe
  DEF CliNext
<1> QED
  BY <1>1, <1>2, PTL DEF CliSpec

\* Types.
THEOREM CliTypeCorrect == CliSpec => []CliTypeOK
<1>1. Headless => CliTypeOK
  BY DEF Headless
<1> QED
  BY <1>1, HeadlessHolds, PTL

\* A destroyed file saver gets no record, even of a loop that was entered
\* late, as long as the device was stopped.
THEOREM SaverAlwaysOutlivesRecords == CliSpec => []SaverOutlivesRecords
<1>1. Headless => SaverOutlivesRecords
  BY DEF Headless, CliInvariant, RunIsOver, NoRecord, LateRecords,
     SaverOutlivesRecords, UnitDeleted
<1> QED
  BY <1>1, HeadlessHolds, PTL

---------------------------------------------------------------------------
(* The headless program goes through the announced life cycle.             *)

\* The GUI thread's handlers and events.
LEMMA HandlersFollowLifecycle ==
    ASSUME TypeOK, ControlInvariant, RunIsOn,
           StopsSettled,
           \/ StartStep \/ LaunchStep \/ StopStep \/ CompleteStep
           \/ EventStep
    PROVE  [Lifecycle!Next]_(Lifecycle!lifecycleVars)
<1> USE DEF TypeOK, RunIsOn, DeviceIsOfRun, StopIsOfRun, ControlInvariant,
            ThreadsAgree, Lifecycle!Next, Lifecycle!lifecycleVars,
            Lifecycle!Goes, workerVars
<1>1. ASSUME UNCHANGED <<digState, processors, device, workerPc>>
      PROVE  UNCHANGED Lifecycle!lifecycleVars
  BY <1>1
<1>2. CASE Configured
  <2>1. workerPc \notin ProcessingPcs
    BY <1>2 DEF Configured, LoopIsUnused, LoopAtRest, ProcessingPcs
  <2> QED
    BY <1>2, <2>1 DEF Configured, DeviceStops, Lifecycle!Prepare
<1>3. CASE ConfigureFailed
  BY <1>1, <1>3 DEF ConfigureFailed, DeviceStops
<1>4. CASE DelayEnds
  BY <1>1, <1>4 DEF DelayEnds, Lifecycle!Launch
<1>12. CASE LaunchStep
  BY <1>1, <1>12 DEF LaunchStep, PostStart, BecomeActive, Lifecycle!GoLive
<1>5. CASE StopDevice
  BY <1>5 DEF StopDevice, DeviceStops, Lifecycle!Halt
<1>6. CASE CheckSerror
  BY <1>1, <1>6 DEF CheckSerror, Lifecycle!Drain, DigitizerStates
<1>7. CASE FinishProcessors
  <2>1. workerPc \notin ProcessingPcs
    BY <1>7 DEF FinishProcessors, NoRecord, LateRecords
  <2> QED
    BY <1>7, <2>1 DEF FinishProcessors, Lifecycle!Close
<1>8. CASE BecomeReady
  BY <1>8 DEF BecomeReady, Lifecycle!Complete
<1>9. CASE StopWrite \/ CheckInactive \/ ResetLoop
  BY <1>1, <1>9 DEF StopWrite, CheckInactive, ResetLoop
<1>10. CASE RunTimerEnds \/ DeliverInactive \/ DeliverStop
  BY <1>1, <1>10 DEF RunTimerEnds, DeliverInactive, DeliverStop
<1>11. CASE DeliverScope
  <2>1. workerPc = "scope" /\ workerPc' = "shown"
    BY <1>11, QueueSteps DEF DeliverScope, ScopeIsAwaited
  <2> QED
    BY <1>11, <2>1 DEF DeliverScope, guiVars, ProcessingPcs
<1> QED
  BY <1>2, <1>3, <1>4, <1>5, <1>6, <1>7, <1>8, <1>9, <1>10, <1>11,
     <1>12
  DEF StartStep, StopStep, CompleteStep, EventStep, DeliverCall

\* What ADQThread does with a record that was taken while one may be.
LEMMA WorkerFollowsLifecycle ==
    ASSUME TypeOK, ControlInvariant, RunIsOn \/ RunIsOver, StopsSettled,
           WorkerNext
    PROVE  [Lifecycle!Next]_(Lifecycle!lifecycleVars)
<1>1. CASE TakeRecord
  <2>1. workerPc = "got" /\ RunIsOn
    BY <1>1 DEF TakeRecord, WorkerGoes, RunIsOver, NoRecord, LateRecords
  <2>2. CASE loopState = "ACTIVE"
    <3>1. /\ device = "running" /\ processors = "open"
          /\ digState \in {"STABILIZING", "ACTIVE"}
      BY <2>1, <2>2 DEF RunIsOn, DeviceIsOfRun, StopIsOfRun, StopsAreOrdered
    <3> QED
      BY <1>1, <2>1, <2>2, <3>1 DEF TakeRecord, WorkerGoes, guiVars,
         ProcessingPcs, Lifecycle!BeginWalk, Lifecycle!Next
  <2>3. CASE loopState # "ACTIVE"
    BY <1>1, <2>1, <2>3 DEF TakeRecord, WorkerGoes, guiVars, ProcessingPcs,
       Lifecycle!lifecycleVars
  <2> QED
    BY <2>2, <2>3
<1>2. CASE ~TakeRecord
  BY <1>2, OtherWorkFollowsLifecycle
<1> QED
  BY <1>1, <1>2

\* The destructors, and a loop they let go on, change nothing in it: an
\* acquisition of the headless program is one of AcquisitionLifecycle, if the
\* run timer does not overtake the call that starts the record loop. Without
\* that a record may be taken after the device was told to stop.
THEOREM HeadlessFollowsLifecycle ==
    ASSUME StopsSettled
    PROVE  CliSpec => LifecycleSpec
<1>1. CliInit => Lifecycle!Init
  BY DEF CliInit, Init, Lifecycle!Init, ProcessingPcs
<1>2. Headless /\ [CliNext]_cliVars
          => [Lifecycle!Next]_(Lifecycle!lifecycleVars)
  <2> SUFFICES ASSUME Headless, [CliNext]_cliVars
               PROVE  [Lifecycle!Next]_(Lifecycle!lifecycleVars)
    OBVIOUS
  <2>0. TypeOK /\ ControlInvariant /\ CliInvariant
    BY DEF Headless, CliTypeOK
  <2>1. CASE StartAccepted
    BY <2>1 DEF StartAccepted, RunAcquisition, workerVars, Lifecycle!Request,
       Lifecycle!Goes, Lifecycle!Next
  <2>2. CASE Handler \/ Dispatch(EventStep) \/ FinishRun
    BY <2>0, <2>2, StopsSettled, HandlersFollowLifecycle
    DEF Handler, Dispatch, FinishRun, CliInvariant, CompleteStep
  <2>3. CASE Worker
    <3>1. WorkerNext
      BY <2>3 DEF Worker
    <3>2. ~Init
      BY <3>1 DEF Init, WorkerNext, EnterLoop, TestLoop, LockApi,
         WaitReturnsNothing, WaitReturnsRecord, WaitReturnsError,
         JudgeError, SetSerror, PostSerror, TakeRecord, ShowRecord,
         CompleteRecord, ReturnRecord, LeaveLoop, PostInactive, WorkerGoes
    <3> QED
      BY <2>0, <3>1, <3>2, StopsSettled, WorkerFollowsLifecycle
      DEF CliInvariant
  <2>4. CASE StartRefused \/ Destruction \/ UNCHANGED cliVars
    BY <2>4 DEF StartRefused, Destruction, FreeSaver, DeleteUnit, JoinRead,
       JoinWrite, Joined, cliVars, vars, guiVars, workerVars,
       Lifecycle!lifecycleVars
  <2> QED
    BY <2>1, <2>2, <2>3, <2>4 DEF CliNext
<1> QED
  BY <1>1, <1>2, HeadlessHolds, PTL DEF CliSpec, LifecycleSpec, Lifecycle!Spec

=============================================================================
