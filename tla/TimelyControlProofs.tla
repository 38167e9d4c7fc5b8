------------------------ MODULE TimelyControlProofs ------------------------
(***************************************************************************)
(* Theorems about AcquisitionControl under two of its timing assumptions:  *)
(* the user starts an acquisition only when nothing of an earlier one is   *)
(* on its way between the threads, and the stop button and the run timer   *)
(* do not overtake the call that starts the record loop.                   *)
(***************************************************************************)
EXTENDS AcquisitionControlProofs

AllSettled == ClicksSettled /\ StopsSettled

\* What every step may rely on.
Timely == StopsSettled /\ TypeOK /\ ControlInvariant /\ TimelyInvariant

---------------------------------------------------------------------------
(* GUI thread.                                                             *)

\* No event is delivered that was posted before the acquisition began.
LEMMA QueueSteps ==
    ASSUME TypeOK
    PROVE  /\ \A calls : Delivered(calls) =>
                  \A i \in DOMAIN guiQueue' :
                      \E j \in DOMAIN guiQueue : guiQueue'[i] = guiQueue[j]
           /\ \A calls : Delivered(calls) =>
                  \E j \in DOMAIN guiQueue : guiQueue[j] \in calls
           /\ \A call \in GuiCalls : Post(call) =>
                  /\ guiQueue' # <<>>
                  /\ \A i \in DOMAIN guiQueue' : guiQueue'[i] = call
                         \/ \E j \in DOMAIN guiQueue : guiQueue'[i] = guiQueue[j]
<1>1. guiQueue \in Seq(GuiCalls)
  BY DEF TypeOK
<1>2. ASSUME NEW calls, Delivered(calls)
      PROVE  /\ \A i \in DOMAIN guiQueue' : /\ i + 1 \in DOMAIN guiQueue
                                            /\ guiQueue'[i] = guiQueue[i + 1]
             /\ 1 \in DOMAIN guiQueue /\ guiQueue[1] \in calls
  BY <1>1, <1>2 DEF Delivered
<1>3. ASSUME NEW call \in GuiCalls, Post(call)
      PROVE  /\ guiQueue' # <<>>
             /\ \A i \in DOMAIN guiQueue' : guiQueue'[i] = call
                    \/ \E j \in DOMAIN guiQueue : guiQueue'[i] = guiQueue[j]
  BY <1>1, <1>3 DEF Post
<1> QED
  BY <1>2, <1>3

\* The request of an acquisition.
LEMMA RequestIsTimely ==
    ASSUME Timely, RunAcquisition, LoopIsFresh, startCalls = 0,
           UNCHANGED <<delayTimer, runTimer, guiQueue, loopState, workerVars,
                       startCalls, device, processors>>
    PROVE  TimelyInvariant'
BY DEF Timely, TypeOK, TimelyInvariant, DeviceFollows, LoopFollows,
   LoopIsWanted, StopFollows, LoopIsFresh, RunAcquisition, workerVars

\* Its configuration and start.
LEMMA StartIsTimely ==
    ASSUME Timely, StartStep \/ DelayEnds \/ LaunchStep
    PROVE  TimelyInvariant'
<1> USE DEF Timely, TypeOK, TimelyInvariant, DeviceFollows, LoopFollows,
            StopFollows, LoopIsFresh, LoopIsWanted, ControlInvariant,
            ThreadsAgree
<1>1. CASE Configured
  BY <1>1 DEF Configured, DeviceStops, workerVars
<1>2. CASE ConfigureFailed
  BY <1>2 DEF ConfigureFailed, DeviceStops, workerVars
<1>3. CASE DelayEnds
  BY <1>3 DEF DelayEnds, BeginStop, workerVars
<1>4. CASE PostStart
  BY <1>4 DEF PostStart, workerVars
<1>5. CASE BecomeActive
  BY <1>5 DEF BecomeActive, workerVars
<1> QED
  BY <1>1, <1>2, <1>3, <1>4, <1>5 DEF StartStep, LaunchStep

\* Stop and completion.
LEMMA StopIsTimely ==
    ASSUME Timely, StopStep \/ CompleteStep \/ ClickStop
    PROVE  TimelyInvariant'
<1> USE DEF Timely, TypeOK, TimelyInvariant, DeviceFollows,
            LoopFollows, LoopIsWanted, StopFollows, LoopIsFresh,
            ControlInvariant, ThreadsAgree
<1>1. CASE StopWrite
  BY <1>1 DEF StopWrite, workerVars
<1>2. CASE StopDevice
  BY <1>2 DEF StopDevice, DeviceStops, workerVars
<1>3. CASE CheckInactive
  BY <1>3 DEF CheckInactive, CompletionEntry, workerVars, DigitizerStates
<1>4. CASE CheckSerror
  BY <1>4 DEF CheckSerror, CompletionEntry, workerVars
<1>5. CASE FinishProcessors
  BY <1>5 DEF FinishProcessors, workerVars
<1>6. CASE ResetLoop
  BY <1>6 DEF ResetLoop, workerVars, LoopStateOwnership, ProcessingPcs,
     WorkerPcs
<1>7. CASE BecomeReady
  BY <1>7 DEF BecomeReady, workerVars
<1>8. CASE ClickStop
  BY <1>8 DEF ClickStop, MayStop, BeginStop, workerVars
<1> QED
  BY <1>1, <1>2, <1>3, <1>4, <1>5, <1>6, <1>7, <1>8
  DEF StopStep, CompleteStep

\* What the event loop delivers.
LEMMA EventsAreTimely ==
    ASSUME Timely, RunTimerEnds \/ DeliverCall
    PROVE  TimelyInvariant'
<1> USE DEF Timely, TypeOK, TimelyInvariant, DeviceFollows,
            LoopFollows, LoopIsWanted, StopFollows, LoopIsFresh,
            ControlInvariant, ThreadsAgree
<1>1. CASE RunTimerEnds
  <2>1. \A i \in DOMAIN guiQueue' : guiQueue'[i] = "timeout"
            \/ \E j \in DOMAIN guiQueue : guiQueue'[i] = guiQueue[j]
    BY <1>1, QueueSteps DEF RunTimerEnds, GuiCalls
  <2>2. /\ digState = "ACTIVE" /\ guiPc = "idle" /\ startCalls = 0
        /\ runTimer' = FALSE
        /\ UNCHANGED <<digState, guiPc, delayTimer, loopState, workerPc,
                       startCalls, device, processors>>
    BY <1>1 DEF RunTimerEnds, MayStop, workerVars
  <2> QED
    BY <2>1, <2>2
<1>2. CASE DeliverCall
  <2>1. /\ guiQueue # <<>> /\ guiPc = "idle"
        /\ \A i \in DOMAIN guiQueue' :
               \E j \in DOMAIN guiQueue : guiQueue'[i] = guiQueue[j]
    BY <1>2, QueueSteps
    DEF DeliverCall, DeliverInactive, DeliverStop, DeliverScope, Delivered
  <2>2. digState \in {"READY", "ACTIVE", "STOPPING"} /\ startCalls = 0
    BY <2>1 DEF DigitizerStates
  <2>3. CASE DeliverInactive
    <3>1. \E j \in DOMAIN guiQueue : guiQueue[j] = "INACTIVE"
      BY <2>3, QueueSteps DEF DeliverInactive
    <3> QED
      BY <2>1, <2>2, <2>3, <3>1 DEF DeliverInactive, CompletionEntry,
         workerVars
  <2>4. CASE DeliverStop
    BY <2>1, <2>2, <2>4 DEF DeliverStop, BeginStop, workerVars
  <2>5. CASE DeliverScope
    <3>1. \E j \in DOMAIN guiQueue : guiQueue[j] = "scope"
      BY <2>5, QueueSteps DEF DeliverScope
    <3> QED
      BY <2>1, <2>2, <2>5, <3>1
      DEF DeliverScope, guiVars, ScopeIsAwaited, LoopStateOwnership,
          ProcessingPcs
  <2> QED
    BY <1>2, <2>3, <2>4, <2>5 DEF DeliverCall
<1> QED
  BY <1>1, <1>2

---------------------------------------------------------------------------
(* ADQThread.                                                              *)

LEMMA WorkerIsTimely ==
    ASSUME Timely, WorkerNext
    PROVE  TimelyInvariant'
<1> USE DEF Timely, TypeOK, TimelyInvariant, DeviceFollows,
            LoopFollows, LoopIsWanted, StopFollows, LoopIsFresh,
            ControlInvariant, ThreadsAgree, guiVars,
            WorkerGoes
<1>1. CASE EnterLoop
  BY <1>1 DEF EnterLoop
<1>2. CASE TestLoop \/ LockApi \/ JudgeError \/ TakeRecord
  BY <1>2 DEF TestLoop, LockApi, JudgeError, TakeRecord
<1>3. CASE WaitReturnsNothing \/ WaitReturnsRecord \/ WaitReturnsError
  BY <1>3 DEF WaitReturnsNothing, WaitReturnsRecord, WaitReturnsError
<1>4. CASE SetSerror
  BY <1>4 DEF SetSerror
<1>5. CASE PostSerror
  <2>1. \A i \in DOMAIN guiQueue' : guiQueue'[i] = "SERROR"
            \/ \E j \in DOMAIN guiQueue : guiQueue'[i] = guiQueue[j]
    BY <1>5, QueueSteps DEF PostSerror, GuiCalls
  <2> QED
    BY <1>5, <2>1 DEF PostSerror
<1>6. CASE ShowRecord
  <2>1. \A i \in DOMAIN guiQueue' : guiQueue'[i] = "scope"
            \/ \E j \in DOMAIN guiQueue : guiQueue'[i] = guiQueue[j]
    BY <1>6, QueueSteps DEF ShowRecord, GuiCalls
  <2> QED
    BY <1>6, <2>1 DEF ShowRecord
<1>7. CASE PostInactive
  BY <1>7 DEF PostInactive
<1>8. CASE CompleteRecord \/ ReturnRecord
  BY <1>8 DEF CompleteRecord, ReturnRecord
<1>9. CASE LeaveLoop
  BY <1>9 DEF LeaveLoop
<1> QED
  BY <1>1, <1>2, <1>3, <1>4, <1>5, <1>6, <1>7, <1>8, <1>9 DEF WorkerNext

---------------------------------------------------------------------------
(* The theorems.                                                           *)

\* No step but a request needs the first assumption.
LEMMA StepsAreTimely ==
    ASSUME Timely,
           \/ StartStep \/ LaunchStep \/ StopStep \/ CompleteStep
           \/ EventStep \/ ClickStop \/ WorkerNext \/ UNCHANGED vars
    PROVE  TimelyInvariant'
<1>1. CASE UNCHANGED vars
  BY <1>1 DEF Timely, vars, guiVars, workerVars, TimelyInvariant,
     DeviceFollows, LoopFollows, LoopIsWanted, StopFollows, LoopIsFresh
<1> QED
  BY <1>1, StartIsTimely, StopIsTimely, EventsAreTimely, WorkerIsTimely
  DEF EventStep

LEMMA InitTimely == Init => TimelyInvariant
BY DEF Init, TimelyInvariant, DeviceFollows, LoopFollows, LoopIsWanted,
   LoopIsFresh, StopFollows

\* Timers, device, processors and record loop follow the digitizer's state.
THEOREM TimelyInvariantHolds ==
    ASSUME AllSettled
    PROVE  Spec => []TimelyInvariant
<1>1. TypeOK /\ ControlInvariant /\ TimelyInvariant /\ [Next]_vars
          => TimelyInvariant'
  <2> SUFFICES ASSUME TypeOK, ControlInvariant, TimelyInvariant, [Next]_vars
               PROVE  TimelyInvariant'
    OBVIOUS
  <2>1. Timely
    BY AllSettled DEF Timely, AllSettled
  <2>2. CASE ClickStart
    <3>1. Settled /\ digState = "READY" /\ guiPc = "idle"
      BY <2>2, AllSettled
      DEF ClickStart, MayClickStart, RunAcquisition, AllSettled
    <3>2. LoopIsFresh /\ startCalls = 0
      BY <3>1 DEF Settled, Announcing, TimelyInvariant, LoopFollows,
         LoopIsFresh, TypeOK, LoopStates
    <3> QED
      BY <2>1, <2>2, <3>2, RequestIsTimely DEF ClickStart
  <2> QED
    BY <2>1, <2>2, StepsAreTimely DEF Next, GuiNext, UserStep
<1> QED
  BY <1>1, InitTimely, TypeCorrect, ControlInvariantHolds, PTL DEF Spec

\* READY leaves nothing of the last acquisition behind, but a device whose
\* StopDataAcquisition failed.
THEOREM ReadyIsAlwaysQuiet ==
    ASSUME AllSettled
    PROVE  Spec => []ReadyIsQuiet
<1>1. TypeOK /\ TimelyInvariant => ReadyIsQuiet
  BY DEF TypeOK, LoopStates, TimelyInvariant, DeviceFollows, LoopFollows,
     LoopIsWanted, ReadyIsQuiet
<1> QED
  BY <1>1, TypeCorrect, TimelyInvariantHolds, PTL

\* Records reach only processors that were started and are not finished.
THEOREM RecordsAreBetween ==
    ASSUME AllSettled
    PROVE  Spec => []RecordsBetweenStartAndFinish
<1>1. ControlInvariant /\ TimelyInvariant => RecordsBetweenStartAndFinish
  BY DEF ControlInvariant, ThreadsAgree, LoopStateOwnership, TimelyInvariant,
     DeviceFollows, LoopFollows, LoopIsWanted, StopFollows,
     RecordsBetweenStartAndFinish
<1> QED
  BY <1>1, ControlInvariantHolds, TimelyInvariantHolds, PTL

\* The two threads never use a record processor at the same time.
THEOREM ProcessorsAreNeverShared ==
    ASSUME AllSettled
    PROVE  Spec => []ProcessorsNotShared
<1>1. ControlInvariant /\ TimelyInvariant => ProcessorsNotShared
  BY DEF ControlInvariant, ThreadsAgree, LoopStateOwnership, TimelyInvariant,
     LoopFollows, LoopIsFresh, LoopIsWanted, StopFollows, ProcessorsNotShared
<1> QED
  BY <1>1, ControlInvariantHolds, TimelyInvariantHolds, PTL

\* startBufferProcessLoop is never asked of a loop in the error state, which
\* would drop the call: what a stop that overtakes the call breaks.
THEOREM StartFindsReset ==
    ASSUME AllSettled
    PROVE  Spec => []ResetBeforeStart
<1>1. TypeOK /\ TimelyInvariant => ResetBeforeStart
  BY DEF TypeOK, TimelyInvariant, LoopFollows, LoopIsFresh, ResetBeforeStart
<1> QED
  BY <1>1, TypeCorrect, TimelyInvariantHolds, PTL

\* The loop hands a record to the processors only while the device runs the
\* acquisition that they were started for, and the digitizer is ACTIVE or in
\* the handler that is about to announce it: the first processor of the list
\* is called in no other state.
RecordsTakenLive ==
    TakeRecord /\ workerPc' = "process" =>
        /\ device = "running" /\ processors = "open"
        /\ digState = "ACTIVE" \/ guiPc = "activate"

\* No record of an acquisition that is over is processed, whatever the stop,
\* the run timer and a failing device do meanwhile; records may be taken
\* before ACTIVE is announced, but not before the processors were started.
THEOREM RecordsAreTakenLive ==
    ASSUME AllSettled
    PROVE  Spec => [][RecordsTakenLive]_vars
<1>1. ASSUME TypeOK, ControlInvariant, TimelyInvariant
      PROVE  RecordsTakenLive
  <2> SUFFICES ASSUME TakeRecord, workerPc' = "process"
               PROVE  /\ device = "running" /\ processors = "open"
                      /\ digState = "ACTIVE" \/ guiPc = "activate"
    BY DEF RecordsTakenLive
  <2>1. loopState = "ACTIVE"
    BY DEF TakeRecord, WorkerGoes
  <2>2. LoopIsWanted
    BY <1>1, <2>1 DEF TimelyInvariant, LoopFollows
  <2> QED
    BY <1>1, <2>2 DEF TimelyInvariant, DeviceFollows, StopFollows, LoopIsWanted
<1>2. TypeOK /\ ControlInvariant /\ TimelyInvariant
          => [RecordsTakenLive]_vars
  BY <1>1
<1> QED
  BY <1>2, TypeCorrect, ControlInvariantHolds, TimelyInvariantHolds, PTL
  DEF Spec

---------------------------------------------------------------------------
(* The control implements the announced life cycle.                        *)

\* Who has the processors: the two threads never both, and ADQThread only
\* between start and finish.
LEMMA ProcessorsAreOwned ==
    ASSUME Timely
    PROVE  /\ RecordsBetweenStartAndFinish
           /\ ProcessorsNotShared
BY DEF Timely, ControlInvariant, ThreadsAgree, LoopStateOwnership,
   TimelyInvariant, DeviceFollows, LoopFollows, LoopIsFresh, LoopIsWanted,
   StopFollows,
   RecordsBetweenStartAndFinish, ProcessorsNotShared

\* The record loop touches the life cycle where it takes a record and where
\* it is done with it.
LEMMA OtherWorkFollowsLifecycle ==
    ASSUME WorkerNext, ~TakeRecord
    PROVE  [Lifecycle!Next]_(Lifecycle!lifecycleVars)
<1> USE DEF Lifecycle!Next, Lifecycle!lifecycleVars
<1>1. UNCHANGED <<digState, processors, device>>
  BY DEF WorkerNext, EnterLoop, TestLoop, LockApi, WaitReturnsNothing,
     WaitReturnsRecord, WaitReturnsError, JudgeError, SetSerror, PostSerror,
     ShowRecord, CompleteRecord, ReturnRecord, LeaveLoop, PostInactive, guiVars
<1>2. CASE CompleteRecord
  <2>1. workerPc \in ProcessingPcs /\ workerPc' \notin ProcessingPcs
    BY <1>2 DEF CompleteRecord, ProcessingPcs
  <2> QED
    BY <1>1, <2>1 DEF Lifecycle!EndWalk
<1>3. CASE ~CompleteRecord
  <2>1. workerPc \in ProcessingPcs <=> workerPc' \in ProcessingPcs
    BY <1>3 DEF WorkerNext, EnterLoop, TestLoop, LockApi, WaitReturnsNothing,
       WaitReturnsRecord, WaitReturnsError, JudgeError, SetSerror, PostSerror,
       ShowRecord, ReturnRecord, LeaveLoop, PostInactive, WorkerGoes,
       ProcessingPcs
  <2> QED
    BY <1>1, <2>1
<1> QED
  BY <1>2, <1>3

LEMMA LoopFollowsLifecycle ==
    ASSUME Timely, WorkerNext
    PROVE  [Lifecycle!Next]_(Lifecycle!lifecycleVars)
<1>1. CASE TakeRecord
  <2>1. /\ UNCHANGED <<digState, processors, device>>
        /\ workerPc = "got"
    BY <1>1 DEF TakeRecord, WorkerGoes, guiVars
  <2>2. CASE loopState = "ACTIVE"
    <3>1. /\ device = "running" /\ processors = "open"
          /\ digState \in {"STABILIZING", "ACTIVE"}
      BY <2>2 DEF Timely, TimelyInvariant, LoopFollows, LoopIsWanted,
         DeviceFollows, StopFollows
    <3>2. workerPc \notin ProcessingPcs /\ workerPc' \in ProcessingPcs
      BY <1>1, <2>2 DEF TakeRecord, WorkerGoes, ProcessingPcs
    <3> QED
      BY <2>1, <3>1, <3>2 DEF Lifecycle!BeginWalk, Lifecycle!Next
  <2>3. CASE loopState # "ACTIVE"
    BY <1>1, <2>1, <2>3
    DEF TakeRecord, WorkerGoes, ProcessingPcs, Lifecycle!lifecycleVars
  <2> QED
    BY <2>2, <2>3
<1>2. CASE ~TakeRecord
  BY <1>2, OtherWorkFollowsLifecycle
<1> QED
  BY <1>1, <1>2

LEMMA StepsFollowLifecycle ==
    ASSUME Timely, [Next]_vars
    PROVE  [Lifecycle!Next]_(Lifecycle!lifecycleVars)
<1> USE DEF Timely, TypeOK, TimelyInvariant, DeviceFollows, StopFollows,
            Lifecycle!Next, Lifecycle!lifecycleVars, Lifecycle!Goes
<1>1. ASSUME UNCHANGED <<digState, processors, device, workerPc>>
      PROVE  UNCHANGED Lifecycle!lifecycleVars
  BY <1>1
<1>2. CASE Configured
  <2>1. UNCHANGED workerPc /\ workerPc \notin ProcessingPcs
    BY <1>2, ProcessorsAreOwned DEF Configured, workerVars, ProcessorsNotShared
  <2> QED
    BY <1>2, <2>1
    DEF Configured, DeviceStops, Lifecycle!Prepare, ControlInvariant,
        ThreadsAgree
<1>3. CASE ConfigureFailed
  BY <1>3 DEF ConfigureFailed, DeviceStops, ControlInvariant, ThreadsAgree,
     workerVars
<1>4. CASE ClickStart
  BY <1>4 DEF ClickStart, RunAcquisition, Lifecycle!Request, workerVars
<1>5. CASE DelayEnds
  BY <1>1, <1>5 DEF DelayEnds, Lifecycle!Launch, workerVars
<1>15. CASE LaunchStep
  BY <1>1, <1>15 DEF LaunchStep, PostStart, BecomeActive, Lifecycle!GoLive,
     workerVars
<1>6. CASE StopDevice
  BY <1>6 DEF StopDevice, DeviceStops, Lifecycle!Halt, workerVars
<1>7. CASE CheckSerror
  BY <1>1, <1>7 DEF CheckSerror, Lifecycle!Drain, workerVars
<1>8. CASE FinishProcessors
  <2>1. UNCHANGED workerPc /\ workerPc \notin ProcessingPcs
    BY <1>8, ProcessorsAreOwned
    DEF FinishProcessors, workerVars, ProcessorsNotShared
  <2> QED
    BY <1>8, <2>1 DEF FinishProcessors, Lifecycle!Close
<1>9. CASE BecomeReady
  BY <1>9 DEF BecomeReady, Lifecycle!Complete, workerVars
<1>10. CASE StopWrite \/ CheckInactive \/ ResetLoop
  BY <1>1, <1>10 DEF StopWrite, CheckInactive, ResetLoop, workerVars
<1>11. CASE RunTimerEnds \/ DeliverInactive \/ DeliverStop \/ ClickStop
  BY <1>1, <1>11 DEF RunTimerEnds, DeliverInactive, DeliverStop, ClickStop,
     workerVars
<1>12. CASE DeliverScope
  <2>1. workerPc = "scope" /\ workerPc' = "shown"
    BY <1>12, QueueSteps DEF DeliverScope, ControlInvariant, ScopeIsAwaited
  <2> QED
    BY <1>12, <2>1 DEF DeliverScope, guiVars, ProcessingPcs
<1>13. CASE UNCHANGED vars
  BY <1>1, <1>13 DEF vars, guiVars, workerVars
<1>14. CASE WorkerNext
  BY <1>14, LoopFollowsLifecycle
<1> QED
  BY <1>2, <1>3, <1>4, <1>5, <1>6, <1>7, <1>8, <1>9, <1>10, <1>11, <1>12,
     <1>13, <1>14, <1>15
  DEF Next, GuiNext, StartStep, StopStep, CompleteStep, EventStep, UserStep,
      DeliverCall

\* The digitizer's states mean what the rest of the program takes them for:
\* every behaviour of the two threads is one of AcquisitionLifecycle.
THEOREM ControlImplementsLifecycle ==
    ASSUME AllSettled
    PROVE  Spec => LifecycleSpec
<1>1. Init => Lifecycle!Init
  BY DEF Init, Lifecycle!Init, ProcessingPcs
<1>2. TypeOK /\ ControlInvariant /\ TimelyInvariant /\ [Next]_vars
          => [Lifecycle!Next]_(Lifecycle!lifecycleVars)
  <2> SUFFICES ASSUME TypeOK, ControlInvariant, TimelyInvariant, [Next]_vars
               PROVE  [Lifecycle!Next]_(Lifecycle!lifecycleVars)
    OBVIOUS
  <2> QED
    BY AllSettled, StepsFollowLifecycle DEF Timely, AllSettled
<1> QED
  BY <1>1, <1>2, TypeCorrect, ControlInvariantHolds, TimelyInvariantHolds, PTL
  DEF Spec, LifecycleSpec, Lifecycle!Spec

=============================================================================
