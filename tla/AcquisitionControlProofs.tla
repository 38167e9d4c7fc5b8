--------------------- MODULE AcquisitionControlProofs ---------------------
(***************************************************************************)
(* Theorems about AcquisitionControl that need no timing assumption: they  *)
(* hold for every value of the constants.                                  *)
(***************************************************************************)
EXTENDS AcquisitionControl, TLAPS

\* No operation takes a variable out of its type.
LEMMA StepsAreTyped ==
    ASSUME TypeOK, [Next]_vars
    PROVE  TypeOK'
<1> USE DEF TypeOK
<1>1. CASE GuiNext
  <2> USE DEF DigitizerStates, GuiPcs, GuiCalls, guiVars, workerVars
  <2>1. CASE StartStep
    BY <2>1 DEF StartStep, Configured, ConfigureFailed, DeviceStops
  <2>2. CASE StopStep
    BY <2>2 DEF StopStep, StopWrite, StopDevice, DeviceStops, CheckInactive,
       CheckSerror, CompletionEntry, LoopStates
  <2>3. CASE CompleteStep
    BY <2>3 DEF CompleteStep, FinishProcessors, ResetLoop, BecomeReady,
       LoopStates
  <2>4. CASE DelayEnds
    <3>1. runTimer' \in BOOLEAN /\ delayTimer' \in BOOLEAN
      BY <2>4 DEF DelayEnds, BeginStop
    <3>2. device' \in {"off", "running", "stuck"} /\ guiPc' \in GuiPcs
      BY <2>4 DEF DelayEnds, BeginStop
    <3> QED
      BY <2>4, <3>1, <3>2 DEF DelayEnds
  <2>9. CASE LaunchStep
    <3>1. CASE PostStart
      <4>1. runTimer' \in BOOLEAN /\ startCalls' \in Nat
        BY <3>1, TimedRunsAssumption DEF PostStart
      <4> QED
        BY <3>1, <4>1 DEF PostStart
    <3>2. CASE BecomeActive
      BY <3>2 DEF BecomeActive
    <3> QED
      BY <2>9, <3>1, <3>2 DEF LaunchStep
  <2>5. CASE RunTimerEnds
    <3>1. guiQueue' \in Seq(GuiCalls)
      BY <2>5 DEF RunTimerEnds, Post
    <3> QED
      BY <2>5, <3>1 DEF RunTimerEnds
  <2>6. CASE DeliverCall
    <3>1. guiQueue' \in Seq(GuiCalls)
      BY <2>6 DEF DeliverCall, DeliverInactive, DeliverStop, DeliverScope,
         Delivered
    <3>2. CASE DeliverInactive
      BY <3>1, <3>2 DEF DeliverInactive, CompletionEntry
    <3>3. CASE DeliverStop
      BY <3>1, <3>3 DEF DeliverStop, BeginStop
    <3>4. CASE DeliverScope
      BY <3>1, <3>4 DEF DeliverScope, WorkerPcs
    <3> QED
      BY <2>6, <3>2, <3>3, <3>4 DEF DeliverCall
  <2>7. CASE ClickStart
    BY <2>7, MaxRunsAssumption DEF ClickStart, RunAcquisition
  <2>8. CASE ClickStop
    BY <2>8 DEF ClickStop, BeginStop
  <2> QED
    BY <1>1, <2>1, <2>2, <2>3, <2>4, <2>5, <2>6, <2>7, <2>8, <2>9
    DEF GuiNext, EventStep, UserStep
<1>2. CASE WorkerNext
  <2> USE DEF WorkerPcs, WorkerGoes, guiVars
  <2>1. CASE EnterLoop
    BY <2>1 DEF EnterLoop, LoopStates
  <2>2. CASE SetSerror \/ LeaveLoop
    BY <2>2 DEF SetSerror, LeaveLoop, LoopStates
  <2>3. CASE PostSerror \/ PostInactive \/ ShowRecord
    BY <2>3 DEF PostSerror, PostInactive, ShowRecord, Post, GuiCalls
  <2>4. CASE TestLoop \/ LockApi \/ JudgeError \/ TakeRecord
    BY <2>4 DEF TestLoop, LockApi, JudgeError, TakeRecord
  <2>5. CASE WaitReturnsNothing \/ WaitReturnsRecord \/ WaitReturnsError
    BY <2>5 DEF WaitReturnsNothing, WaitReturnsRecord, WaitReturnsError
  <2>6. CASE CompleteRecord \/ ReturnRecord
    BY <2>6 DEF CompleteRecord, ReturnRecord
  <2> QED
    BY <1>2, <2>1, <2>2, <2>3, <2>4, <2>5, <2>6 DEF WorkerNext
<1>3. CASE UNCHANGED vars
  BY <1>3 DEF vars, guiVars, workerVars
<1> QED
  BY <1>1, <1>2, <1>3 DEF Next

LEMMA InitTyped == Init => TypeOK
<1> SUFFICES ASSUME Init PROVE TypeOK
  OBVIOUS
<1>1. guiQueue \in Seq(GuiCalls)
  BY DEF Init
<1>2. runs \in 0..MaxRuns /\ startCalls \in Nat
  BY MaxRunsAssumption DEF Init
<1> QED
  BY <1>1, <1>2
  DEF Init, TypeOK, DigitizerStates, GuiPcs, LoopStates, WorkerPcs

\* Every operation keeps every variable in its type.
THEOREM TypeCorrect == Spec => []TypeOK
BY InitTyped, StepsAreTyped, PTL DEF Spec

---------------------------------------------------------------------------

LEMMA InitControl == Init => ControlInvariant
BY DEF Init, ControlInvariant, ThreadsAgree, ScopeIsAwaited, EndIsAnnounced,
   LoopStateOwnership, BuffersReturned, FinishedWhenReady, ProcessingPcs

\* Only the waiting loop has a scope update queued, and only one.
LEMMA ScopeStaysAwaited ==
    ASSUME TypeOK, ScopeIsAwaited, Next
    PROVE  ScopeIsAwaited'
<1> USE DEF ScopeIsAwaited
<1>1. guiQueue \in Seq(GuiCalls)
  BY DEF TypeOK
<1>2. ASSUME NEW call \in GuiCalls \ {"scope"}, Post(call),
             workerPc = "scope" => workerPc' = "scope"
      PROVE  ScopeIsAwaited'
  BY <1>1, <1>2 DEF Post, GuiCalls
<1>3. ASSUME NEW calls, Delivered(calls)
      PROVE  \A i \in DOMAIN guiQueue' :
                 i + 1 \in DOMAIN guiQueue /\ guiQueue'[i] = guiQueue[i + 1]
  BY <1>1, <1>3 DEF Delivered
<1>4. ASSUME UNCHANGED guiQueue, workerPc = "scope" => workerPc' = "scope"
      PROVE  ScopeIsAwaited'
  BY <1>4
<1>5. CASE DeliverInactive
  <2>1. Delivered({"INACTIVE"}) /\ workerPc' = workerPc
    BY <1>5 DEF DeliverInactive, workerVars
  <2> QED
    BY <1>1, <1>3, <2>1
<1>6. CASE DeliverStop
  <2>1. Delivered({"SERROR", "timeout"}) /\ workerPc' = workerPc
    BY <1>6 DEF DeliverStop, workerVars
  <2> QED
    BY <1>1, <1>3, <2>1
<1>7. CASE DeliverScope
  <2>1. Delivered({"scope"})
    BY <1>7 DEF DeliverScope
  <2>2. 1 \in DOMAIN guiQueue /\ guiQueue[1] = "scope"
    BY <1>1, <2>1 DEF Delivered
  <2>3. \A i \in DOMAIN guiQueue' : guiQueue'[i] # "scope"
    BY <1>1, <1>3, <2>1, <2>2 DEF Delivered
  <2> QED
    BY <2>3
<1>8. CASE ShowRecord
  <2>1. workerPc # "scope" /\ workerPc' = "scope" /\ Post("scope")
    BY <1>8 DEF ShowRecord, WorkerGoes
  <2>2. \A i \in DOMAIN guiQueue : guiQueue[i] # "scope"
    BY <2>1
  <2> QED
    BY <1>1, <2>1, <2>2 DEF Post, GuiCalls
<1>9. CASE RunTimerEnds
  BY <1>2, <1>9 DEF RunTimerEnds, workerVars, GuiCalls
<1>10. CASE PostSerror \/ PostInactive
  BY <1>2, <1>10 DEF PostSerror, PostInactive, WorkerGoes, GuiCalls
<1>11. CASE StartStep \/ LaunchStep \/ StopStep \/ CompleteStep \/ DelayEnds
            \/ UserStep
  BY <1>4, <1>11 DEF StartStep, Configured, ConfigureFailed, LaunchStep,
     PostStart, BecomeActive, StopStep, StopWrite, StopDevice, CheckInactive,
     CheckSerror, CompleteStep,
     FinishProcessors, ResetLoop, BecomeReady, DelayEnds, UserStep, ClickStart,
     ClickStop, workerVars
<1>12. CASE EnterLoop \/ TestLoop \/ LockApi \/ JudgeError \/ SetSerror
            \/ TakeRecord \/ CompleteRecord \/ ReturnRecord \/ LeaveLoop
  BY <1>4, <1>12 DEF EnterLoop, TestLoop, LockApi, JudgeError, SetSerror,
     TakeRecord, CompleteRecord, ReturnRecord, LeaveLoop, WorkerGoes
<1>13. CASE WaitReturnsNothing \/ WaitReturnsRecord \/ WaitReturnsError
  BY <1>4, <1>13 DEF WaitReturnsNothing, WaitReturnsRecord, WaitReturnsError,
     WorkerGoes
<1> QED
  BY <1>5, <1>6, <1>7, <1>8, <1>9, <1>10, <1>11, <1>12, <1>13
  DEF Next, GuiNext, WorkerNext, EventStep, DeliverCall

\* The GUI thread keeps the invariant.
LEMMA GuiKeepsControl ==
    ASSUME TypeOK, ControlInvariant, GuiNext
    PROVE  ThreadsAgree'
<1>0. ThreadsAgree /\ ScopeIsAwaited
  BY DEF ControlInvariant
<1> USE <1>0 DEF ThreadsAgree, EndIsAnnounced, LoopStateOwnership,
                 BuffersReturned, FinishedWhenReady, ProcessingPcs, guiVars,
                 workerVars
<1>1. CASE StartStep
  BY <1>1 DEF StartStep, Configured, ConfigureFailed
<1>2. CASE StopWrite \/ StopDevice
  BY <1>2 DEF StopWrite, StopDevice
<1>3. CASE CheckInactive
  BY <1>3 DEF CheckInactive, CompletionEntry
<1>4. CASE CheckSerror
  BY <1>4 DEF CheckSerror, CompletionEntry
<1>5. CASE FinishProcessors \/ BecomeReady
  BY <1>5 DEF FinishProcessors, BecomeReady
<1>6. CASE ResetLoop
  BY <1>6 DEF ResetLoop
<1>7. CASE DelayEnds
  BY <1>7 DEF DelayEnds, BeginStop
<1>11. CASE LaunchStep
  BY <1>11 DEF LaunchStep, PostStart, BecomeActive
<1>8. CASE RunTimerEnds
  <2>1. guiQueue' # <<>>
    BY <1>8 DEF RunTimerEnds, Post, TypeOK
  <2> QED
    BY <1>8, <2>1 DEF RunTimerEnds
<1>9. CASE DeliverCall
  <2>1. CASE DeliverInactive
    BY <2>1 DEF DeliverInactive, CompletionEntry, Delivered
  <2>2. CASE DeliverStop
    BY <2>2 DEF DeliverStop, BeginStop, Delivered
  <2>3. CASE DeliverScope
    <3>1. workerPc = "scope"
      BY <2>3 DEF DeliverScope, Delivered, ScopeIsAwaited, TypeOK
    <3> QED
      BY <2>3, <3>1 DEF DeliverScope, Delivered
  <2> QED
    BY <1>9, <2>1, <2>2, <2>3 DEF DeliverCall
<1>10. CASE UserStep
  BY <1>10 DEF UserStep, ClickStart, RunAcquisition, ClickStop, BeginStop
<1> QED
  BY <1>1, <1>2, <1>3, <1>4, <1>5, <1>6, <1>7, <1>8, <1>9, <1>10,
     <1>11
  DEF GuiNext, StopStep, CompleteStep, EventStep

\* ADQThread keeps the invariant.
LEMMA WorkerKeepsControl ==
    ASSUME TypeOK, ControlInvariant, WorkerNext
    PROVE  ThreadsAgree'
<1>0. ThreadsAgree
  BY DEF ControlInvariant
<1> USE <1>0 DEF ThreadsAgree, EndIsAnnounced, LoopStateOwnership,
                 BuffersReturned, FinishedWhenReady, ProcessingPcs, guiVars,
                 WorkerGoes
<1>1. CASE EnterLoop
  BY <1>1 DEF EnterLoop
<1>2. CASE TestLoop \/ LockApi \/ JudgeError \/ TakeRecord
  BY <1>2 DEF TestLoop, LockApi, JudgeError, TakeRecord, TypeOK, LoopStates
<1>3. CASE WaitReturnsNothing \/ WaitReturnsRecord \/ WaitReturnsError
  BY <1>3 DEF WaitReturnsNothing, WaitReturnsRecord, WaitReturnsError
<1>4. CASE SetSerror
  BY <1>4 DEF SetSerror
<1>5. CASE PostSerror \/ PostInactive \/ ShowRecord
  <2>1. guiQueue' # <<>>
    BY <1>5 DEF PostSerror, PostInactive, ShowRecord, Post, TypeOK
  <2> QED
    BY <1>5, <2>1 DEF PostSerror, PostInactive, ShowRecord
<1>6. CASE CompleteRecord \/ ReturnRecord
  BY <1>6 DEF CompleteRecord, ReturnRecord
<1>7. CASE LeaveLoop
  BY <1>7 DEF LeaveLoop
<1> QED
  BY <1>1, <1>2, <1>3, <1>4, <1>5, <1>6, <1>7 DEF WorkerNext

LEMMA StepsKeepControl ==
    ASSUME TypeOK, ControlInvariant, [Next]_vars
    PROVE  ControlInvariant'
<1>1. CASE UNCHANGED vars
  BY <1>1 DEF vars, guiVars, workerVars, ControlInvariant, ThreadsAgree,
     ScopeIsAwaited, EndIsAnnounced, LoopStateOwnership, BuffersReturned,
     FinishedWhenReady
<1>2. CASE Next
  <2>1. ScopeIsAwaited'
    BY <1>2, ScopeStaysAwaited DEF ControlInvariant
  <2>2. ThreadsAgree'
    BY <1>2, GuiKeepsControl, WorkerKeepsControl DEF Next
  <2> QED
    BY <2>1, <2>2 DEF ControlInvariant
<1> QED
  BY <1>1, <1>2

\* The two threads agree on the loop state, the buffers and the processors.
THEOREM ControlInvariantHolds == Spec => []ControlInvariant
BY InitControl, StepsKeepControl, TypeCorrect, PTL DEF Spec

\* A digitizer in STOPPING is never forgotten, unless its stop was lost.
THEOREM StopIsAlwaysAnswered == Spec => []StopIsAnswered
<1>1. TypeOK /\ ControlInvariant => StopIsAnswered
  BY DEF TypeOK, LoopStates, ControlInvariant, ThreadsAgree, EndIsAnnounced,
     LoopStateOwnership, StopIsAnswered, StopLost
<1> QED
  BY <1>1, TypeCorrect, ControlInvariantHolds, PTL

\* A loop that waits for the GUI thread to draw is owed exactly one update,
\* and has left the API to the handler the GUI thread may be busy with: the
\* threads do not wait for each other.
ScopeIsOwed ==
    workerPc = "scope" =>
        /\ ApiFree
        /\ \E i \in DOMAIN guiQueue :
               /\ guiQueue[i] = "scope"
               /\ \A j \in DOMAIN guiQueue : guiQueue[j] = "scope" => j = i

ScopeIsQueued ==
    workerPc = "scope" => \E i \in DOMAIN guiQueue : guiQueue[i] = "scope"

\* Only its delivery takes a scope update out of the queue.
LEMMA ScopeStaysQueued ==
    ASSUME TypeOK, ScopeIsQueued, [Next]_vars
    PROVE  ScopeIsQueued'
<1> USE DEF ScopeIsQueued
<1>1. guiQueue \in Seq(GuiCalls)
  BY DEF TypeOK
<1>2. ASSUME UNCHANGED guiQueue, workerPc' = "scope" => workerPc = "scope"
      PROVE  ScopeIsQueued'
  BY <1>2
<1>3. ASSUME NEW call \in GuiCalls, Post(call)
      PROVE  /\ \A i \in DOMAIN guiQueue : /\ i \in DOMAIN guiQueue'
                                           /\ guiQueue'[i] = guiQueue[i]
             /\ \E i \in DOMAIN guiQueue' : guiQueue'[i] = call
  <2>1. /\ Len(guiQueue) + 1 \in DOMAIN guiQueue'
        /\ guiQueue'[Len(guiQueue) + 1] = call
    BY <1>1, <1>3 DEF Post
  <2> QED
    BY <1>1, <1>3, <2>1 DEF Post
<1>4. ASSUME NEW calls, Delivered(calls), "scope" \notin calls
      PROVE  \A i \in DOMAIN guiQueue : guiQueue[i] = "scope"
                 => /\ i - 1 \in DOMAIN guiQueue'
                    /\ guiQueue'[i - 1] = guiQueue[i]
  BY <1>1, <1>4 DEF Delivered
<1>5. CASE DeliverInactive
  <2>1. Delivered({"INACTIVE"}) /\ workerPc' = workerPc
    BY <1>5 DEF DeliverInactive, workerVars
  <2> QED
    BY <1>4, <2>1
<1>6. CASE DeliverStop
  <2>1. Delivered({"SERROR", "timeout"}) /\ workerPc' = workerPc
    BY <1>6 DEF DeliverStop, workerVars
  <2> QED
    BY <1>4, <2>1
<1>7. CASE DeliverScope
  BY <1>7 DEF DeliverScope
<1>8. CASE RunTimerEnds
  BY <1>3, <1>8 DEF RunTimerEnds, workerVars, GuiCalls
<1>9. CASE PostSerror \/ PostInactive
  BY <1>9 DEF PostSerror, PostInactive, WorkerGoes
<1>10. CASE ShowRecord
  BY <1>3, <1>10 DEF ShowRecord, GuiCalls
<1>11. CASE StartStep \/ LaunchStep \/ StopStep \/ CompleteStep \/ DelayEnds
            \/ UserStep \/ UNCHANGED vars
  BY <1>2, <1>11 DEF StartStep, Configured, ConfigureFailed, LaunchStep,
     PostStart, BecomeActive, StopStep, StopWrite, StopDevice, CheckInactive,
     CheckSerror, CompleteStep,
     FinishProcessors, ResetLoop, BecomeReady, DelayEnds, UserStep, ClickStart,
     ClickStop, workerVars, vars
<1>12. CASE EnterLoop \/ TestLoop \/ LockApi \/ JudgeError \/ SetSerror
            \/ TakeRecord \/ CompleteRecord \/ ReturnRecord \/ LeaveLoop
  BY <1>2, <1>12 DEF EnterLoop, TestLoop, LockApi, JudgeError, SetSerror,
     TakeRecord, CompleteRecord, ReturnRecord, LeaveLoop, WorkerGoes
<1>13. CASE WaitReturnsNothing \/ WaitReturnsRecord \/ WaitReturnsError
  BY <1>2, <1>13 DEF WaitReturnsNothing, WaitReturnsRecord, WaitReturnsError,
     WorkerGoes
<1> QED
  BY <1>5, <1>6, <1>7, <1>8, <1>9, <1>10, <1>11, <1>12, <1>13
  DEF Next, GuiNext, WorkerNext, EventStep, DeliverCall

\* A record loop that waits for its oscilloscope is never left waiting by the
\* GUI thread having nothing more to do for it.
THEOREM ScopeIsAlwaysOwed == Spec => []ScopeIsOwed
<1>1. Init => ScopeIsQueued
  BY DEF Init, ScopeIsQueued
<1>2. ControlInvariant /\ ScopeIsQueued => ScopeIsOwed
  BY DEF ControlInvariant, ScopeIsAwaited, ScopeIsQueued, ScopeIsOwed, ApiFree
<1> QED
  BY <1>1, <1>2, ScopeStaysQueued, TypeCorrect, ControlInvariantHolds, PTL
  DEF Spec

\* The record loop owns its state while it handles a record.
THEOREM LoopOwnsItsState == Spec => []LoopStateOwnership
<1>1. ControlInvariant => LoopStateOwnership
  BY DEF ControlInvariant, ThreadsAgree
<1> QED
  BY <1>1, ControlInvariantHolds, PTL

\* Every record buffer goes back to the device.
THEOREM BuffersAlwaysReturn == Spec => []BuffersReturned
<1>1. ControlInvariant => BuffersReturned
  BY DEF ControlInvariant, ThreadsAgree
<1> QED
  BY <1>1, ControlInvariantHolds, PTL

\* READY never precedes the end of the record processors.
THEOREM ReadyIsFinished == Spec => []FinishedWhenReady
<1>1. ControlInvariant => FinishedWhenReady
  BY DEF ControlInvariant, ThreadsAgree
<1> QED
  BY <1>1, ControlInvariantHolds, PTL

=============================================================================
