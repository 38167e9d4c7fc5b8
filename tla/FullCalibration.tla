-------------------------- MODULE FullCalibration --------------------------
(***************************************************************************)
(* FullCalibrationDialog driving the digitizer of AcquisitionControl: one  *)
(* acquisition per stage, each started by the dialog's READY handler from  *)
(* inside the signal that completes the one before it.                     *)
(*                                                                         *)
(* Signals are delivered by direct calls, so a handler may run inside      *)
(* another. frames holds the calls that are still to go on, innermost      *)
(* first; the GUI thread takes the next one up when guiPc is "idle" and    *)
(* returns to its event loop when none is left.                            *)
(***************************************************************************)
EXTENDS AcquisitionControl

CONSTANTS StageCounts \* numbers of stages the user's selection may ask for

ASSUME StageCountsAssumption == StageCounts \subseteq Nat

VARIABLES
    frames,    \* calls of the dialog below the one that is running
    listeners, \* connections of digitizerStateChanged to onStateChanged
    active,    \* acquisitionActive
    stage,     \* currentSetupIndex
    setups,    \* number of stages in setups
    enabled,   \* the dialog takes input
    list,      \* whose processors the digitizer's only list holds
    computer   \* SignalParameterComputer: its finished flag

calibrationVars == <<frames, listeners, active, stage, setups, enabled>>
computerVars    == <<list, computer>>
allVars == <<vars, calibrationVars, computerVars>>

\* "stage": runStage waits for runOverridenAcquisition; "refused": that was
\* false; "fail": runStage has stopped the acquisition and returns false;
\* "ready": a call of onStateChanged(READY) is to be made.
Frames == {"stage", "refused", "fail", "ready"}

CalibrationTypeOK ==
    /\ TypeOK
    /\ frames \in Seq(Frames)
    /\ listeners \in Nat
    /\ active \in BOOLEAN
    /\ stage \in Nat /\ setups \in Nat
    /\ enabled \in BOOLEAN
    /\ list \in {"default", "calibration"}
    /\ computer \in {"unset", "started", "finished"}

CalibrationInit ==
    /\ Init
    /\ frames = <<>>
    /\ listeners = 0
    /\ active = FALSE
    /\ stage = 0
    /\ setups = 0
    /\ enabled = TRUE
    /\ list = "default"
    /\ computer = "unset"

---------------------------------------------------------------------------
(* runStage.                                                               *)

AtFrame(frame) ==
    guiPc = "idle" /\ frames # <<>> /\ Head(frames) = frame

\* runOverridenAcquisition is called with the calls in below left to return
\* to; it refuses unless the digitizer is READY.
RunStage(below) ==
    IF digState = "READY"
    THEN RunAcquisition /\ frames' = <<"stage">> \o below
    ELSE UNCHANGED <<digState, guiPc>> /\ frames' = <<"refused">> \o below

\* stopAcquisitions forgets every connection and gives the dialog back.
StopAcquisitions ==
    /\ active' = FALSE
    /\ listeners' = 0
    /\ enabled' = TRUE

\* The stage is configured: READY's list has become the dialog's, for good.
StageConfigured ==
    /\ frames # <<>>
    /\ Configured
    /\ frames' = Tail(frames)
    /\ list' = "calibration"
    /\ computer' = "started"
    /\ UNCHANGED <<listeners, active, stage, setups, enabled>>

StageRefused ==
    /\ frames # <<>>
    /\ ConfigureFailed
    /\ frames' = <<"refused">> \o Tail(frames)
    /\ list' = "calibration"
    /\ UNCHANGED <<listeners, active, stage, setups, enabled, computer>>

\* runStage calls stopAcquisition before it returns false.
StopRefused ==
    /\ AtFrame("refused")
    /\ BeginStop
    /\ frames' = <<"fail">> \o Tail(frames)
    /\ UNCHANGED <<digState, runs, guiQueue, loopState, workerVars,
                   startCalls, device, processors, listeners, active,
                   stage, setups, enabled, computerVars>>

\* Mutant of GiveUp: the connection to the digitizer stays.
GiveUpConnected ==
    /\ AtFrame("fail")
    /\ frames' = Tail(frames)
    /\ active' = FALSE /\ enabled' = TRUE /\ UNCHANGED listeners
    /\ UNCHANGED <<vars, stage, setups, computerVars>>

\* The caller of runStage gives the calibration up.
GiveUp ==
    /\ AtFrame("fail")
    /\ frames' = Tail(frames)
    /\ StopAcquisitions
    /\ UNCHANGED <<vars, stage, setups, computerVars>>

---------------------------------------------------------------------------
(* startCalibration.                                                       *)

\* Mutant of StartCalibration: currentSetupIndex is not set back to 0.
StartCalibrationGoesOn ==
    /\ guiPc = "idle" /\ frames = <<>>
    /\ enabled /\ runs < MaxRuns
    /\ runs' = runs + 1
    /\ stage' = stage
    /\ \E n \in StageCounts :
         IF n = 0
         THEN /\ UNCHANGED <<digState, guiPc, frames, listeners, active,
                             setups, enabled>>
         ELSE /\ setups' = n
              /\ listeners' = listeners + 1
              /\ active' = TRUE
              /\ enabled' = FALSE
              /\ RunStage(<<>>)
    /\ UNCHANGED <<delayTimer, runTimer, guiQueue, loopState, workerVars,
                   startCalls, device, processors, computerVars>>

\* The index is reset even when no channel is selected; nothing looks at the
\* state of the digitizer, or for a calibration that is already running.
StartCalibration ==
    /\ guiPc = "idle" /\ frames = <<>>
    /\ enabled /\ runs < MaxRuns
    /\ runs' = runs + 1
    /\ stage' = 0
    /\ \E n \in StageCounts :
         IF n = 0
         THEN /\ UNCHANGED <<digState, guiPc, frames, listeners, active,
                             setups, enabled>>
         ELSE /\ setups' = n
              /\ listeners' = listeners + 1
              /\ active' = TRUE
              /\ enabled' = FALSE
              /\ RunStage(<<>>)
    /\ UNCHANGED <<delayTimer, runTimer, guiQueue, loopState, workerVars,
                   startCalls, device, processors, computerVars>>

---------------------------------------------------------------------------
(* READY, and onStateChanged(READY).                                       *)

Ready(n) == [i \in 1..n |-> "ready"]

\* PrimaryWindow enables the dialog before the dialog itself is told.
AnnounceReady ==
    /\ BecomeReady
    /\ enabled' = TRUE
    /\ frames' = Ready(listeners) \o frames
    /\ UNCHANGED <<listeners, active, stage, setups, computerVars>>

\* Mutant of CompleteStage: acquisitionActive outlives the last stage.
CompleteStageActive ==
    /\ AtFrame("ready") /\ listeners > 0 /\ active
    /\ computer # "started"
    /\ stage' = stage + 1
    /\ IF stage' < setups
       THEN RunStage(Tail(frames)) /\ UNCHANGED <<listeners, active, enabled>>
       ELSE /\ frames' = Tail(frames)
            /\ listeners' = 0 /\ enabled' = TRUE /\ UNCHANGED active
            /\ UNCHANGED <<digState, guiPc>>
    /\ UNCHANGED <<delayTimer, runTimer, runs, guiQueue, loopState,
                   workerVars, startCalls, device, processors, setups,
                   computerVars>>

\* getResults answers (an unset flag may read as true), the next stage runs.
CompleteStage ==
    /\ AtFrame("ready") /\ listeners > 0 /\ active
    /\ computer # "started"
    /\ stage' = stage + 1
    /\ IF stage' < setups
       THEN RunStage(Tail(frames)) /\ UNCHANGED <<listeners, active, enabled>>
       ELSE /\ frames' = Tail(frames)
            /\ StopAcquisitions
            /\ UNCHANGED <<digState, guiPc>>
    /\ UNCHANGED <<delayTimer, runTimer, runs, guiQueue, loopState,
                   workerVars, startCalls, device, processors, setups,
                   computerVars>>

\* No result (an unset flag may read as false): the handler returns.
NoResults ==
    /\ AtFrame("ready") /\ listeners > 0 /\ active
    /\ computer # "finished"
    /\ frames' = Tail(frames)
    /\ UNCHANGED <<vars, listeners, active, stage, setups, enabled,
                   computerVars>>

\* A connection that was dropped while the signal was on its way.
SkipListener ==
    /\ AtFrame("ready") /\ listeners = 0
    /\ frames' = Tail(frames)
    /\ UNCHANGED <<vars, listeners, active, stage, setups, enabled,
                   computerVars>>

---------------------------------------------------------------------------
(* The rest of the program, from AcquisitionControl.                       *)

\* finish reaches the parameter computer when the list is the dialog's.
FinishList ==
    /\ FinishProcessors
    /\ computer' = IF list = "calibration" THEN "finished" ELSE computer
    /\ UNCHANGED <<calibrationVars, list>>

\* An ordinary acquisition assigns the list to itself.
DefaultConfigured ==
    /\ frames = <<>>
    /\ Configured
    /\ computer' = IF list = "calibration" THEN "started" ELSE computer
    /\ UNCHANGED <<calibrationVars, list>>

\* ACTIVE makes PrimaryWindow disable the dialog.
GoLive ==
    /\ BecomeActive
    /\ enabled' = FALSE
    /\ UNCHANGED <<frames, listeners, active, stage, setups, computerVars>>

DefaultRefused == frames = <<>> /\ ConfigureFailed
Dispatch(event) == frames = <<>> /\ event
Unchanged       == UNCHANGED <<calibrationVars, computerVars>>

DialogStep == StopRefused \/ GiveUp \/ CompleteStage \/ NoResults
              \/ SkipListener

HandlerStep ==
    \/ StageConfigured \/ StageRefused \/ DefaultConfigured
    \/ (DefaultRefused \/ PostStart \/ StopStep \/ ResetLoop) /\ Unchanged
    \/ GoLive \/ FinishList \/ AnnounceReady

QueueStep == Dispatch(DeliverCall) /\ Unchanged
TimerStep == Dispatch(RunTimerEnds) /\ Unchanged
DelayStep == Dispatch(DelayEnds) /\ Unchanged
ClickStep == Dispatch(UserStep) /\ Unchanged
WorkStep  == WorkerNext /\ Unchanged

CalibrationNext ==
    \/ DialogStep \/ HandlerStep \/ QueueStep \/ TimerStep \/ DelayStep
    \/ WorkStep \/ ClickStep \/ StartCalibration

CalibrationSpec == CalibrationInit /\ [][CalibrationNext]_allVars

\* As in AcquisitionControl; the user owes nothing.
CalibrationFairSpec ==
    /\ CalibrationSpec
    /\ WF_allVars(DialogStep) /\ SF_allVars(HandlerStep)
    /\ SF_allVars(DelayStep) /\ WF_allVars(QueueStep) /\ WF_allVars(TimerStep)
    /\ WF_allVars(WorkStep)

---------------------------------------------------------------------------
(* Properties.                                                             *)

AtRest == guiPc = "idle" /\ frames = <<>>

\* The call the GUI thread entered the dialog with.
Outermost(calls) == calls[Len(calls)]

\* Between events a running calibration hears the digitizer exactly once and
\* any other dialog not at all, whatever was pressed twice or failed halfway.
HeardOnce == AtRest => listeners = IF active THEN 1 ELSE 0

\* onStateChanged and runStage index setups with currentSetupIndex.
StageInRange ==
    \/ frames # <<>> /\ Head(frames) = "ready" /\ listeners > 0
    \/ active
    => stage < setups

\* runStage failed somewhere up the calls: it is to give the calibration up.
Doomed == frames # <<>> /\ Outermost(frames) \in {"refused", "fail"}

\* No call waits for an acquisition to be configured.
Unstaged(calls) == \A i \in DOMAIN calls : calls[i] # "stage"

\* Who listens, and who still answers for a calibration that runs: the call
\* that will give it up, the digitizer (which is not READY and has the
\* dialog's list), or a READY that finds the results finished.
CalibrationInvariant ==
    /\ active <=> listeners > 0
    /\ active => stage < setups
    /\ listeners > 1 => Doomed
    /\ frames # <<>> => active \/ Doomed
    /\ guiPc = "configure" => digState = "STARTING"
    /\ frames # <<>> => /\ guiPc = "configure" <=> Head(frames) = "stage"
                        /\ Unstaged(Tail(frames))
    /\ guiPc \in {"reset", "ready"} /\ list = "calibration"
           => computer = "finished"
    /\ active /\ ~Doomed =>
          \/ /\ frames = <<>> /\ list = "calibration"
             /\ digState # "READY" /\ guiPc # "configure"
          \/ frames = <<"stage">>
          \/ /\ frames = <<"ready">> /\ guiPc = "idle"
             /\ digState = "READY" /\ computer = "finished"

\* A calibration comes to an end, unless the stop of a stage is lost, or came
\* before its loop while the device failed to stop as well.
CalibrationEnds == active ~> (~active \/ StopLost \/ LoopEnteredLate)

\* Where the dialog reports that all calibration acquisitions finished, no
\* start of one is pending and the device is off.
AllFinished ==
    AtFrame("ready") /\ listeners > 0 /\ stage + 1 = setups
        => ~delayTimer /\ device = "off"

=============================================================================
