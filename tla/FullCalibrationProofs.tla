----------------------- MODULE FullCalibrationProofs -----------------------
(***************************************************************************)
(* Theorems about FullCalibration: they hold for every number of stages    *)
(* and of acquisitions, and need no timing assumption.                     *)
(***************************************************************************)
EXTENDS FullCalibration, AcquisitionControlProofs

---------------------------------------------------------------------------
(* Sequences of frames.                                                    *)

\* Calls pushed on others leave the outermost call where it is, and push the
\* innermost one in front.
LEMMA PushedFrames ==
    ASSUME NEW above \in Seq(Frames), NEW below \in Seq(Frames)
    PROVE  /\ above \o below \in Seq(Frames)
           /\ below # <<>> => Outermost(above \o below) = Outermost(below)
           /\ below # <<>> => above \o below # <<>>
           /\ above # <<>> => Head(above \o below) = Head(above)
           /\ Unstaged(above) /\ Unstaged(below) => Unstaged(above \o below)
<1> DEFINE both == above \o below
<1>1. both \in Seq(Frames) /\ Len(both) = Len(above) + Len(below)
  OBVIOUS
<1>2. ASSUME below # <<>> PROVE Outermost(both) = Outermost(below)
  <2>1. Len(below) \in Nat \ {0} /\ Len(above) \in Nat
    BY <1>2
  <2>2. both[Len(above) + Len(below)] = below[Len(below)]
    BY <2>1
  <2> QED
    BY <1>1, <2>2 DEF Outermost
<1>3. ASSUME below # <<>> PROVE both # <<>>
  BY <1>1, <1>3
<1>4. ASSUME above # <<>> PROVE Head(both) = Head(above)
  BY <1>4
<1>5. ASSUME Unstaged(above), Unstaged(below) PROVE Unstaged(both)
  <2> SUFFICES ASSUME NEW i \in 1..(Len(above) + Len(below))
               PROVE  both[i] # "stage"
    BY <1>1 DEF Unstaged
  <2>1. CASE i <= Len(above)
    BY <1>5, <2>1 DEF Unstaged
  <2>2. CASE ~(i <= Len(above))
    <3>1. i - Len(above) \in DOMAIN below /\ both[i] = below[i - Len(above)]
      BY <2>2
    <3> QED
      BY <1>5, <3>1 DEF Unstaged
  <2> QED
    BY <2>1, <2>2
<1> QED
  BY <1>1, <1>2, <1>3, <1>4, <1>5

\* One call pushed on others.
LEMMA PushedFrame ==
    ASSUME NEW frame \in Frames, NEW below \in Seq(Frames)
    PROVE  LET calls == <<frame>> \o below
           IN  /\ calls \in Seq(Frames) /\ calls # <<>>
               /\ Head(calls) = frame /\ Tail(calls) = below
               /\ below # <<>> => Outermost(calls) = Outermost(below)
               /\ below = <<>> => calls = <<frame>> /\ Outermost(calls) = frame
<1> DEFINE calls == <<frame>> \o below
<1>1. <<frame>> \in Seq(Frames) /\ <<frame>> # <<>>
  OBVIOUS
<1>2. calls \in Seq(Frames) /\ Len(calls) = Len(below) + 1
  BY <1>1
<1>3. Tail(calls) = below
  <2>1. /\ Tail(calls) \in Seq(Frames) /\ Len(Tail(calls)) = Len(below)
        /\ \A i \in 1..Len(below) : Tail(calls)[i] = calls[i + 1]
    BY <1>2
  <2>2. \A i \in 1..Len(below) : calls[i + 1] = below[i]
    BY <1>1
  <2> QED
    BY <2>1, <2>2
<1>4. below = <<>> => calls = <<frame>> /\ Outermost(calls) = frame
  BY DEF Outermost
<1>5. Head(calls) = frame /\ calls # <<>>
  BY <1>1, <1>2
<1>6. below # <<>> => Outermost(calls) = Outermost(below)
  BY <1>1, PushedFrames
<1> QED
  BY <1>2, <1>3, <1>4, <1>5, <1>6

\* The announcement to the listeners.
LEMMA ReadyFrames ==
    ASSUME NEW n \in Nat
    PROVE  /\ Ready(n) \in Seq(Frames)
           /\ n # 0 => Ready(n) # <<>> /\ Head(Ready(n)) = "ready"
           /\ n = 0 => Ready(n) = <<>>
           /\ n = 1 => Ready(n) = <<"ready">>
           /\ Unstaged(Ready(n))
BY DEF Ready, Frames, Unstaged

\* Taking a call up.
LEMMA TakenFrames ==
    ASSUME NEW calls \in Seq(Frames), calls # <<>>
    PROVE  /\ Tail(calls) \in Seq(Frames) /\ Head(calls) \in Frames
           /\ Tail(calls) # <<>> => Outermost(Tail(calls)) = Outermost(calls)
           /\ Tail(calls) = <<>> => Outermost(calls) = Head(calls)
                                    /\ calls = <<Head(calls)>>
           /\ Unstaged(calls)
                 => Head(calls) # "stage" /\ Unstaged(Tail(calls))
           /\ Head(calls) # "stage" /\ Unstaged(Tail(calls))
                 => Unstaged(calls)
<1> DEFINE rest == Tail(calls)
<1>1. /\ rest \in Seq(Frames) /\ Head(calls) \in Frames
      /\ Len(calls) \in Nat \ {0} /\ Len(rest) = Len(calls) - 1
  OBVIOUS
<1>2. ASSUME rest # <<>> PROVE Outermost(rest) = Outermost(calls)
  <2>1. Len(rest) # 0
    BY <1>1, <1>2
  <2> QED
    BY <1>1, <2>1 DEF Outermost
<1>3. ASSUME rest = <<>>
      PROVE  Outermost(calls) = Head(calls) /\ calls = <<Head(calls)>>
  <2>1. Len(calls) = 1
    BY <1>1, <1>3
  <2> QED
    BY <1>1, <2>1 DEF Outermost
<1>4. /\ DOMAIN calls = 1..Len(calls) /\ DOMAIN rest = 1..Len(rest)
      /\ \A i \in DOMAIN rest : rest[i] = calls[i + 1]
      /\ calls[1] = Head(calls)
  BY <1>1
<1>5. ASSUME Unstaged(calls) PROVE Head(calls) # "stage" /\ Unstaged(rest)
  BY <1>1, <1>4, <1>5 DEF Unstaged
<1>6. ASSUME Head(calls) # "stage", Unstaged(rest) PROVE Unstaged(calls)
  <2> SUFFICES ASSUME NEW i \in 1..Len(calls), i # 1
               PROVE  calls[i] # "stage"
    BY <1>4, <1>6 DEF Unstaged
  <2>1. i - 1 \in DOMAIN rest /\ rest[i - 1] = calls[i]
    BY <1>1, <1>4
  <2> QED
    BY <1>6, <2>1 DEF Unstaged
<1> QED
  BY <1>1, <1>2, <1>3, <1>5, <1>6

\* The only calls a calibration that is not given up may rest on.
LEMMA SingleFrames ==
    ASSUME NEW frame \in Frames
    PROVE  /\ <<frame>> # <<>> /\ Head(<<frame>>) = frame
           /\ Tail(<<frame>>) = <<>> /\ Unstaged(Tail(<<frame>>))
BY DEF Unstaged

---------------------------------------------------------------------------
(* Types.                                                                  *)

\* runStage asks for an acquisition, and refuses one, within the types.
LEMMA StagesAreTyped ==
    ASSUME CalibrationTypeOK, NEW below \in Seq(Frames), RunStage(below)
    PROVE  /\ digState' \in DigitizerStates /\ guiPc' \in GuiPcs
           /\ frames' \in Seq(Frames)
<1>1. frames' \in Seq(Frames)
  <2>1. <<"stage">> \in Seq(Frames) /\ <<"refused">> \in Seq(Frames)
    BY DEF Frames
  <2>2. /\ <<"stage">> \o below \in Seq(Frames)
        /\ <<"refused">> \o below \in Seq(Frames)
    BY <2>1, PushedFrames
  <2> QED
    BY <2>2 DEF RunStage
<1> QED
  BY <1>1 DEF RunStage, RunAcquisition, CalibrationTypeOK, TypeOK,
     DigitizerStates, GuiPcs

\* No operation of the dialog takes a variable out of its type.
LEMMA CalibrationStepsAreTyped ==
    ASSUME CalibrationTypeOK, [CalibrationNext]_allVars
    PROVE  CalibrationTypeOK'
<1> USE DEF CalibrationTypeOK
<1>0. TypeOK
  OBVIOUS
<1>1. CASE StopRefused
  <2>1. TypeOK'
    BY <1>1 DEF StopRefused, AtFrame, BeginStop, TypeOK, GuiPcs, workerVars
  <2>2. frames' \in Seq(Frames)
    <3>1. <<"fail">> \in Seq(Frames) /\ frames # <<>>
      BY <1>1 DEF Frames, StopRefused, AtFrame
    <3> QED
      BY <1>1, <3>1 DEF StopRefused
  <2> QED
    BY <1>1, <2>1, <2>2 DEF StopRefused, computerVars
<1>2. CASE GiveUp \/ NoResults \/ SkipListener
  <2>1. frames # <<>> /\ frames' = Tail(frames) /\ UNCHANGED vars
    BY <1>2 DEF GiveUp, NoResults, SkipListener, AtFrame
  <2>2. TypeOK' /\ frames' \in Seq(Frames)
    BY <2>1, StepsAreTyped, TakenFrames
  <2>3. CASE GiveUp
    BY <2>2, <2>3 DEF GiveUp, StopAcquisitions, computerVars
  <2>4. CASE NoResults \/ SkipListener
    BY <2>2, <2>4 DEF NoResults, SkipListener, computerVars
  <2> QED
    BY <1>2, <2>3, <2>4
<1>3. CASE CompleteStage
  <2>1. Tail(frames) \in Seq(Frames)
    BY <1>3 DEF CompleteStage, AtFrame
  <2>2. /\ digState' \in DigitizerStates /\ guiPc' \in GuiPcs
        /\ frames' \in Seq(Frames)
    BY <1>3, <2>1, StagesAreTyped DEF CompleteStage, TypeOK
  <2>3. TypeOK'
    BY <1>3, <2>2 DEF CompleteStage, TypeOK, workerVars
  <2>4. active' \in BOOLEAN /\ listeners' \in Nat /\ enabled' \in BOOLEAN
    <3>1. CASE UNCHANGED <<listeners, active, enabled>>
      BY <3>1
    <3>2. CASE StopAcquisitions
      BY <3>2 DEF StopAcquisitions
    <3> QED
      BY <1>3, <3>1, <3>2 DEF CompleteStage
  <2>5. stage' \in Nat /\ UNCHANGED <<setups, list, computer>>
    BY <1>3 DEF CompleteStage, computerVars
  <2> QED
    BY <2>2, <2>3, <2>4, <2>5
<1>4. CASE StartCalibration
  <2>1. <<>> \in Seq(Frames)
    OBVIOUS
  <2>2. /\ digState' \in DigitizerStates /\ guiPc' \in GuiPcs
        /\ frames' \in Seq(Frames)
    BY <1>4, <2>1, StagesAreTyped DEF StartCalibration, TypeOK
  <2>3. runs' \in 0..MaxRuns
    BY <1>4, MaxRunsAssumption DEF StartCalibration, TypeOK
  <2>4. setups' \in Nat /\ listeners' \in Nat
    <3>1. PICK n \in StageCounts :
              \/ UNCHANGED <<setups, listeners>>
              \/ setups' = n /\ listeners' = listeners + 1
      BY <1>4 DEF StartCalibration
    <3> QED
      BY <3>1, StageCountsAssumption
  <2> QED
    BY <1>4, <2>2, <2>3, <2>4
    DEF StartCalibration, computerVars, TypeOK, workerVars
<1>5. CASE HandlerStep \/ QueueStep \/ TimerStep \/ DelayStep \/ ClickStep
           \/ WorkStep
  <2>1. Next
    BY <1>5 DEF HandlerStep, StageConfigured, StageRefused, DefaultConfigured,
       DefaultRefused, FinishList, AnnounceReady, GoLive, QueueStep,
       TimerStep, DelayStep, ClickStep, WorkStep, Dispatch, Next, GuiNext,
       StartStep, LaunchStep, CompleteStep, EventStep
  <2>2. TypeOK'
    BY <2>1, StepsAreTyped
  <2>3. CASE StageConfigured
    BY <2>2, <2>3 DEF StageConfigured
  <2>4. CASE StageRefused
    <3>1. <<"refused">> \in Seq(Frames) /\ frames # <<>>
      BY <2>4 DEF Frames, StageRefused
    <3> QED
      BY <2>2, <2>4, <3>1 DEF StageRefused
  <2>5. CASE AnnounceReady
    <3>1. Ready(listeners) \in Seq(Frames)
      BY ReadyFrames
    <3> QED
      BY <2>2, <2>5, <3>1 DEF AnnounceReady, computerVars
  <2>6. CASE DefaultConfigured \/ FinishList
    BY <2>2, <2>6 DEF DefaultConfigured, FinishList, calibrationVars
  <2>7. CASE GoLive
    BY <2>2, <2>7 DEF GoLive, computerVars
  <2>8. CASE Unchanged
    BY <2>2, <2>8 DEF Unchanged, calibrationVars, computerVars
  <2> QED
    BY <1>5, <2>3, <2>4, <2>5, <2>6, <2>7, <2>8
    DEF HandlerStep, QueueStep, TimerStep, DelayStep, ClickStep, WorkStep
<1>6. CASE UNCHANGED allVars
  <2>1. TypeOK'
    BY <1>6, StepsAreTyped DEF allVars
  <2> QED
    BY <1>6, <2>1 DEF allVars, calibrationVars, computerVars
<1> QED
  BY <1>1, <1>2, <1>3, <1>4, <1>5, <1>6 DEF CalibrationNext, DialogStep

\* Every operation of the dialog and of the digitizer under it keeps every
\* variable in its type.
THEOREM CalibrationTypeCorrect == CalibrationSpec => []CalibrationTypeOK
<1>1. CalibrationInit => CalibrationTypeOK
  <2> SUFFICES ASSUME CalibrationInit PROVE CalibrationTypeOK
    OBVIOUS
  <2>1. TypeOK
    BY InitTyped DEF CalibrationInit
  <2>2. frames \in Seq(Frames)
    BY DEF CalibrationInit
  <2> QED
    BY <2>1, <2>2 DEF CalibrationInit, CalibrationTypeOK
<1> QED
  BY <1>1, CalibrationStepsAreTyped, PTL DEF CalibrationSpec

---------------------------------------------------------------------------
(* The invariant.                                                          *)

\* What a step that takes up no call of the dialog must not do.
LEMMA OrdinaryStepIsSafe ==
    ASSUME CalibrationTypeOK, CalibrationInvariant,
           UNCHANGED <<frames, listeners, active, stage, setups, list>>,
           guiPc' \in {"reset", "ready"} /\ list = "calibration"
               => computer' = "finished",
           frames = <<"ready">> /\ guiPc = "idle"
               => UNCHANGED <<digState, guiPc, computer>>,
           digState' = "READY" => digState = "READY",
           guiPc' = "configure" => guiPc = "configure" /\ UNCHANGED digState,
           frames # <<>> /\ guiPc = "configure" => guiPc' = "configure"
    PROVE  CalibrationInvariant'
<1>1. Doomed' = Doomed
  BY DEF Doomed
<1> QED
  BY <1>1 DEF CalibrationInvariant

\* The calls of the dialog.
LEMMA DialogStepIsSafe ==
    ASSUME CalibrationTypeOK, CalibrationInvariant, DialogStep
    PROVE  CalibrationInvariant'
<1>0. /\ frames \in Seq(Frames) /\ frames # <<>> /\ guiPc = "idle"
      /\ Tail(frames) \in Seq(Frames)
      /\ Tail(frames) # <<>> => Outermost(Tail(frames)) = Outermost(frames)
      /\ Tail(frames) = <<>> => /\ Outermost(frames) = Head(frames)
                                /\ frames = <<Head(frames)>>
  <2>1. frames \in Seq(Frames) /\ frames # <<>> /\ guiPc = "idle"
    BY DEF DialogStep, StopRefused, GiveUp, CompleteStage, NoResults,
       SkipListener, AtFrame, CalibrationTypeOK
  <2> QED
    BY <2>1, TakenFrames
\* What is left when the innermost call is over is as doomed as before.
<1>1. ASSUME frames' = Tail(frames)
      PROVE  Tail(frames) # <<>> => Doomed' = Doomed
  BY <1>0, <1>1 DEF Doomed
<1>6. Tail(frames) # <<>> => /\ Head(Tail(frames)) # "stage"
                            /\ Unstaged(Tail(Tail(frames)))
  BY <1>0, TakenFrames DEF CalibrationInvariant
<1>2. CASE StopRefused
  <2>1. /\ Head(frames) = "refused" /\ frames' = <<"fail">> \o Tail(frames)
        /\ guiPc' \in {"stop_write", "stop_device"}
        /\ UNCHANGED <<digState, listeners, active, stage, setups, list>>
    BY <1>2 DEF StopRefused, AtFrame, BeginStop, computerVars
  <2>2. /\ frames' # <<>> /\ Head(frames') = "fail"
        /\ Tail(frames') = Tail(frames)
        /\ Tail(frames) # <<>> => Doomed' = Doomed
        /\ Tail(frames) = <<>> => Doomed'
    <3>1. "fail" \in Frames
      BY DEF Frames
    <3>2. /\ frames' # <<>> /\ Head(frames') = "fail"
          /\ Tail(frames') = Tail(frames)
          /\ Tail(frames) # <<>> =>
               Outermost(frames') = Outermost(Tail(frames))
          /\ Tail(frames) = <<>> => Outermost(frames') = "fail"
      BY <1>0, <2>1, <3>1, PushedFrame
    <3> QED
      BY <1>0, <3>2 DEF Doomed
  <2>3. Doomed
    BY <1>0, <2>1 DEF CalibrationInvariant
  <2> QED
    BY <1>0, <2>1, <2>2, <2>3 DEF CalibrationInvariant
<1>3. CASE GiveUp
  <2>1. /\ Head(frames) = "fail" /\ frames' = Tail(frames)
        /\ active' = FALSE /\ listeners' = 0
        /\ UNCHANGED <<digState, guiPc, list, computer>>
    BY <1>3 DEF GiveUp, AtFrame, StopAcquisitions, computerVars, vars, guiVars
  <2>2. Doomed
    BY <1>0, <2>1 DEF CalibrationInvariant
  <2>3. frames' # <<>> => Doomed'
    BY <1>1, <2>1, <2>2
  <2> QED
    BY <1>0, <1>6, <2>1, <2>3 DEF CalibrationInvariant
<1>4. CASE NoResults \/ SkipListener
  <2>1. /\ Head(frames) = "ready" /\ frames' = Tail(frames)
        /\ (active /\ computer # "finished") \/ listeners = 0
        /\ UNCHANGED <<digState, guiPc, listeners, active, stage, setups,
                       list, computer>>
    BY <1>4 DEF NoResults, SkipListener, AtFrame, computerVars, vars, guiVars
  <2>2. Doomed
    BY <1>0, <2>1 DEF CalibrationInvariant
  <2>3. Tail(frames) # <<>>
    BY <1>0, <2>1, <2>2 DEF Doomed
  <2> QED
    BY <1>0, <1>1, <1>6, <2>1, <2>2, <2>3 DEF CalibrationInvariant
<1>5. CASE CompleteStage
  <2>1. /\ Head(frames) = "ready" /\ active /\ listeners > 0
        /\ stage' = stage + 1 /\ UNCHANGED <<setups, list, computer>>
    BY <1>5 DEF CompleteStage, AtFrame, computerVars
  <2>2. Tail(frames) = <<>> => ~Doomed
    BY <1>0, <2>1 DEF Doomed
  <2>3. CASE stage' < setups
    <3>1. RunStage(Tail(frames)) /\ UNCHANGED <<listeners, active>>
      BY <1>5, <2>3 DEF CompleteStage
    <3>2. ~Doomed => Tail(frames) = <<>> /\ digState = "READY"
      <4>1. ~Doomed => frames = <<"ready">> /\ digState = "READY"
        BY <1>0, <2>1 DEF CalibrationInvariant
      <4> QED
        BY <4>1, SingleFrames DEF Frames
    <3>3. CASE digState = "READY"
      <4>1. /\ frames' = <<"stage">> \o Tail(frames)
            /\ guiPc' = "configure" /\ digState' = "STARTING"
        BY <3>1, <3>3 DEF RunStage, RunAcquisition
      <4>2. /\ frames' # <<>> /\ Head(frames') = "stage"
            /\ Tail(frames') = Tail(frames)
            /\ Tail(frames) # <<>> => Doomed' = Doomed
            /\ Tail(frames) = <<>> => frames' = <<"stage">>
        <5>1. "stage" \in Frames
          BY DEF Frames
        <5>2. /\ frames' # <<>> /\ Head(frames') = "stage"
              /\ Tail(frames') = Tail(frames)
              /\ Tail(frames) # <<>> =>
                   Outermost(frames') = Outermost(Tail(frames))
              /\ Tail(frames) = <<>> => frames' = <<"stage">>
          BY <1>0, <4>1, <5>1, PushedFrame
        <5> QED
          BY <1>0, <5>2 DEF Doomed
      <4>3. Tail(frames) # <<>> => Doomed'
        BY <3>2, <4>2
      <4>4. Tail(frames) = <<>> => ~(listeners > 1)
        BY <2>2 DEF CalibrationInvariant
      <4>5. Unstaged(Tail(frames'))
        BY <1>0, <4>2 DEF CalibrationInvariant
      <4>6. active' /\ stage' < setups' /\ listeners' > 0
        BY <2>1, <2>3, <3>1
      <4> QED
        BY <2>1, <3>1, <4>1, <4>2, <4>3, <4>4, <4>5, <4>6
        DEF CalibrationInvariant
    <3>4. CASE digState # "READY"
      <4>1. /\ frames' = <<"refused">> \o Tail(frames)
            /\ UNCHANGED <<guiPc, digState>>
        BY <3>1, <3>4 DEF RunStage
      <4>2. /\ frames' # <<>> /\ Head(frames') = "refused"
            /\ Tail(frames') = Tail(frames)
            /\ Tail(frames) # <<>> => Doomed' = Doomed
            /\ Tail(frames) = <<>> => Doomed'
        <5>1. "refused" \in Frames
          BY DEF Frames
        <5>2. /\ frames' # <<>> /\ Head(frames') = "refused"
              /\ Tail(frames') = Tail(frames)
              /\ Tail(frames) # <<>> =>
                   Outermost(frames') = Outermost(Tail(frames))
              /\ Tail(frames) = <<>> => Outermost(frames') = "refused"
          BY <1>0, <4>1, <5>1, PushedFrame
        <5> QED
          BY <1>0, <5>2 DEF Doomed
      <4>3. Doomed'
        BY <2>2, <3>2, <3>4, <4>2
      <4> QED
        BY <1>0, <2>1, <2>3, <3>1, <4>1, <4>2, <4>3 DEF CalibrationInvariant
    <3> QED
      BY <3>3, <3>4
  <2>4. CASE ~(stage' < setups)
    <3>1. /\ frames' = Tail(frames) /\ active' = FALSE /\ listeners' = 0
          /\ UNCHANGED <<digState, guiPc>>
      BY <1>5, <2>4 DEF CompleteStage, StopAcquisitions
    <3> QED
      BY <1>0, <1>1, <1>6, <2>1, <2>2, <3>1 DEF CalibrationInvariant
  <2> QED
    BY <2>3, <2>4
<1> QED
  BY <1>2, <1>3, <1>4, <1>5 DEF DialogStep

\* READY: whoever listens has a call of its own on top of the others.
LEMMA AnnounceReadyIsSafe ==
    ASSUME CalibrationTypeOK, CalibrationInvariant, AnnounceReady
    PROVE  CalibrationInvariant'
<1>1. /\ guiPc = "ready" /\ guiPc' = "idle" /\ digState' = "READY"
      /\ frames' = Ready(listeners) \o frames
      /\ UNCHANGED <<listeners, active, stage, setups, list, computer>>
  BY DEF AnnounceReady, BecomeReady, computerVars
<1>2. frames \in Seq(Frames) /\ listeners \in Nat /\ active \in BOOLEAN
  BY DEF CalibrationTypeOK
<1>3. CASE frames = <<>>
  <2>1. listeners = 0 \/ listeners = 1
    BY <1>2, <1>3 DEF CalibrationInvariant, Doomed
  <2>2. listeners = 0 => frames' = <<>>
    BY <1>1, <1>3, ReadyFrames
  <2>3. listeners = 1 => frames' = <<"ready">>
    BY <1>1, <1>3, ReadyFrames
  <2>4. listeners = 1 => list = "calibration" /\ computer = "finished"
    BY <1>1, <1>3 DEF CalibrationInvariant, Doomed
  <2>5. CASE listeners = 0
    <3>1. ~active
      BY <2>5 DEF CalibrationInvariant
    <3> QED
      BY <1>1, <2>2, <2>5, <3>1 DEF CalibrationInvariant
  <2>6. CASE listeners = 1
    <3>1. active
      BY <2>6 DEF CalibrationInvariant
    <3>2. frames' # <<>> => /\ Head(frames') = "ready"
                           /\ Unstaged(Tail(frames'))
      BY <2>3, <2>6, SingleFrames DEF Frames
    <3> QED
      BY <1>1, <2>3, <2>4, <2>6, <3>1, <3>2 DEF CalibrationInvariant
  <2> QED
    BY <2>1, <2>5, <2>6
<1>4. CASE frames # <<>>
  <2>1. Doomed /\ Unstaged(frames)
    BY <1>1, <1>2, <1>4, TakenFrames DEF CalibrationInvariant
  <2>2. /\ Ready(listeners) \in Seq(Frames) /\ Unstaged(Ready(listeners))
    BY <1>2, ReadyFrames
  <2>3. /\ frames' \in Seq(Frames) /\ frames' # <<>> /\ Unstaged(frames')
        /\ Outermost(frames') = Outermost(frames)
    BY <1>1, <1>2, <1>4, <2>1, <2>2, PushedFrames
  <2>4. Head(frames') # "stage" /\ Unstaged(Tail(frames'))
    BY <2>3, TakenFrames
  <2>5. Doomed'
    BY <2>1, <2>3 DEF Doomed
  <2> QED
    BY <1>1, <2>4, <2>5 DEF CalibrationInvariant
<1> QED
  BY <1>3, <1>4

\* The digitizer's handlers, for the dialog or for anybody else.
LEMMA HandlerStepIsSafe ==
    ASSUME CalibrationTypeOK, CalibrationInvariant, HandlerStep
    PROVE  CalibrationInvariant'
<1>1. CASE StageConfigured \/ StageRefused
  <2>0. /\ frames \in Seq(Frames) /\ frames # <<>> /\ guiPc = "configure"
        /\ Head(frames) = "stage" /\ guiPc' = "idle" /\ list' = "calibration"
        /\ UNCHANGED <<listeners, active, stage, setups>>
        /\ Tail(frames) \in Seq(Frames)
    BY <1>1, TakenFrames
    DEF StageConfigured, StageRefused, Configured, ConfigureFailed,
        CalibrationTypeOK, CalibrationInvariant
  <2>1. /\ Tail(frames) = <<>> => ~Doomed
        /\ Tail(frames) # <<>> =>
              /\ Doomed /\ Outermost(Tail(frames)) = Outermost(frames)
              /\ Head(Tail(frames)) # "stage" /\ Unstaged(Tail(Tail(frames)))
    <3>1. Tail(frames) = <<>> => ~Doomed
      BY <2>0, TakenFrames DEF Doomed
    <3>2. Tail(frames) # <<>> => Doomed
      BY <2>0, SingleFrames DEF CalibrationInvariant, Frames
    <3>3. Tail(frames) # <<>> => Outermost(Tail(frames)) = Outermost(frames)
      BY <2>0, TakenFrames
    <3>4. Unstaged(Tail(frames))
      BY <2>0 DEF CalibrationInvariant
    <3> QED
      BY <2>0, <3>1, <3>2, <3>3, <3>4, TakenFrames
  <2>2. CASE StageConfigured
    <3>1. frames' = Tail(frames) /\ digState' = "STABILIZING"
      BY <2>2 DEF StageConfigured, Configured
    <3>2. Tail(frames) # <<>> => Doomed'
      BY <2>1, <3>1 DEF Doomed
    <3> QED
      BY <2>0, <2>1, <3>1, <3>2 DEF CalibrationInvariant
  <2>3. CASE StageRefused
    <3>1. frames' = <<"refused">> \o Tail(frames)
      BY <2>3 DEF StageRefused
    <3>2. /\ frames' # <<>> /\ Head(frames') = "refused"
          /\ Tail(frames') = Tail(frames)
          /\ Doomed'
      <4>1. "refused" \in Frames
        BY DEF Frames
      <4>2. /\ frames' # <<>> /\ Head(frames') = "refused"
            /\ Tail(frames') = Tail(frames)
            /\ Tail(frames) # <<>> =>
                 Outermost(frames') = Outermost(Tail(frames))
            /\ Tail(frames) = <<>> => Outermost(frames') = "refused"
        BY <2>0, <3>1, <4>1, PushedFrame
      <4> QED
        BY <2>0, <2>1, <4>2 DEF Doomed
    <3> QED
      BY <2>0, <3>2 DEF CalibrationInvariant
  <2> QED
    BY <1>1, <2>2, <2>3
<1>2. CASE DefaultConfigured
  <2>1. /\ frames = <<>> /\ frames' = <<>> /\ guiPc = "configure"
        /\ guiPc' = "idle" /\ UNCHANGED <<listeners, active, list>>
    BY <1>2 DEF DefaultConfigured, Configured, calibrationVars
  <2>2. ~active /\ ~(listeners > 0)
    BY <2>1 DEF CalibrationInvariant, Doomed
  <2> QED
    BY <2>1, <2>2 DEF CalibrationInvariant, CalibrationTypeOK
<1>3. CASE (DefaultRefused \/ PostStart \/ StopStep \/ ResetLoop) /\ Unchanged
  BY <1>3, OrdinaryStepIsSafe
  DEF DefaultRefused, ConfigureFailed, PostStart, StopStep, StopWrite,
      StopDevice, CheckInactive, CheckSerror, CompletionEntry, ResetLoop,
      Unchanged, calibrationVars, computerVars, CalibrationInvariant
<1>4. CASE FinishList
  BY <1>4, OrdinaryStepIsSafe
  DEF FinishList, FinishProcessors, calibrationVars
<1>5. CASE GoLive
  BY <1>5, OrdinaryStepIsSafe DEF GoLive, BecomeActive, computerVars
<1> QED
  BY <1>1, <1>2, <1>3, <1>4, <1>5, AnnounceReadyIsSafe DEF HandlerStep

\* Start: pressed again while a calibration runs, it is refused.
LEMMA StartCalibrationIsSafe ==
    ASSUME CalibrationTypeOK, CalibrationInvariant, StartCalibration
    PROVE  CalibrationInvariant'
<1>0. /\ guiPc = "idle" /\ frames = <<>> /\ stage' = 0
      /\ UNCHANGED <<list, computer>>
      /\ stage \in Nat /\ setups \in Nat /\ listeners \in Nat
  BY DEF StartCalibration, computerVars, CalibrationTypeOK
<1>1. PICK n \in StageCounts :
        IF n = 0
        THEN UNCHANGED <<digState, guiPc, frames, listeners, active, setups,
                         enabled>>
        ELSE /\ setups' = n /\ listeners' = listeners + 1
             /\ active' = TRUE /\ enabled' = FALSE /\ RunStage(<<>>)
  BY DEF StartCalibration
<1>2. CASE n = 0
  <2>1. UNCHANGED <<digState, guiPc, frames, listeners, active, setups>>
    BY <1>1, <1>2
  <2>2. UNCHANGED Doomed
    BY <2>1 DEF Doomed
  <2> QED
    BY <1>0, <2>1, <2>2 DEF CalibrationInvariant
<1>3. CASE n # 0
  <2>1. /\ setups' = n /\ listeners' = listeners + 1 /\ active' = TRUE
        /\ RunStage(<<>>) /\ n \in Nat
    BY <1>1, <1>3, StageCountsAssumption
  <2>2. CASE digState = "READY"
    <3>1. /\ frames' = <<"stage">> /\ guiPc' = "configure"
          /\ digState' = "STARTING"
      BY <2>1, <2>2 DEF RunStage, RunAcquisition
    <3>2. listeners = 0
      BY <1>0, <2>2 DEF CalibrationInvariant, Doomed
    <3>3. Unstaged(Tail(<<"stage">>))
      BY DEF Unstaged
    <3> QED
      BY <1>0, <1>3, <2>1, <3>1, <3>2, <3>3 DEF CalibrationInvariant
  <2>3. CASE digState # "READY"
    <3>1. frames' = <<"refused">> /\ UNCHANGED <<guiPc, digState>>
      BY <2>1, <2>3 DEF RunStage
    <3>2. Doomed' /\ Unstaged(Tail(<<"refused">>))
      BY <3>1 DEF Doomed, Outermost, Unstaged
    <3> QED
      BY <1>0, <1>3, <2>1, <3>1, <3>2 DEF CalibrationInvariant
  <2> QED
    BY <2>2, <2>3
<1> QED
  BY <1>2, <1>3

\* What the event loops and the user do besides.
LEMMA EventsAreSafe ==
    ASSUME CalibrationTypeOK, CalibrationInvariant,
           QueueStep \/ TimerStep \/ DelayStep \/ ClickStep \/ WorkStep
    PROVE  CalibrationInvariant'
<1>1. CASE DelayStep
  BY <1>1, OrdinaryStepIsSafe
  DEF DelayStep, Dispatch, DelayEnds, BeginStop, Unchanged, calibrationVars,
      computerVars
<1>2. CASE QueueStep
  BY <1>2, OrdinaryStepIsSafe
  DEF QueueStep, Dispatch, DeliverCall, DeliverInactive, DeliverStop,
      DeliverScope, Delivered, CompletionEntry, BeginStop, guiVars, Unchanged,
      calibrationVars, computerVars
<1>3. CASE TimerStep
  BY <1>3, OrdinaryStepIsSafe
  DEF TimerStep, Dispatch, RunTimerEnds, Unchanged, calibrationVars,
      computerVars
<1>4. CASE ClickStep
  <2>1. CASE ClickStop
    BY <1>4, <2>1, OrdinaryStepIsSafe
    DEF ClickStep, Dispatch, ClickStop, BeginStop, Unchanged,
        calibrationVars, computerVars
  <2>2. CASE ClickStart
    <3>1. /\ frames = <<>> /\ frames' = <<>> /\ digState = "READY"
          /\ digState' = "STARTING" /\ guiPc' = "configure"
          /\ UNCHANGED <<listeners, active>>
      BY <1>4, <2>2 DEF ClickStep, Dispatch, ClickStart, RunAcquisition,
         Unchanged, calibrationVars
    <3>2. ~active /\ ~(listeners > 0)
      BY <3>1 DEF CalibrationInvariant, Doomed
    <3> QED
      BY <3>1, <3>2 DEF CalibrationInvariant, CalibrationTypeOK
  <2> QED
    BY <1>4, <2>1, <2>2 DEF ClickStep, Dispatch, UserStep
<1>5. CASE WorkStep
  <2>1. UNCHANGED <<digState, guiPc>> /\ Unchanged
    BY <1>5 DEF WorkStep, WorkerNext, EnterLoop, TestLoop, LockApi,
       WaitReturnsNothing, WaitReturnsRecord, WaitReturnsError, JudgeError,
       SetSerror, PostSerror, TakeRecord, ShowRecord, CompleteRecord,
       ReturnRecord, LeaveLoop, PostInactive, guiVars
  <2> QED
    BY <2>1, OrdinaryStepIsSafe
    DEF Unchanged, calibrationVars, computerVars, CalibrationInvariant
<1> QED
  BY <1>1, <1>2, <1>3, <1>4, <1>5

\* Whatever is pressed while whatever goes on, somebody answers for a
\* calibration that runs.
THEOREM CalibrationInvariantHolds == CalibrationSpec => []CalibrationInvariant
<1>1. CalibrationInit => CalibrationInvariant
  BY DEF CalibrationInit, Init, CalibrationInvariant, Doomed
<1>2. ASSUME CalibrationTypeOK, CalibrationInvariant,
             [CalibrationNext]_allVars
      PROVE  CalibrationInvariant'
  <2>1. CASE UNCHANGED allVars
    <3>1. UNCHANGED <<digState, guiPc, frames, listeners, active, stage,
                      setups, list, computer>>
      BY <2>1 DEF allVars, vars, guiVars, calibrationVars, computerVars
    <3>2. UNCHANGED Doomed
      BY <3>1 DEF Doomed
    <3> QED
      BY <1>2, <3>1, <3>2 DEF CalibrationInvariant
  <2> QED
    BY <1>2, <2>1, DialogStepIsSafe, HandlerStepIsSafe,
       StartCalibrationIsSafe, EventsAreSafe DEF CalibrationNext
<1> QED
  BY <1>1, <1>2, CalibrationTypeCorrect, PTL DEF CalibrationSpec

\* A running calibration hears the digitizer exactly once, any other dialog
\* not at all.
THEOREM HeardExactlyOnce == CalibrationSpec => []HeardOnce
<1>1. CalibrationTypeOK /\ CalibrationInvariant => HeardOnce
  BY DEF CalibrationTypeOK, CalibrationInvariant, Doomed, HeardOnce, AtRest
<1> QED
  BY <1>1, CalibrationTypeCorrect, CalibrationInvariantHolds, PTL

\* setups is never indexed past its end.
THEOREM StageAlwaysInRange == CalibrationSpec => []StageInRange
<1>1. CalibrationInvariant => StageInRange
  BY DEF CalibrationInvariant, StageInRange
<1> QED
  BY <1>1, CalibrationInvariantHolds, PTL

---------------------------------------------------------------------------
(* The digitizer under the dialog.                                         *)

\* An acquisition requested from READY, and a stop begun from a handler, take
\* the two threads apart as little as the buttons do.
LEMMA RequestKeepsControl ==
    ASSUME TypeOK, ControlInvariant, guiPc = "idle", RunAcquisition,
           UNCHANGED <<guiQueue, loopState, workerVars, processors>>
    PROVE  ControlInvariant'
BY DEF RunAcquisition, workerVars, ControlInvariant, ThreadsAgree,
   ScopeIsAwaited, EndIsAnnounced, LoopStateOwnership, BuffersReturned,
   FinishedWhenReady

LEMMA RefusalKeepsControl ==
    ASSUME TypeOK, ControlInvariant, guiPc = "idle", BeginStop,
           UNCHANGED <<digState, guiQueue, loopState, workerVars, processors>>
    PROVE  ControlInvariant'
BY DEF BeginStop, workerVars, ControlInvariant, ThreadsAgree,
   ScopeIsAwaited, EndIsAnnounced, LoopStateOwnership, BuffersReturned,
   FinishedWhenReady

\* runStage asks for an acquisition, or leaves the digitizer alone.
LEMMA StagesKeepControl ==
    ASSUME TypeOK, ControlInvariant, guiPc = "idle",
           \/ RunAcquisition
           \/ UNCHANGED <<digState, guiPc>>,
           UNCHANGED <<guiQueue, loopState, workerVars, processors>>
    PROVE  ControlInvariant'
<1>1. CASE UNCHANGED <<digState, guiPc>>
  BY <1>1 DEF workerVars, ControlInvariant, ThreadsAgree, ScopeIsAwaited,
     EndIsAnnounced, LoopStateOwnership, BuffersReturned, FinishedWhenReady
<1> QED
  BY <1>1, RequestKeepsControl

\* Stages that start inside the signal that ends the one before, a start that
\* is refused and stopped from there, a second start: the record loop and the
\* digitizer still agree, without any timing assumption.
THEOREM CalibrationKeepsControl == CalibrationSpec => []ControlInvariant
<1>1. CalibrationInit => ControlInvariant
  BY InitControl DEF CalibrationInit
<1>2. ASSUME CalibrationTypeOK, ControlInvariant, [CalibrationNext]_allVars
      PROVE  ControlInvariant'
  <2>0. TypeOK
    BY <1>2 DEF CalibrationTypeOK
  <2>1. CASE UNCHANGED vars
    BY <1>2, <2>0, <2>1, StepsKeepControl
  <2>2. CASE StopRefused
    BY <1>2, <2>0, <2>2, RefusalKeepsControl DEF StopRefused, AtFrame
  <2>3. CASE GiveUp \/ NoResults \/ SkipListener
    BY <2>1, <2>3 DEF GiveUp, NoResults, SkipListener
  <2>4. CASE CompleteStage
    <3>1. /\ RunAcquisition \/ UNCHANGED <<digState, guiPc>>
          /\ guiPc = "idle"
          /\ UNCHANGED <<guiQueue, loopState, workerVars, processors>>
      BY <2>4 DEF CompleteStage, RunStage, AtFrame
    <3> QED
      BY <1>2, <2>0, <3>1, StagesKeepControl
  <2>5. CASE StartCalibration
    <3>1. /\ RunAcquisition \/ UNCHANGED <<digState, guiPc>>
          /\ guiPc = "idle"
          /\ UNCHANGED <<guiQueue, loopState, workerVars, processors>>
      BY <2>5 DEF StartCalibration, RunStage
    <3> QED
      BY <1>2, <2>0, <3>1, StagesKeepControl
  <2>6. CASE HandlerStep \/ QueueStep \/ TimerStep \/ DelayStep
             \/ ClickStep \/ WorkStep
    <3>1. Next
      BY <2>6 DEF HandlerStep, StageConfigured, StageRefused,
         DefaultConfigured, DefaultRefused, FinishList, AnnounceReady, GoLive,
         QueueStep, TimerStep, DelayStep, ClickStep, WorkStep, Dispatch, Next,
         GuiNext, StartStep, LaunchStep, CompleteStep, EventStep
    <3> QED
      BY <1>2, <2>0, <3>1, StepsKeepControl
  <2> QED
    BY <1>2, <2>1, <2>2, <2>3, <2>4, <2>5, <2>6
    DEF CalibrationNext, DialogStep, allVars
<1> QED
  BY <1>1, <1>2, CalibrationTypeCorrect, PTL DEF CalibrationSpec

\* A stage in STOPPING is never forgotten, unless its stop was lost: only that
\* can keep a calibration from ending.
THEOREM StageStopIsAnswered == CalibrationSpec => []StopIsAnswered
<1>1. TypeOK /\ ControlInvariant => StopIsAnswered
  BY DEF TypeOK, LoopStates, ControlInvariant, ThreadsAgree, EndIsAnnounced,
     LoopStateOwnership, StopIsAnswered, StopLost
<1>2. CalibrationTypeOK => TypeOK
  BY DEF CalibrationTypeOK
<1> QED
  BY <1>1, <1>2, CalibrationTypeCorrect, CalibrationKeepsControl, PTL

=============================================================================
