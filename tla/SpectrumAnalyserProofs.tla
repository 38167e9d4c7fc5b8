----------------------- MODULE SpectrumAnalyserProofs -----------------------
(***************************************************************************)
(* Theorems about SpectrumAnalyser, for every bin count, every number of   *)
(* words behind the bins, and any number of spectra, resets and programs.   *)
(***************************************************************************)
EXTENDS SpectrumAnalyser, TLAPS

USE CountsAssumption, WindowsAssumption, SettledAssumption
    DEF Shifts, Live, Taking

\* The plotter only has a spectrum while its acquisition is not over.
PlotterIsRecording == pc # "idle" => Taking

\* A slot is open on behalf of the state it is about to leave or has entered.
SlotIsOpen ==
    /\ phase = "ENDED" => slot = "none"
    /\ slot = "announce" => phase = "STABILIZING"
    /\ slot = "clear" => phase # "ACTIVE"

\* What was sent before is gone when the device is started.
StartsEmpty == phase = "STABILIZING" /\ ~Live => sent = <<>>

\* The device has one bin count for an acquisition ...
SentAlike ==
    Taking => \A i \in 1..Len(sent) : sent[i] = Bins(layout.shift)

\* ... and from the slider it is the plotter's, at each step of a spectrum.
TakenAlike ==
    "bins" \in chosen /\ ~record.waveform =>
        /\ pc # "refused"
        /\ pc \in {"copy", "total", "scope"} => record.bins = plotBins
        /\ pc \in {"total", "scope"} => record.copied = plotBins
        /\ pc = "scope" => record.total = plotBins

SpectrumInvariant ==
    /\ SpectrumTypeOK
    /\ DialogKnowsDevice
    /\ BitsAreCleared
    /\ PlotterIsRecording
    /\ SlotIsOpen
    /\ StartsEmpty
    /\ BinsSettled => SentAlike /\ TakenAlike

---------------------------------------------------------------------------
(* Lemmas.                                                                 *)

\* A masked write sets or clears its own bit and keeps every other one.
LEMMA WriteIsMasked ==
    ASSUME NEW bit \in Bits, NEW on \in BOOLEAN, SpectrumTypeOK,
           control' = Written(bit, on)
    PROVE  /\ control' \in SUBSET Bits
           /\ bit \in control' <=> on
           /\ \A other \in Bits \ {bit} : other \in control' <=> other \in control
BY DEF Written, SpectrumTypeOK

LEMMA BinsAreCounts == \A s \in Shifts : Bins(s) \in Nat
OBVIOUS

\* A program that starts knows nothing of the device and has asked nothing.
LEMMA InitSpectrum == Init => SpectrumInvariant
<1> SUFFICES ASSUME Init PROVE SpectrumInvariant
  OBVIOUS
<1>1. SpectrumTypeOK
  <2>1. 0 \in Shifts /\ Bins(0) \in Nat
    BY BinsAreCounts
  <2>2. sent \in Seq(Nat) /\ NoSpectrum \in Spectra
    BY DEF Init, NoSpectrum, Spectra
  <2> QED
    BY <2>1, <2>2 DEF Init, SpectrumTypeOK, Bits, BoxNames, Choices
<1> QED
  BY <1>1 DEF Init, SpectrumInvariant, DialogKnowsDevice, BitsAreCleared,
     PlotterIsRecording, SlotIsOpen, StartsEmpty, SentAlike, TakenAlike,
     NoSpectrum

\* An end takes the timers along and says so; a start disables the analyser.
LEMMA ProgramEndsIsSafe ==
    ASSUME SpectrumInvariant, ProgramEnds
    PROVE  SpectrumInvariant'
<1>1. SpectrumTypeOK'
  <2>1. 0 \in Shifts /\ Bins(0) \in Nat
    BY BinsAreCounts
  <2>2. sent' \in Seq(Nat) /\ NoSpectrum \in Spectra
    BY DEF ProgramEnds, NoSpectrum, Spectra
  <2> QED
    BY <2>1, <2>2 DEF ProgramEnds, Fresh, SpectrumInvariant, SpectrumTypeOK,
       BoxNames, Choices
<1> QED
  BY <1>1 DEF ProgramEnds, Fresh, SpectrumInvariant, DialogKnowsDevice,
     BitsAreCleared, PlotterIsRecording, SlotIsOpen, StartsEmpty, SentAlike,
     TakenAlike

LEMMA ProgramStartsIsSafe ==
    ASSUME SpectrumInvariant, ProgramStarts
    PROVE  SpectrumInvariant'
<1>1. /\ control' \in SUBSET Bits
      /\ "active" \notin control'
      /\ \A other \in Bits \ {"active"} : other \in control' <=> other \in control
  BY WriteIsMasked DEF SpectrumInvariant, ProgramStarts, Bits
<1>2. UNCHANGED <<slot, asked, enabled, layout, sent, dialogVars, plotVars,
                  walkVars>>
  BY DEF ProgramStarts
<1>3. phase = "ENDED" /\ phase' = "READY" /\ pc = "idle" /\ slot = "none"
  BY DEF ProgramStarts, SpectrumInvariant, PlotterIsRecording, SlotIsOpen
<1>4. SpectrumTypeOK'
  BY <1>1, <1>2, <1>3 DEF SpectrumInvariant, SpectrumTypeOK, dialogVars,
     plotVars, walkVars
<1>5. DialogKnowsDevice' /\ BitsAreCleared'
  BY <1>1, <1>2, <1>3 DEF SpectrumInvariant, DialogKnowsDevice, BitsAreCleared,
     Bits, dialogVars, plotVars
<1>6. TakenAlike => TakenAlike'
  BY <1>2 DEF TakenAlike, dialogVars, plotVars, walkVars
<1> QED
  BY <1>2, <1>3, <1>4, <1>5, <1>6 DEF SpectrumInvariant, PlotterIsRecording,
     SlotIsOpen, StartsEmpty, SentAlike, walkVars

---------------------------------------------------------------------------
(* The dialog.                                                             *)

LEMMA ToggleBitIsSafe ==
    ASSUME SpectrumInvariant, NEW bit \in {"transfer", "zcd"}, ToggleBit(bit)
    PROVE  SpectrumInvariant'
<1>1. /\ control' \in SUBSET Bits
      /\ bit \in control' <=> bit \in boxes'
      /\ \A other \in Bits \ {bit} : other \in control' <=> other \in control
  <2>1. CASE bit \in boxes'
    <3>1. control' = Written(bit, TRUE)
      BY <2>1 DEF ToggleBit, Written
    <3> QED
      BY <2>1, <3>1, WriteIsMasked DEF SpectrumInvariant, Bits
  <2>2. CASE bit \notin boxes'
    <3>1. control' = Written(bit, FALSE)
      BY <2>2 DEF ToggleBit, Written
    <3> QED
      BY <2>2, <3>1, WriteIsMasked DEF SpectrumInvariant, Bits
  <2> QED
    BY <2>1, <2>2
<1>2. /\ boxes' \in SUBSET BoxNames
      /\ \A other \in BoxNames \ {bit} : other \in boxes' <=> other \in boxes
  BY DEF ToggleBit, Toggled, BoxNames, SpectrumInvariant, SpectrumTypeOK
<1>3. SpectrumTypeOK'
  BY <1>1, <1>2 DEF ToggleBit, SpectrumInvariant, SpectrumTypeOK, lifeVars,
     plotVars, walkVars, Choices
<1>4. DialogKnowsDevice'
  BY <1>1, <1>2 DEF ToggleBit, SpectrumInvariant, DialogKnowsDevice, Bits,
     BoxNames, plotVars
<1> QED
  BY <1>1, <1>3, <1>4 DEF ToggleBit, SpectrumInvariant, BitsAreCleared,
     PlotterIsRecording, SlotIsOpen, StartsEmpty, SentAlike, TakenAlike,
     Bits, lifeVars, plotVars, walkVars

\* Slider and window share a register; each write keeps the other's field.
LEMMA LayoutStepsAreSafe ==
    ASSUME SpectrumInvariant, GuiIsFree,
           \/ \E new \in Shifts : MoveSlider(new)
           \/ \E window \in Windows : SetWindow(window)
    PROVE  SpectrumInvariant'
<1>0. layout \in Layouts
  BY DEF SpectrumInvariant, SpectrumTypeOK
<1>1. CASE \E new \in Shifts : MoveSlider(new)
  <2> PICK new \in Shifts : MoveSlider(new)
    BY <1>1
  <2>1. /\ layout' \in Layouts
        /\ layout'.shift = new /\ layout'.window = layout.window
    BY <1>0 DEF MoveSlider, Layouts
  <2>2. SpectrumTypeOK'
    BY <2>1, BinsAreCounts DEF MoveSlider, SpectrumInvariant, SpectrumTypeOK,
       lifeVars, walkVars, Choices
  <2>3. DialogKnowsDevice'
    BY <2>1 DEF MoveSlider, SpectrumInvariant, DialogKnowsDevice
  <2>4. BinsSettled => (SentAlike /\ TakenAlike)'
    BY DEF MoveSlider, MayMoveSlider, GuiIsFree, SpectrumInvariant,
       PlotterIsRecording, SentAlike, TakenAlike, lifeVars, walkVars
  <2> QED
    BY <2>2, <2>3, <2>4 DEF MoveSlider, SpectrumInvariant,
       BitsAreCleared, PlotterIsRecording, SlotIsOpen, StartsEmpty,
       lifeVars, walkVars
<1>2. CASE \E window \in Windows : SetWindow(window)
  <2> PICK window \in Windows : SetWindow(window)
    BY <1>2
  <2>1. /\ layout' \in Layouts
        /\ layout'.window = window /\ layout'.shift = layout.shift
    BY <1>0 DEF SetWindow, Layouts
  <2>2. SpectrumTypeOK'
    BY <2>1 DEF SetWindow, SpectrumInvariant, SpectrumTypeOK, lifeVars,
       plotVars, walkVars, Choices
  <2>3. DialogKnowsDevice'
    BY <2>1 DEF SetWindow, SpectrumInvariant, DialogKnowsDevice, plotVars
  <2>4. BinsSettled => (SentAlike /\ TakenAlike)'
    BY <2>1 DEF SetWindow, SpectrumInvariant, SentAlike, TakenAlike, lifeVars,
       plotVars, walkVars
  <2> QED
    BY <2>2, <2>3, <2>4 DEF SetWindow, SpectrumInvariant,
       BitsAreCleared, PlotterIsRecording, SlotIsOpen, StartsEmpty,
       lifeVars, walkVars
<1> QED
  BY <1>1, <1>2

\* A timer that is due is counted with each reset, so the bit is never left.
LEMMA ResetStepsAreSafe ==
    ASSUME SpectrumInvariant, ResetSpectrum \/ ResetEnds
    PROVE  SpectrumInvariant'
<1>1. /\ control' \in SUBSET Bits
      /\ \A other \in Bits \ {"reset"} : other \in control' <=> other \in control
  BY WriteIsMasked DEF SpectrumInvariant, ResetSpectrum, ResetEnds, Bits
<1>2. /\ resets' \in Nat /\ leftOver' \in BOOLEAN
      /\ "reset" \in control' => resets' > 0
  <2>0. resets \in Nat /\ leftOver \in BOOLEAN
    BY DEF SpectrumInvariant, SpectrumTypeOK
  <2>1. CASE ResetSpectrum
    <3>1. resets' = resets + 1 /\ leftOver' = leftOver
      BY <2>1 DEF ResetSpectrum
    <3> QED
      BY <2>0, <3>1
  <2>2. CASE ResetEnds
    <3>1. resets' \in Nat
      BY <2>0, <2>2 DEF ResetEnds
    <3>2. leftOver' = FALSE /\ "reset" \notin control'
      BY <2>2 DEF ResetEnds, Written
    <3> QED
      BY <3>1, <3>2
  <2> QED
    BY <2>1, <2>2
<1>3. UNCHANGED <<lifeVars, layout, sent, shift, curve, duration, boxes,
                  chosen, plotVars, walkVars>>
  BY DEF ResetSpectrum, ResetEnds
<1>4. SpectrumTypeOK'
  BY <1>1, <1>2, <1>3 DEF SpectrumInvariant, SpectrumTypeOK, lifeVars,
     plotVars, walkVars
<1>5. DialogKnowsDevice'
  BY <1>1, <1>3 DEF SpectrumInvariant, DialogKnowsDevice, Bits, plotVars
<1> QED
  BY <1>1, <1>2, <1>3, <1>4, <1>5 DEF SpectrumInvariant,
     BitsAreCleared, PlotterIsRecording, SlotIsOpen, StartsEmpty, SentAlike,
     TakenAlike, Bits, lifeVars, plotVars, walkVars

\* What is left of the dialog reaches neither register nor spectrum.
LEMMA OtherDialogStepsAreSafe ==
    ASSUME SpectrumInvariant, ChangeEnabled \/ ChangePlotChannel
    PROVE  SpectrumInvariant'
<1>1. UNCHANGED <<phase, slot, asked, deviceVars, dialogVars, plotBins,
                  walkVars>>
  BY DEF ChangeEnabled, ChangePlotChannel, lifeVars, plotVars
<1>2. enabled' \in BOOLEAN /\ listed' \in BOOLEAN
  BY DEF ChangeEnabled, ChangePlotChannel, lifeVars, plotVars,
     SpectrumInvariant, SpectrumTypeOK
<1>3. SpectrumTypeOK'
  BY <1>1, <1>2 DEF SpectrumInvariant, SpectrumTypeOK, deviceVars, dialogVars,
     walkVars
<1> QED
  BY <1>1, <1>3 DEF SpectrumInvariant, DialogKnowsDevice, BitsAreCleared,
     PlotterIsRecording, SlotIsOpen, StartsEmpty, SentAlike, TakenAlike,
     deviceVars, dialogVars, walkVars

---------------------------------------------------------------------------
(* The acquisition.                                                        *)

\* Only the bit of the analyser is written on the way through an acquisition,
\* and set only for a slot that goes on to announce ACTIVE.
LEMMA AcquisitionStepsAreSafe ==
    ASSUME SpectrumInvariant, AcquisitionStep
    PROVE  SpectrumInvariant'
<1>1. /\ control' \in SUBSET Bits
      /\ \A other \in Bits \ {"active"} : other \in control' <=> other \in control
      /\ "active" \in control' => phase' = "ACTIVE" \/ slot' # "none"
  <2>1. CASE GoLive
    BY <2>1, WriteIsMasked DEF GoLive, Bits, SpectrumInvariant
  <2>2. CASE ClearActive
    BY <2>2, WriteIsMasked DEF ClearActive, Bits, SpectrumInvariant
  <2>3. CASE \/ Completed \/ StopAcquisition \/ StopRefused \/ AnnounceActive
             \/ \E whose \in {"default", "calibration"} : Start(whose)
    BY <2>3 DEF Completed, StopAcquisition, StopRefused, AnnounceActive, Start,
       GuiIsFree, BitsAreCleared, SpectrumInvariant, SpectrumTypeOK, deviceVars
  <2> QED
    BY <2>1, <2>2, <2>3 DEF AcquisitionStep
<1>2. /\ UNCHANGED <<layout, dialogVars, plotBins>>
      /\ sent' = sent \/ sent' = <<>>
      /\ \/ UNCHANGED walkVars
         \/ pc' = "idle" /\ record' = NoSpectrum
  BY DEF AcquisitionStep, Start, GoLive, AnnounceActive, StopAcquisition,
     ClearActive, Completed, StopRefused, deviceVars, plotVars
<1>3. SpectrumTypeOK'
  <2>1. /\ phase' \in {"READY", "STABILIZING", "ACTIVE", "STOPPING", "ENDED"}
        /\ slot' \in {"none", "announce", "clear"}
        /\ asked' \in {"default", "calibration"}
        /\ enabled' \in BOOLEAN /\ listed' \in BOOLEAN
    BY DEF AcquisitionStep, Start, GoLive, AnnounceActive, StopAcquisition,
       ClearActive, Completed, StopRefused, SpectrumInvariant, SpectrumTypeOK,
       plotVars
  <2>2. /\ sent' \in Seq(Nat) /\ record' \in Spectra
        /\ pc' \in {"idle", "copy", "total", "scope", "rate", "refused"}
    <3>1. /\ sent \in Seq(Nat) /\ record \in Spectra /\ NoSpectrum \in Spectra
          /\ pc \in {"idle", "copy", "total", "scope", "rate", "refused"}
      BY DEF SpectrumInvariant, SpectrumTypeOK, NoSpectrum, Spectra
    <3>2. <<>> \in Seq(Nat)
      OBVIOUS
    <3> QED
      BY <1>2, <3>1, <3>2 DEF walkVars
  <2> QED
    BY <1>1, <1>2, <2>1, <2>2 DEF SpectrumInvariant, SpectrumTypeOK, dialogVars
<1>4. DialogKnowsDevice' /\ BitsAreCleared'
  BY <1>1, <1>2 DEF SpectrumInvariant, DialogKnowsDevice, BitsAreCleared, Bits,
     dialogVars
<1>5. PlotterIsRecording' /\ SlotIsOpen' /\ StartsEmpty'
  <2>1. CASE \E whose \in {"default", "calibration"} : Start(whose)
    BY <2>1 DEF Start, SpectrumInvariant, PlotterIsRecording, SlotIsOpen,
       StartsEmpty, walkVars
  <2>2. CASE GoLive \/ AnnounceActive
    BY <2>2 DEF GoLive, AnnounceActive, SpectrumInvariant, PlotterIsRecording,
       SlotIsOpen, StartsEmpty, walkVars
  <2>3. CASE StopAcquisition \/ ClearActive
    BY <2>3 DEF StopAcquisition, ClearActive, GuiIsFree, SpectrumInvariant,
       PlotterIsRecording, SlotIsOpen, StartsEmpty, walkVars, deviceVars
  <2>4. CASE Completed \/ StopRefused
    BY <2>4 DEF Completed, StopRefused, GuiIsFree, SpectrumInvariant,
       PlotterIsRecording, SlotIsOpen, StartsEmpty, walkVars, deviceVars
  <2> QED
    BY <2>1, <2>2, <2>3, <2>4 DEF AcquisitionStep
<1>6. BinsSettled => (SentAlike /\ TakenAlike)'
  <2>1. SentAlike => SentAlike'
    <3>1. CASE GoLive
      BY <1>2, <3>1 DEF GoLive, GuiIsFree, SpectrumInvariant, StartsEmpty,
         SentAlike
    <3>2. CASE sent' = <<>>
      BY <3>2 DEF SentAlike
    <3>3. CASE sent' = sent /\ (Taking' => Taking)
      BY <1>2, <3>3 DEF SentAlike
    <3>4. CASE AnnounceActive \/ StopAcquisition \/ ClearActive
      BY <3>3, <3>4 DEF AnnounceActive, StopAcquisition, ClearActive, GuiIsFree,
         deviceVars
    <3>5. CASE Completed \/ StopRefused
      BY <3>3, <3>5 DEF Completed, StopRefused, GuiIsFree, deviceVars
    <3> QED
      BY <3>1, <3>2, <3>4, <3>5 DEF AcquisitionStep, Start
  <2>2. TakenAlike => TakenAlike'
    BY <1>2 DEF TakenAlike, walkVars, dialogVars
  <2> QED
    BY <2>1, <2>2 DEF SpectrumInvariant
<1> QED
  BY <1>1, <1>3, <1>4, <1>5, <1>6 DEF SpectrumInvariant

---------------------------------------------------------------------------
(* The device and the plotter.                                             *)

LEMMA WindowEndsIsSafe ==
    ASSUME SpectrumInvariant, WindowEnds
    PROVE  SpectrumInvariant'
<1>1. layout.shift \in Shifts /\ Bins(layout.shift) \in Nat
  BY BinsAreCounts DEF SpectrumInvariant, SpectrumTypeOK, Layouts
<1>2. sent' \in Seq(Nat)
  BY <1>1 DEF WindowEnds, SpectrumInvariant, SpectrumTypeOK
<1>3. SpectrumTypeOK'
  BY <1>2 DEF WindowEnds, SpectrumInvariant, SpectrumTypeOK, lifeVars,
     dialogVars, plotVars, walkVars
<1>4. SentAlike => SentAlike'
  BY <1>1 DEF WindowEnds, SentAlike, SpectrumInvariant, SpectrumTypeOK, lifeVars
<1> QED
  BY <1>3, <1>4 DEF WindowEnds, SpectrumInvariant, DialogKnowsDevice,
     BitsAreCleared, PlotterIsRecording, SlotIsOpen, StartsEmpty,
     TakenAlike, lifeVars, dialogVars, plotVars, walkVars

\* What the plotter makes of a record it takes.
LEMMA TakeRecordResult ==
    ASSUME NEW bins \in Nat, NEW words \in Nat, NEW waveform \in BOOLEAN,
           TakeRecord(bins, words, waveform)
    PROVE  /\ record' \in Spectra
           /\ record'.bins = bins /\ record'.waveform = waveform
           /\ pc' \in {"copy", "refused"}
           /\ pc' = "refused" => ~Fits(words)
<1>1. record' = [bins |-> bins, copied |-> 0, total |-> 0,
                 waveform |-> waveform]
  BY DEF TakeRecord, NoSpectrum
<1>2. pc' = IF Fits(words) THEN "copy" ELSE "refused"
  BY DEF TakeRecord
<1> QED
  BY <1>1, <1>2 DEF Spectra

\* A spectrum fits a plotter that has the bin count of the device.
LEMMA TakeSpectrumIsSafe ==
    ASSUME SpectrumInvariant, TakeSpectrum
    PROVE  SpectrumInvariant'
<1>1. /\ Head(sent) \in Nat /\ sent' \in Seq(Nat)
      /\ 1 \in 1..Len(sent) /\ Head(sent) = sent[1]
      /\ \A i \in 1..Len(sent') : sent'[i] = sent[i + 1] /\ i + 1 \in 1..Len(sent)
  <2>1. sent \in Seq(Nat) /\ sent # <<>> /\ sent' = Tail(sent)
    BY DEF TakeSpectrum, SpectrumInvariant, SpectrumTypeOK
  <2> QED
    BY <2>1
<1>2. /\ record' \in Spectra /\ pc' \in {"idle", "copy", "refused"}
      /\ pc' # "idle" =>
           /\ record'.bins = Head(sent)
           /\ pc' = "refused" => ~Fits(Head(sent) + TotalWords)
  <2>1. CASE TakeRecord(Head(sent), Head(sent) + TotalWords, FALSE)
    <3>1. Head(sent) + TotalWords \in Nat
      BY <1>1
    <3>2. /\ record' \in Spectra /\ record'.bins = Head(sent)
          /\ pc' \in {"copy", "refused"}
          /\ pc' = "refused" => ~Fits(Head(sent) + TotalWords)
      BY <1>1, <2>1, <3>1, TakeRecordResult
    <3> QED
      BY <3>2
  <2>2. CASE UNCHANGED walkVars
    <3>1. record \in Spectra /\ pc = "idle"
      BY DEF TakeSpectrum, SpectrumInvariant, SpectrumTypeOK
    <3> QED
      BY <2>2, <3>1 DEF walkVars
  <2> QED
    BY <2>1, <2>2 DEF TakeSpectrum
<1>3. SpectrumTypeOK'
  BY <1>1, <1>2 DEF TakeSpectrum, SpectrumInvariant, SpectrumTypeOK, lifeVars,
     dialogVars, plotVars
<1>4. SentAlike => SentAlike'
  BY <1>1 DEF TakeSpectrum, SentAlike, lifeVars
<1>5. SentAlike => TakenAlike'
  <2> SUFFICES ASSUME SentAlike, "bins" \in chosen, pc' # "idle"
               PROVE  pc' # "refused" /\ record'.bins = plotBins
    BY <1>2 DEF TakenAlike, TakeSpectrum, dialogVars, plotVars
  <2>1. Head(sent) = plotBins
    <3>1. sent[1] = Bins(layout.shift)
      BY <1>1 DEF SentAlike, TakeSpectrum
    <3>2. layout.shift = shift /\ plotBins = Bins(shift)
      BY DEF SpectrumInvariant, DialogKnowsDevice
    <3> QED
      BY <1>1, <3>1, <3>2
  <2>2. Fits(Head(sent) + TotalWords)
    BY <2>1 DEF Fits, SpectrumInvariant, SpectrumTypeOK
  <2> QED
    BY <1>2, <2>1, <2>2
<1>6. DialogKnowsDevice' /\ BitsAreCleared'
  BY DEF TakeSpectrum, SpectrumInvariant, DialogKnowsDevice,
     BitsAreCleared, lifeVars, dialogVars, plotVars
<1>7. PlotterIsRecording' /\ SlotIsOpen' /\ StartsEmpty'
  BY DEF TakeSpectrum, SpectrumInvariant, PlotterIsRecording, SlotIsOpen,
     StartsEmpty, lifeVars
<1> QED
  BY <1>3, <1>4, <1>5, <1>6, <1>7 DEF SpectrumInvariant

\* A waveform touches no spectrum on its way.
LEMMA TakeWaveformIsSafe ==
    ASSUME SpectrumInvariant, TakeWaveform
    PROVE  SpectrumInvariant'
<1>1. UNCHANGED <<lifeVars, deviceVars, dialogVars, plotVars>> /\ Taking
  BY DEF TakeWaveform
<1>2. /\ record' \in Spectra /\ record'.waveform
      /\ pc' \in {"copy", "refused"}
  <2> PICK words \in Waveforms : TakeRecord(words, words, TRUE)
    BY DEF TakeWaveform
  <2> QED
    BY TakeRecordResult
<1>3. SpectrumTypeOK'
  BY <1>1, <1>2 DEF SpectrumInvariant, SpectrumTypeOK, lifeVars, deviceVars,
     dialogVars, plotVars
<1> QED
  BY <1>1, <1>2, <1>3 DEF SpectrumInvariant, DialogKnowsDevice,
     BitsAreCleared, PlotterIsRecording, SlotIsOpen, StartsEmpty, SentAlike,
     TakenAlike, lifeVars, deviceVars, dialogVars, plotVars

\* The bin count is read again for each bin and for the total count.
LEMMA PlottingIsSafe ==
    ASSUME SpectrumInvariant,
           CopyBins \/ ReadTotal \/ UpdateScope \/ UpdateRate
    PROVE  SpectrumInvariant'
<1>1. /\ UNCHANGED <<lifeVars, deviceVars, dialogVars, plotVars>>
      /\ pc # "idle"
  BY DEF CopyBins, ReadTotal, UpdateScope, UpdateRate
<1>2. /\ record' \in Spectra
      /\ pc' \in {"idle", "total", "scope", "rate"}
  <2>0. record \in Spectra /\ NoSpectrum \in Spectra /\ plotBins \in Nat
    BY DEF SpectrumInvariant, SpectrumTypeOK, Spectra, NoSpectrum
  <2>1. CASE CopyBins
    BY <2>0, <2>1 DEF CopyBins, Spectra
  <2>2. CASE ReadTotal
    BY <2>0, <2>2 DEF ReadTotal, Spectra
  <2>3. CASE UpdateScope \/ UpdateRate
    BY <2>0, <2>3 DEF UpdateScope, UpdateRate
  <2> QED
    BY <2>1, <2>2, <2>3
<1>3. SpectrumTypeOK'
  BY <1>1, <1>2 DEF SpectrumInvariant, SpectrumTypeOK, lifeVars, deviceVars,
     dialogVars, plotVars
<1>4. TakenAlike => TakenAlike'
  <2> SUFFICES ASSUME TakenAlike PROVE TakenAlike'
    OBVIOUS
  <2>0. record \in Spectra
    BY DEF SpectrumInvariant, SpectrumTypeOK
  <2>1. CASE CopyBins
    BY <2>0, <2>1 DEF CopyBins, TakenAlike, Spectra, dialogVars, plotVars
  <2>2. CASE ReadTotal
    BY <2>0, <2>2 DEF ReadTotal, TakenAlike, Spectra, dialogVars, plotVars
  <2>3. CASE UpdateScope \/ UpdateRate
    BY <2>3 DEF UpdateScope, UpdateRate, TakenAlike, dialogVars
  <2> QED
    BY <2>1, <2>2, <2>3
<1> QED
  BY <1>1, <1>3, <1>4 DEF SpectrumInvariant, DialogKnowsDevice,
     BitsAreCleared, PlotterIsRecording, SlotIsOpen, StartsEmpty,
     SentAlike, lifeVars, deviceVars, dialogVars, plotVars

---------------------------------------------------------------------------
(* Theorems.                                                               *)

LEMMA StepsAreSafe ==
    ASSUME SpectrumInvariant, [Next]_vars
    PROVE  SpectrumInvariant'
<1>1. CASE DialogStep
  BY <1>1, ToggleBitIsSafe, LayoutStepsAreSafe, ResetStepsAreSafe,
     OtherDialogStepsAreSafe DEF DialogStep
<1>2. CASE PlotterStep
  BY <1>2, TakeSpectrumIsSafe, TakeWaveformIsSafe, PlottingIsSafe
     DEF PlotterStep
<1>3. CASE UNCHANGED vars
  BY <1>3 DEF vars, lifeVars, deviceVars, dialogVars, plotVars, walkVars,
     SpectrumInvariant, SpectrumTypeOK, DialogKnowsDevice,
     BitsAreCleared, PlotterIsRecording, SlotIsOpen, StartsEmpty,
     SentAlike, TakenAlike
<1> QED
  BY <1>1, <1>2, <1>3, ProgramEndsIsSafe, ProgramStartsIsSafe,
     AcquisitionStepsAreSafe, WindowEndsIsSafe DEF Next, ProgramStep

\* The inductive invariant over registers, dialog and plotter.
THEOREM SpectrumInvariantHolds == Spec => []SpectrumInvariant
<1>1. SpectrumInvariant /\ [Next]_vars => SpectrumInvariant'
  BY StepsAreSafe
<1> QED
  BY <1>1, InitSpectrum, PTL DEF Spec

\* Every step keeps every variable in its type.
THEOREM SpectrumTypeCorrect == Spec => []SpectrumTypeOK
BY SpectrumInvariantHolds, PTL DEF SpectrumInvariant

\* What was set in the dialog is what device and plotter have.
THEOREM DialogAlwaysKnowsDevice == Spec => []DialogKnowsDevice
BY SpectrumInvariantHolds, PTL DEF SpectrumInvariant

\* While a program runs, the analyser counts in ACTIVE acquisitions and in the
\* slots before and behind them only, and the reset bit has its timer, however
\* presses overlap, unless an earlier program ended before it had cleared it.
THEOREM BitsAreAlwaysCleared == Spec => []BitsAreCleared
BY SpectrumInvariantHolds, PTL DEF SpectrumInvariant

\* With the slider left alone once ACTIVE, a bin count that was set holds for
\* the device and every access of the plotter: spectra are drawn whole.
THEOREM SpectraAreAlwaysWhole ==
    ASSUME BinsSettled
    PROVE  Spec => []SpectraWhole
<1>1. SpectrumInvariant => SpectraWhole
  BY DEF SpectrumInvariant, TakenAlike, SpectraWhole, Whole
<1> QED
  BY <1>1, SpectrumInvariantHolds, PTL

---------------------------------------------------------------------------
(* What a step may never do.                                               *)

\* The analyser counts from before ACTIVE is announced to the end of ACTIVE or
\* not at all: the dialog, which writes the same register all the while, and
\* the plotter never switch it on or off.
CountingIsKept ==
    Live /\ Live' => ("active" \in control <=> "active" \in control')

\* A bit or a field the user can set keeps its value, acquisitions, resets and
\* restarts of the program included, but when the dialog gives it the value
\* its own control shows from then on.
SettingsAreTheUsers ==
    /\ \A bit \in BoxNames :
         \/ bit \in control <=> bit \in control'
         \/ bit \in chosen' /\ (bit \in control' <=> bit \in boxes')
    /\ \/ layout'.shift = layout.shift
       \/ "bins" \in chosen' /\ layout'.shift = shift'
    /\ \/ layout'.window = layout.window
       \/ "window" \in chosen' /\ layout'.window = duration'

\* The steps that write neither register.
QuietStep ==
    \/ \E whose \in {"default", "calibration"} : Start(whose)
    \/ AnnounceActive \/ StopAcquisition \/ Completed \/ StopRefused
    \/ ProgramEnds \/ ChangeEnabled \/ ChangePlotChannel
    \/ WindowEnds \/ PlotterStep

\* The dialog's writes of the control register.
LEMMA DialogWrites ==
    ASSUME SpectrumTypeOK,
           \/ ResetSpectrum \/ ResetEnds
           \/ \E bit \in {"transfer", "zcd"} : ToggleBit(bit)
    PROVE  /\ "active" \in control <=> "active" \in control'
           /\ SettingsAreTheUsers
<1>1. CASE ResetSpectrum \/ ResetEnds
  <2>1. \A other \in Bits \ {"reset"} : other \in control' <=> other \in control
    BY <1>1, WriteIsMasked DEF ResetSpectrum, ResetEnds, Bits
  <2>2. UNCHANGED layout
    BY <1>1 DEF ResetSpectrum, ResetEnds
  <2> QED
    BY <2>1, <2>2 DEF SettingsAreTheUsers, Bits, BoxNames
<1>2. CASE \E bit \in {"transfer", "zcd"} : ToggleBit(bit)
  <2> PICK bit \in {"transfer", "zcd"} : ToggleBit(bit)
    BY <1>2
  <2>1. /\ \A other \in Bits \ {bit} : other \in control' <=> other \in control
        /\ bit \in control' <=> bit \in boxes'
    BY DEF ToggleBit, Written, Bits
  <2>2. bit \in chosen' /\ UNCHANGED layout
    BY DEF ToggleBit
  <2> QED
    BY <2>1, <2>2 DEF SettingsAreTheUsers, Bits, BoxNames
<1> QED
  BY <1>1, <1>2

\* The acquisition's and the program's, which know of one bit only.
LEMMA AcquisitionWrites ==
    ASSUME SpectrumTypeOK,
           SlotIsOpen,
           ProgramStarts \/ GoLive \/ ClearActive
    PROVE  /\ ~(Live /\ Live')
           /\ SettingsAreTheUsers
<1>1. \A other \in Bits \ {"active"} : other \in control' <=> other \in control
  BY DEF ProgramStarts, GoLive, ClearActive, Written
<1>2. /\ UNCHANGED layout
      /\ ~(Live /\ Live')
  BY DEF ProgramStarts, GoLive, ClearActive, GuiIsFree, SlotIsOpen
<1> QED
  BY <1>1, <1>2 DEF SettingsAreTheUsers, Bits, BoxNames

\* Slider and window write the register they share, and not the other one.
LEMMA LayoutWrites ==
    ASSUME SpectrumTypeOK,
           \/ \E new \in Shifts : MoveSlider(new)
           \/ \E window \in Windows : SetWindow(window)
    PROVE  UNCHANGED control /\ SettingsAreTheUsers
<1>1. layout \in Layouts
  BY DEF SpectrumTypeOK
<1>2. CASE \E new \in Shifts : MoveSlider(new)
  BY <1>1, <1>2 DEF MoveSlider, SettingsAreTheUsers, Layouts
<1>3. CASE \E window \in Windows : SetWindow(window)
  BY <1>1, <1>3 DEF SetWindow, SettingsAreTheUsers, Layouts
<1> QED
  BY <1>2, <1>3

LEMMA QuietStepsWriteNothing ==
    ASSUME QuietStep \/ UNCHANGED vars
    PROVE  UNCHANGED <<control, layout>>
BY DEF QuietStep, Start, Completed, ChangeEnabled, ChangePlotChannel,
   AnnounceActive, StopAcquisition, StopRefused, ProgramEnds, WindowEnds,
   PlotterStep, TakeSpectrum, TakeWaveform, CopyBins, ReadTotal, UpdateScope,
   UpdateRate, deviceVars, vars

LEMMA StepsShareRegisters ==
    ASSUME SpectrumTypeOK, SlotIsOpen, [Next]_vars
    PROVE  CountingIsKept /\ SettingsAreTheUsers
<1>1. CASE \/ ResetSpectrum \/ ResetEnds
           \/ \E bit \in {"transfer", "zcd"} : ToggleBit(bit)
  BY <1>1, DialogWrites DEF CountingIsKept
<1>2. CASE ProgramStarts \/ GoLive \/ ClearActive
  BY <1>2, AcquisitionWrites DEF CountingIsKept
<1>3. CASE \/ \E new \in Shifts : MoveSlider(new)
           \/ \E window \in Windows : SetWindow(window)
  BY <1>3, LayoutWrites DEF CountingIsKept
<1>4. CASE QuietStep \/ UNCHANGED vars
  BY <1>4, QuietStepsWriteNothing DEF CountingIsKept, SettingsAreTheUsers
<1> QED
  BY <1>1, <1>2, <1>3, <1>4 DEF Next, DialogStep, ProgramStep,
     AcquisitionStep, QuietStep

\* From its write to the end of ACTIVE, counting is the acquisition's alone.
THEOREM CountingIsAlwaysKept == Spec => [][CountingIsKept]_vars
<1>1. SpectrumInvariant /\ [Next]_vars => [CountingIsKept]_vars
  BY StepsShareRegisters DEF SpectrumInvariant
<1> QED
  BY <1>1, SpectrumInvariantHolds, PTL DEF Spec

\* What is set in the registers is undone by nobody else.
THEOREM SettingsAreAlwaysTheUsers == Spec => [][SettingsAreTheUsers]_vars
<1>1. SpectrumInvariant /\ [Next]_vars => [SettingsAreTheUsers]_vars
  BY StepsShareRegisters DEF SpectrumInvariant
<1> QED
  BY <1>1, SpectrumInvariantHolds, PTL DEF Spec

=============================================================================
