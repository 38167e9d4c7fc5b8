-------------------------- MODULE SpectrumAnalyser --------------------------
(***************************************************************************)
(* The pulse height analyser of the digitizer's firmware as the program    *)
(* drives it: two registers of the device, which SpectrumDialog and the    *)
(* acquisition of Digitizer write bit by bit; the dialog, which is open    *)
(* beside an acquisition and never disabled; and SpectrumPlotter, which    *)
(* ADQThread runs for the spectra the device sends.                        *)
(*                                                                         *)
(* The device outlives the program, which may end at any moment, in the    *)
(* middle of a slot too: what the dialog knew is lost, what the registers  *)
(* hold is kept, and the next program finds it. Slots of the GUI thread    *)
(* are one step each, but for onAcquisitionDelayEnd and stopAcquisition,   *)
(* which write the analyser's bit in one step and announce the state in    *)
(* another. processRecord of the plotter is cut where it reads the bin     *)
(* count, which the GUI thread changes without a lock.                     *)
(***************************************************************************)
EXTENDS Naturals, Sequences

CONSTANTS
    MaxBins,     \* MAX_SPECTRUM_BIN_COUNT
    MaxShift,    \* maximum of the slider binCount
    PlotterBins, \* the plotter's bin count until the slider is moved
    TotalWords,  \* words of a spectrum after its bins: the total count
    Windows,     \* window durations
    Waveforms,   \* lengths in words of the waveform records
    MaxSpectra,  \* bound: spectra on their way in the device
    MaxResets,   \* bound: resets whose end is still pending
    BinsSettled  \* assumption: the slider is left alone from ACTIVE to READY

Shifts == 0..MaxShift

\* Bin counts are powers of two: the slider takes bits off the largest.
Bins(shift) == MaxBins \div 2^shift

ASSUME CountsAssumption ==
    /\ Waveforms \subseteq Nat
    /\ MaxShift \in Nat /\ PlotterBins \in Nat /\ TotalWords \in Nat
    /\ MaxSpectra \in Nat /\ MaxResets \in Nat
    /\ \A shift \in Shifts : Bins(shift) \in Nat
ASSUME WindowsAssumption == 0 \in Windows
ASSUME SettledAssumption == BinsSettled \in BOOLEAN

VARIABLES
    phase,     \* Digitizer::currentState, or ENDED while no program runs
    slot,      \* what the GUI thread still has to do in the slot it is in
    asked,     \* whose acquisition it is
    enabled,   \* spectroscopeEnabled of the default acquisition
    control,   \* PHA_CONTROL_REGISTER: the bits that are set
    layout,    \* PHA_WINDOW_LENGTH_AND_BINCOUNT_REGISTER: its two fields
    sent,      \* spectra on their way, by the number of their bins
    shift,     \* the slider, and with it spectrumBinCount
    curve,     \* length of the dialog's x and y
    duration,  \* windowDuration
    boxes,     \* checked boxes: enableSpectrumDMA, useZCDTrigger
    resets,    \* single shots of resetSpectrum that have not fired
    leftOver,  \* history: a program ended before it had cleared its reset
    listed,    \* the plotter is in the list of record processors
    plotBins,  \* SpectrumPlotter::sampleCount
    pc,        \* next access of the plotter's processRecord
    record,    \* the spectrum in its hands
    chosen     \* history: what was set in the dialog since the program started

deviceVars == <<control, layout, sent>>
dialogVars == <<shift, curve, duration, boxes, resets, leftOver,
                chosen>>
plotVars   == <<listed, plotBins>>
walkVars   == <<pc, record>>
lifeVars   == <<phase, slot, asked, enabled>>
vars == <<lifeVars, deviceVars, dialogVars, plotVars, walkVars>>

---------------------------------------------------------------------------
(* Types.                                                                  *)

Bits     == {"active", "reset", "zcd", "transfer"}
BoxNames == {"transfer", "zcd"}
Choices  == {"bins", "window", "transfer", "zcd"}
Layouts  == [shift : Shifts, window : Windows]

\* A record in the plotter's hands: how many bins the device sent, how many
\* were copied, the word the total count was read from, and whether it is no
\* spectrum at all.
Spectra == [bins : Nat, copied : Nat, total : Nat, waveform : BOOLEAN]
NoSpectrum == [bins |-> 0, copied |-> 0, total |-> 0, waveform |-> FALSE]

SpectrumTypeOK ==
    /\ phase \in {"READY", "STABILIZING", "ACTIVE", "STOPPING", "ENDED"}
    /\ slot \in {"none", "announce", "clear"}
    /\ asked \in {"default", "calibration"}
    /\ enabled \in BOOLEAN
    /\ control \in SUBSET Bits
    /\ layout \in Layouts
    /\ sent \in Seq(Nat)
    /\ shift \in Shifts
    /\ curve \in Nat
    /\ duration \in Windows
    /\ boxes \in SUBSET BoxNames
    /\ resets \in Nat
    /\ leftOver \in BOOLEAN
    /\ listed \in BOOLEAN
    /\ plotBins \in Nat
    /\ pc \in {"idle", "copy", "total", "scope", "rate", "refused"}
    /\ record \in Spectra
    /\ chosen \in SUBSET Choices

---------------------------------------------------------------------------
(* The registers.                                                          *)

\* WriteUserRegister with the mask ~bit keeps the other bits.
Written(bit, on) ==
    IF on THEN control \cup {bit} ELSE control \ {bit}

---------------------------------------------------------------------------
(* Initial states: the program has started with a device that may have been *)
(* used before.                                                            *)

\* What the constructors and the .ui file leave behind.
Fresh ==
    /\ slot' = "none" /\ asked' = "default"
    /\ enabled' \in BOOLEAN
    /\ shift' = 0 /\ curve' = Bins(0) /\ duration' = 0
    /\ boxes' = {} /\ resets' = 0
    /\ listed' = FALSE /\ plotBins' = PlotterBins
    /\ pc' = "idle" /\ record' = NoSpectrum
    /\ chosen' = {}

Init ==
    /\ phase = "READY" /\ slot = "none" /\ asked = "default"
    /\ enabled \in BOOLEAN
    /\ control \in SUBSET {"zcd", "transfer", "reset"}
    /\ layout \in Layouts
    /\ sent = <<>>
    /\ shift = 0 /\ curve = Bins(0) /\ duration = 0
    /\ boxes = {} /\ resets = 0
    /\ leftOver \in BOOLEAN /\ (leftOver <=> "reset" \in control)
    /\ listed = FALSE /\ plotBins = PlotterBins
    /\ pc = "idle" /\ record = NoSpectrum
    /\ chosen = {}

\* The program is closed or crashes, at any point: timers that are due are
\* lost with it, and nothing is written to the registers on the way out.
ProgramEnds ==
    /\ phase # "ENDED"
    /\ phase' = "ENDED"
    /\ Fresh
    /\ leftOver' \in BOOLEAN /\ (leftOver' <=> "reset" \in control)
    /\ sent' = <<>>
    /\ UNCHANGED <<control, layout>>

\* Mutant of ProgramStarts: initialize leaves the control register alone.
StartsCounting ==
    /\ phase = "ENDED"
    /\ phase' = "READY"
    /\ UNCHANGED <<slot, asked, enabled, deviceVars, dialogVars, plotVars,
                   walkVars>>

\* initialize disables the analyser and neither reads nor writes any other
\* bit or field.
ProgramStarts ==
    /\ phase = "ENDED"
    /\ phase' = "READY"
    /\ control' = Written("active", FALSE)
    /\ UNCHANGED <<slot, asked, enabled, layout, sent, dialogVars, plotVars,
                   walkVars>>

ProgramStep == ProgramEnds \/ ProgramStarts

\* The GUI thread takes the next event.
GuiIsFree == slot = "none" /\ phase # "ENDED"

---------------------------------------------------------------------------
(* GUI thread: the dialog, enabled in every state.                         *)

Toggled(box) == IF box \in boxes THEN boxes \ {box} ELSE boxes \cup {box}

\* changeSpectrumDMAEnabled and changeUseZCDTrigger.
ToggleBit(bit) ==
    /\ boxes' = Toggled(bit)
    /\ control' = Written(bit, bit \in boxes')
    /\ chosen' = chosen \cup {bit}
    /\ UNCHANGED <<lifeVars, layout, sent, shift, curve, duration, resets,
                   leftOver, plotVars, walkVars>>

\* setSpectroscopeEnabled, and a configuration that replaces the default
\* acquisition: nothing reaches the device before the next start. The box
\* shows one and not the other, so either value may be set.
ChangeEnabled ==
    /\ enabled' \in BOOLEAN
    /\ UNCHANGED <<phase, slot, asked, deviceVars, dialogVars, plotVars,
                   walkVars>>

MayMoveSlider == BinsSettled => phase \in {"READY", "STABILIZING"}

\* changeSpectrumBinCount. The window length shares the register.
MoveSlider(new) ==
    /\ MayMoveSlider
    /\ new # shift
    /\ shift' = new
    /\ plotBins' = Bins(new)
    /\ layout' = [layout EXCEPT !.shift = new]
    /\ curve' = Bins(new)
    /\ chosen' = chosen \cup {"bins"}
    /\ UNCHANGED <<lifeVars, control, sent, duration, boxes, resets,
                   leftOver, listed, walkVars>>

\* Mutant of SetWindow: the mask is 0, the bin count goes back to the largest.
SetWindowUnmasked(window) ==
    /\ layout' = [shift |-> 0, window |-> window]
    /\ duration' = window
    /\ chosen' = chosen \cup {"window"}
    /\ UNCHANGED <<lifeVars, control, sent, shift, curve, boxes, resets,
                   leftOver, plotVars, walkVars>>

\* setSpectrumWindow. The bin count shares the register.
SetWindow(window) ==
    /\ layout' = [layout EXCEPT !.window = window]
    /\ duration' = window
    /\ chosen' = chosen \cup {"window"}
    /\ UNCHANGED <<lifeVars, control, sent, shift, curve, boxes, resets,
                   leftOver, plotVars, walkVars>>

\* resetSpectrum sets the bit and has it cleared a millisecond later.
ResetSpectrum ==
    /\ resets < MaxResets
    /\ control' = Written("reset", TRUE)
    /\ resets' = resets + 1
    /\ UNCHANGED <<lifeVars, layout, sent, shift, curve, duration, boxes,
                   leftOver, chosen, plotVars, walkVars>>

\* Mutant of ResetEnds: the timer is not a single shot.
ResetEndsRepeatedly ==
    /\ control' = Written("reset", FALSE)
    /\ resets' = resets - 1
    /\ leftOver' = FALSE
    /\ UNCHANGED <<lifeVars, layout, sent, shift, curve, duration, boxes,
                   chosen, plotVars, walkVars>>

ResetEnds ==
    /\ resets > 0
    /\ control' = Written("reset", FALSE)
    /\ resets' = resets - 1
    /\ leftOver' = FALSE
    /\ UNCHANGED <<lifeVars, layout, sent, shift, curve, duration, boxes,
                   chosen, plotVars, walkVars>>

\* changePlotChannel takes the plotter out and, for a channel, puts it back.
ChangePlotChannel ==
    /\ listed' \in BOOLEAN
    /\ UNCHANGED <<lifeVars, deviceVars, dialogVars, plotBins, walkVars>>

DialogStep ==
    /\ GuiIsFree
    /\ \/ \E bit \in {"transfer", "zcd"} : ToggleBit(bit)
       \/ \E new \in Shifts : MoveSlider(new)
       \/ \E window \in Windows : SetWindow(window)
       \/ ChangeEnabled \/ ResetSpectrum \/ ResetEnds \/ ChangePlotChannel

---------------------------------------------------------------------------
(* GUI thread: the acquisition.                                            *)

\* A calibration brings a list of its own, and leaves it behind. Its next
\* stage is started from READY, inside the slot that announces it.
Start(whose) ==
    /\ phase = "READY"
    /\ slot = "none" \/ (slot = "clear" /\ whose = "calibration")
    /\ phase' = "STABILIZING"
    /\ asked' = whose
    /\ listed' = (listed /\ whose = "default")
    /\ sent' = <<>>
    /\ UNCHANGED <<slot, enabled, control, layout, dialogVars, plotBins,
                   walkVars>>

\* onAcquisitionDelayEnd starts the device, and writes the setting of the
\* acquisition as it is by now; that of a stage is the constructor's. Records
\* taken before the write are no different from those taken behind it.
GoLive ==
    /\ phase = "STABILIZING" /\ GuiIsFree
    /\ control' = Written("active", asked = "default" => enabled)
    /\ slot' = "announce"
    /\ UNCHANGED <<phase, asked, enabled, layout, sent, dialogVars, plotVars,
                   walkVars>>

AnnounceActive ==
    /\ slot = "announce"
    /\ slot' = "none" /\ phase' = "ACTIVE"
    /\ UNCHANGED <<asked, enabled, deviceVars, dialogVars, plotVars, walkVars>>

\* stopAcquisition announces the state before it disables the analyser.
StopAcquisition ==
    /\ phase \in {"STABILIZING", "ACTIVE"} /\ GuiIsFree
    /\ phase' = IF phase = "ACTIVE" THEN "STOPPING" ELSE "READY"
    /\ slot' = "clear"
    /\ UNCHANGED <<asked, enabled, deviceVars, dialogVars, plotVars, walkVars>>

ClearActive ==
    /\ slot = "clear"
    /\ slot' = "none"
    /\ control' = Written("active", FALSE)
    /\ UNCHANGED <<phase, asked, enabled, layout, sent, dialogVars, plotVars,
                   walkVars>>

\* processorLoopStateChanged(INACTIVE): the loop is out of its last record.
Completed ==
    /\ phase = "STOPPING" /\ pc = "idle" /\ GuiIsFree
    /\ phase' = "READY"
    /\ UNCHANGED <<slot, asked, enabled, deviceVars, dialogVars, plotVars,
                   walkVars>>

\* A refused record ends the loop in SERROR, and that the acquisition.
StopRefused ==
    /\ pc = "refused" /\ GuiIsFree
    /\ pc' = "idle" /\ record' = NoSpectrum
    /\ phase' = "READY"
    /\ slot' = "clear"
    /\ UNCHANGED <<asked, enabled, deviceVars, dialogVars, plotVars>>

AcquisitionStep ==
    \/ \E whose \in {"default", "calibration"} : Start(whose)
    \/ GoLive \/ AnnounceActive
    \/ StopAcquisition \/ ClearActive \/ Completed \/ StopRefused

---------------------------------------------------------------------------
(* The device and ADQThread.                                               *)

\* The device is started before ACTIVE is announced.
Live == phase = "ACTIVE" \/ slot = "announce"

\* A wait under way when the acquisition is stopped may still bring a record.
Taking == Live \/ phase = "STOPPING"

\* A window is over: the firmware sends the bins it has by now.
WindowEnds ==
    /\ Live /\ "transfer" \in control
    /\ Len(sent) < MaxSpectra
    /\ sent' = Append(sent, Bins(layout.shift))
    /\ UNCHANGED <<lifeVars, control, layout, dialogVars, plotVars, walkVars>>

\* Mutant of Fits: a record longer than expected is refused as well.
FitsExactly(words) == words = plotBins

Fits(words) == words >= plotBins

\* processRecord compares the length of a record with the bin count, whatever
\* the record is.
TakeRecord(bins, words, waveform) ==
    /\ record' = [NoSpectrum EXCEPT !.bins = bins, !.waveform = waveform]
    /\ pc' = IF Fits(words) THEN "copy" ELSE "refused"

\* The loop returns at once what nobody plots, and what the plotter finds to
\* be of another channel.
TakeSpectrum ==
    /\ pc = "idle" /\ Taking /\ sent # <<>>
    /\ sent' = Tail(sent)
    /\ \/ listed /\ TakeRecord(Head(sent), Head(sent) + TotalWords, FALSE)
       \/ UNCHANGED walkVars
    /\ UNCHANGED <<lifeVars, control, layout, dialogVars, plotVars>>

\* A waveform of the plotted channel, which the device sends on its own.
TakeWaveform ==
    /\ pc = "idle" /\ Taking /\ listed
    /\ \E words \in Waveforms : TakeRecord(words, words, TRUE)
    /\ UNCHANGED <<lifeVars, deviceVars, dialogVars, plotVars>>

\* It copies that many bins, and takes the total from behind them; the bin
\* count is read again for each.
CopyBins ==
    /\ pc = "copy"
    /\ record' = [record EXCEPT !.copied = plotBins]
    /\ pc' = "total"
    /\ UNCHANGED <<lifeVars, deviceVars, dialogVars, plotVars>>

ReadTotal ==
    /\ pc = "total"
    /\ record' = [record EXCEPT !.total = plotBins]
    /\ pc' = "scope"
    /\ UNCHANGED <<lifeVars, deviceVars, dialogVars, plotVars>>

\* updateScope and updateSpectrumCalculatedParams run in the GUI thread while
\* ADQThread waits for each.
UpdateScope ==
    /\ pc = "scope" /\ GuiIsFree
    /\ pc' = "rate"
    /\ UNCHANGED <<lifeVars, deviceVars, dialogVars, plotVars, record>>

UpdateRate ==
    /\ pc = "rate" /\ GuiIsFree
    /\ pc' = "idle"
    /\ record' = NoSpectrum
    /\ UNCHANGED <<lifeVars, deviceVars, dialogVars, plotVars>>

PlotterStep ==
    \/ TakeSpectrum \/ TakeWaveform
    \/ CopyBins \/ ReadTotal \/ UpdateScope \/ UpdateRate

---------------------------------------------------------------------------

Next ==
    ProgramStep \/ DialogStep \/ AcquisitionStep \/ WindowEnds \/ PlotterStep

Spec == Init /\ [][Next]_vars

---------------------------------------------------------------------------
(* Properties.                                                             *)

\* Two registers and a plotter are set from one slider, one spin box and two
\* check boxes, by masked writes that share them with each other and with the
\* acquisition, and over restarts: what was set since the program started is
\* what device and plotter have. The curve has a point for every bin.
DialogKnowsDevice ==
    /\ curve = Bins(shift)
    /\ "bins" \in chosen => layout.shift = shift /\ plotBins = Bins(shift)
    /\ "window" \in chosen => layout.window = duration
    /\ \A bit \in {"transfer", "zcd"} :
         bit \in chosen => (bit \in control <=> bit \in boxes)

\* Two bits are set for a while only, by slots that are not the ones to clear
\* them. The analyser counts for an acquisition, and not on behind it but for
\* the rest of the slot that ends it, or when no program is left to end it: a
\* program that starts is never found counting. The reset, which may be
\* pressed again before its timer fires, has a timer pending; the one way to
\* leave it set is to end the program before the timer fires, and then the
\* next one keeps it until its own reset.
BitsAreCleared ==
    /\ "active" \in control => phase \in {"ACTIVE", "ENDED"} \/ slot # "none"
    /\ "reset" \in control => resets > 0 \/ leftOver

Whole(spectrum) ==
    spectrum.copied = spectrum.bins /\ spectrum.total = spectrum.bins

\* With a bin count set by the slider before the start, every spectrum the
\* device sends in the acquisition is drawn with all of its bins and the total
\* count behind them, and none is refused, which would end the acquisition. A
\* waveform of the same channel is drawn or refused by its length alone.
SpectraWhole ==
    "bins" \in chosen /\ ~record.waveform =>
        /\ pc = "scope" => Whole(record)
        /\ pc # "refused"

=============================================================================
