------------------------------ MODULE FrontEnd ------------------------------
(***************************************************************************)
(* The analog front end: input range, bias and digital offset that the     *)
(* device has for each channel, the default acquisition and the default    *)
(* calibration table of Digitizer they are meant to follow, and the        *)
(* calibration dialog, which measures, edits and applies a table of its    *)
(* own.                                                                    *)
(*                                                                         *)
(* Everything here runs on the GUI thread, so a handler is one step; only  *)
(* runStage, which calls itself when a stage fails, takes several, and no  *)
(* other handler comes between them. The acquisition is seen from its      *)
(* announced states, and of the calls a refused or failed stage nests only *)
(* the outcome (FullCalibration has the calls). Calls of single settings   *)
(* succeed: the code ignores what they return.                             *)
(***************************************************************************)
EXTENDS Integers

CONSTANTS
    NofChannels,  \* MAX_NOF_CHANNELS
    NofRanges,    \* INPUT_RANGE_COUNT
    CodeMin,      \* smallest and largest code of the converters
    CodeMax,
    Biases,       \* DC biases a user may ask for, in range or not
    Offsets,      \* values the boxes of the dialog may be set to
    Averages,     \* averages a stage may obtain, cut to integers
    Configs,      \* channel settings a configuration file may hold
    TableFiles,   \* tables a calibration file may hold
    MaxRequests   \* bound on what the user does

Channels == 0 .. NofChannels - 1
Ranges   == 0 .. NofRanges - 1
Codes    == CodeMin .. CodeMax

\* What Acquisition holds per channel, and what the device does.
Settings == [range : Ranges, dcBias : Int, analog : Int, digital : Int]
Levels   == [range : Ranges, bias : Codes, offset : Int]
Tables   == [Channels -> [Ranges -> [analog : Codes, digital : Codes]]]
Drafts   == [Channels -> [Ranges -> [analog : Int, digital : Int]]]
Modes    == {"ANALOG", "DIGITAL", "FINE_DIGITAL"}
Stages   == [channel : Channels, range : Ranges, mode : Modes]

ASSUME CountsAssumption == NofChannels \in Nat /\ NofRanges \in Nat
ASSUME CodesAssumption ==
    /\ CodeMin \in Int /\ CodeMax \in Int
    /\ CodeMin <= 0 /\ 0 <= CodeMax
ASSUME InputsAssumption ==
    /\ Biases \subseteq Int
    /\ Offsets \subseteq Codes
    /\ Averages \subseteq Int
    /\ Configs \subseteq [Channels -> Settings]
    /\ TableFiles \subseteq Drafts

VARIABLES
    phase,       \* what Digitizer::getDigitizerState returns
    asked,       \* whose acquisition it is
    acquired,    \* the channel mask of an ordinary one that is under way
    acq,         \* Digitizer::defaultAcquisition
    table,       \* Digitizer::defaultCalibrationTable
    device,      \* what the device was last told
    draft,       \* FullCalibrationDialog::calibrationTable
    file,        \* a calibration file
    todo,        \* setups from currentSetupIndex on
    calibrating, \* acquisitionActive of the dialog, and not yet given up
    enabled,     \* the dialog is enabled
    touched,     \* channels that were changed under way (history)
    requests     \* what the user has done so far

lifeVars   == <<phase, asked, acquired>>
dialogVars == <<draft, file, todo, calibrating, enabled>>
vars == <<lifeVars, acq, table, device, dialogVars, touched, requests>>

FrontEndTypeOK ==
    /\ phase \in {"READY", "STARTING", "STABILIZING", "STOPPING", "ACTIVE"}
    /\ asked \in {"default", "calibration"}
    /\ acquired \subseteq Channels
    /\ acq \in [Channels -> Settings]
    /\ table \in Tables /\ draft \in Drafts /\ file \in Drafts
    /\ device \in [Channels -> Levels]
    /\ todo \subseteq Stages
    /\ calibrating \in BOOLEAN /\ enabled \in BOOLEAN
    /\ touched \subseteq Channels
    /\ requests \in Nat

Underway == phase \in {"STABILIZING", "ACTIVE", "STOPPING"}

\* enableVolatileSettings: from ACTIVE until READY.
Locked == phase \in {"ACTIVE", "STOPPING"}

\* runStage has been called and has not returned.
InRunStage == phase = "STARTING" /\ asked = "calibration"

UserActs ==
    /\ ~InRunStage
    /\ requests < MaxRequests
    /\ requests' = requests + 1

---------------------------------------------------------------------------
(* Conversions and the single settings.                                    *)

Clip(n) == IF n < CodeMin THEN CodeMin ELSE IF n > CodeMax THEN CodeMax ELSE n

\* Mutant of Shift: the sum is not clipped.
ShiftUnclipped(s) == s.analog + s.dcBias

\* getTotalDCShift.
Shift(s) == Clip(s.analog + s.dcBias)

\* setDCBias of a channel.
BiasSet(ch, bias) ==
    /\ acq' = [acq EXCEPT ![ch].dcBias = Clip(bias)]
    /\ device' = [device EXCEPT ![ch].bias = Shift(acq'[ch])]

\* A calibration is touched by everything that may change the device or the
\* draft, an ordinary acquisition by what changes a range.
TouchIf(underWay, chs) ==
    touched' = IF underWay THEN touched \cup chs ELSE touched

---------------------------------------------------------------------------
(* The channel tabs and the menu.                                          *)

\* The offset of the new range is not looked up.
SetInputRange(ch, range) ==
    /\ UserActs /\ ~Locked
    /\ acq' = [acq EXCEPT ![ch].range = range]
    /\ device' = [device EXCEPT ![ch].range = range]
    /\ TouchIf(Underway, {ch})
    /\ UNCHANGED <<lifeVars, table, dialogVars>>

SetDCBias(ch, bias) ==
    /\ UserActs /\ ~Locked
    /\ BiasSet(ch, bias)
    /\ TouchIf(calibrating, {ch})
    /\ UNCHANGED <<lifeVars, table, dialogVars>>

\* handleTabChanged: reloadUI of the tab writes the bias it shows back to the
\* device, in every state of the digitizer.
OpenTab(ch) ==
    /\ UserActs
    /\ BiasSet(ch, acq[ch].dcBias)
    /\ TouchIf(calibrating, {ch})
    /\ UNCHANGED <<lifeVars, table, dialogVars>>

\* setAcquisition programs the ranges, and reloadUI of every tab the biases.
Loaded(config) ==
    [ch \in Channels |-> [config[ch] EXCEPT !.dcBias = Clip(@)]]

LoadConfig(config) ==
    /\ UserActs
    /\ acq' = Loaded(config)
    /\ device' = [ch \in Channels |->
           [device[ch] EXCEPT !.range = config[ch].range,
                              !.bias = Shift(acq'[ch])]]
    /\ TouchIf(Underway, Channels)
    /\ UNCHANGED <<lifeVars, table, dialogVars>>

---------------------------------------------------------------------------
(* The calibration dialog: its table.                                      *)

NoOffsets == [ch \in Channels |-> [ir \in Ranges |->
                 [analog |-> 0, digital |-> 0]]]

\* The channels a box of the range cannot show.
Beyond(t, ir) ==
    {ch \in Channels : t[ch][ir] \notin [analog : Codes, digital : Codes]}

\* A box takes a code: what is beyond it comes back clipped.
Boxed(t, ir, analogs, digitals) ==
    [ch \in Channels |-> [t[ch] EXCEPT ![ir] =
        [analog  |-> IF ch \in analogs THEN Clip(@.analog) ELSE @.analog,
         digital |-> IF ch \in digitals THEN Clip(@.digital)
                                        ELSE @.digital]]]

\* changeInputRange sets the boxes, and a box that changes writes the cell; one
\* that showed the clipped value already stays silent, the cell what it was.
Shown(t, ir) ==
    {Boxed(t, ir, analogs, digitals) :
         analogs \in SUBSET Beyond(t, ir), digitals \in SUBSET Beyond(t, ir)}

ShowRange(ir) ==
    /\ UserActs /\ enabled
    /\ draft' \in Shown(draft, ir)
    /\ UNCHANGED <<lifeVars, acq, table, device, file, todo, calibrating,
                   enabled, touched>>

\* The box of one cell.
EditDraft(ch, ir, value) ==
    /\ UserActs /\ enabled
    /\ \/ draft' = [draft EXCEPT ![ch][ir].analog = value]
       \/ draft' = [draft EXCEPT ![ch][ir].digital = value]
    /\ TouchIf(calibrating, {ch})
    /\ UNCHANGED <<lifeVars, acq, table, device, file, todo, calibrating,
                   enabled>>

\* toJson appends the arrays of the channels before it fills them, so the
\* file holds empty ones, which fromJson reads as zeros.
SaveTable ==
    /\ UserActs /\ enabled
    /\ file' = NoOffsets
    /\ UNCHANGED <<lifeVars, acq, table, device, draft, todo, calibrating,
                   enabled, touched>>

\* fromJson takes whatever integers the file holds; the boxes follow.
LoadTable ==
    /\ UserActs /\ enabled
    /\ \E ir \in Ranges : draft' \in Shown(file, ir)
    /\ TouchIf(calibrating, Channels)
    /\ UNCHANGED <<lifeVars, acq, table, device, file, todo, calibrating,
                   enabled>>

\* One range or all of them.
RangeChoices == {{ir} : ir \in Ranges} \cup {Ranges}

\* What setAnalogOffset and setDigitalOffset make of a cell for the table.
Clipped(cell) == [analog |-> Clip(cell.analog), digital |-> Clip(cell.digital)]

\* The table after both setters were called for every selected cell.
TableSet(chs, irs) ==
    [ch \in Channels |-> [ir \in Ranges |->
        IF ch \in chs /\ ir \in irs THEN Clipped(draft[ch][ir])
                                    ELSE table[ch][ir]]]

\* The acquisition follows at the channel's present range: the analog offset
\* is clipped for it as well, the digital one is not.
OffsetSettings(chs, irs) ==
    [ch \in Channels |->
        IF ch \in chs /\ acq[ch].range \in irs
        THEN [acq[ch] EXCEPT !.analog = Clip(draft[ch][acq[ch].range].analog),
                             !.digital = draft[ch][acq[ch].range].digital]
        ELSE acq[ch]]

\* Mutant of OffsetsSet: setAnalogOffset leaves the device as it is.
OffsetsSetUnprogrammed(chs, irs) ==
    /\ table' = TableSet(chs, irs)
    /\ acq' = OffsetSettings(chs, irs)
    /\ UNCHANGED device

\* Only the analog offset is programmed, as part of the total shift.
OffsetsSet(chs, irs) ==
    /\ table' = TableSet(chs, irs)
    /\ acq' = OffsetSettings(chs, irs)
    /\ device' = [ch \in Channels |->
           IF ch \in chs /\ acq[ch].range \in irs
           THEN [device[ch] EXCEPT !.bias = Shift(acq'[ch])]
           ELSE device[ch]]

\* The boxes are set again after it.
Apply(chs, irs) ==
    /\ UserActs /\ enabled
    /\ OffsetsSet(chs, irs)
    /\ \E ir \in Ranges : draft' \in Shown(draft, ir)
    /\ TouchIf(calibrating, chs)
    /\ UNCHANGED <<lifeVars, file, todo, calibrating, enabled>>

---------------------------------------------------------------------------
(* configureAcquisition.                                                   *)

\* Mutant of Refreshed: the offsets of the table are not taken over.
RefreshedNot(s, cell) == s

\* The offsets of the range, from the table that was passed.
Refreshed(s, cell) ==
    [s EXCEPT !.analog = cell.analog, !.digital = cell.digital]

\* What a channel is told by the first so many of SetInputRange,
\* SetAdjustableBias and SetGainAndOffset.
Told(level, s, calls) ==
    [range  |-> IF calls > 0 THEN s.range ELSE level.range,
     bias   |-> IF calls > 1 THEN Shift(s) ELSE level.bias,
     offset |-> IF calls > 2 THEN s.digital ELSE level.offset]

\* configureAcquisition of the default acquisition: calls[ch] of the three
\* succeed for ch, and the offsets are taken over after the first.
ConfigureDefault(calls) ==
    LET fresh == [ch \in Channels |->
                     Refreshed(acq[ch], table[ch][acq[ch].range])]
    IN  /\ acq' = [ch \in Channels |->
               IF calls[ch] > 0 THEN fresh[ch] ELSE acq[ch]]
        /\ device' = [ch \in Channels |->
               Told(device[ch], fresh[ch], calls[ch])]

\* The acquisition of a stage: no bias, and the offsets of the draft.
OfStage(s) ==
    Refreshed([range |-> s.range, dcBias |-> 0, analog |-> 0, digital |-> 0],
              draft[s.channel][s.range])

ConfigureStage(s, calls) ==
    device' = [device EXCEPT ![s.channel] =
                   Told(@, OfStage(s), calls)]

---------------------------------------------------------------------------
(* Ordinary acquisitions.                                                  *)

\* The mask is the one the channel tabs have set (SettingsWindow).
Start(mask) ==
    /\ UserActs /\ phase = "READY"
    /\ ConfigureDefault([ch \in Channels |-> IF ch \in mask THEN 3 ELSE 0])
    /\ phase' = "STABILIZING" /\ asked' = "default"
    /\ acquired' = mask
    /\ touched' = {}
    /\ UNCHANGED <<table, dialogVars>>

\* A call for channel at fails, or a later one that is not about the levels.
StartFails(mask) ==
    /\ UserActs /\ phase = "READY"
    /\ \E at \in Channels, done \in 0 .. 3 :
         ConfigureDefault([ch \in Channels |->
             IF ch \notin mask \/ ch > at THEN 0
             ELSE IF ch < at THEN 3 ELSE done])
    /\ phase' = "STARTING" /\ asked' = "default"
    /\ UNCHANGED <<acquired, table, dialogVars, touched>>

\* onDigitizerStateChanged disables the dialog at ACTIVE.
GoLive ==
    /\ phase = "STABILIZING" /\ phase' = "ACTIVE"
    /\ enabled' = FALSE
    /\ UNCHANGED <<asked, acquired, acq, table, device, draft, file, todo,
                   calibrating, touched, requests>>

Drain ==
    /\ phase = "ACTIVE" /\ phase' = "STOPPING"
    /\ UNCHANGED <<asked, acquired, acq, table, device, dialogVars, touched,
                   requests>>

\* READY, which only the main window hears: it enables the dialog.
Complete ==
    /\ Underway /\ ~calibrating
    /\ phase' = "READY"
    /\ enabled' = TRUE
    /\ acquired' = {} /\ touched' = {}
    /\ UNCHANGED <<asked, acq, table, device, draft, file, todo, calibrating,
                   requests>>

---------------------------------------------------------------------------
(* Calibrations.                                                           *)

\* setups is filled range by range, channel by channel; the combined mode
\* puts an analog stage before each digital one.
Before(s, t) ==
    \/ s.range < t.range
    \/ /\ s.range = t.range
       /\ \/ s.channel < t.channel
          \/ s.channel = t.channel /\ s.mode = "ANALOG" /\ t.mode # "ANALOG"

First(s, stages) == s \in stages /\ \A t \in stages : t = s \/ Before(s, t)
Current(s) == First(s, todo)

StagesOf(chs, irs, mode) ==
    [channel : chs, range : irs,
     mode : IF mode = "FINE_DIGITAL" THEN {"ANALOG", mode} ELSE {mode}]

\* Mutant of ResetCells: the cells keep what they held.
ResetCellsNot(chs, irs) == draft

\* appendStage resets the cells it will measure.
ResetCells(chs, irs) ==
    [ch \in Channels |-> [ir \in Ranges |->
        IF ch \in chs /\ ir \in irs THEN [analog |-> 0, digital |-> 0]
                                    ELSE draft[ch][ir]]]

StartCalibration(chs, irs, mode) ==
    /\ UserActs /\ enabled /\ phase = "READY"
    /\ chs # {}
    /\ todo' = StagesOf(chs, irs, mode)
    /\ draft' = ResetCells(chs, irs)
    /\ calibrating' = TRUE
    /\ enabled' = FALSE
    /\ phase' = "STARTING" /\ asked' = "calibration"
    /\ touched' = {}
    /\ UNCHANGED <<acquired, acq, table, device, file>>

\* runStage succeeds: the stage stabilises.
StageStarts ==
    /\ InRunStage
    /\ \E s \in todo : Current(s) /\ ConfigureStage(s, 3)
    /\ phase' = "STABILIZING"
    /\ UNCHANGED <<asked, acquired, acq, table, dialogVars, touched, requests>>

\* The analog offset undoes the average, the digital one is the average.
Stored(t, s, average) ==
    IF s.mode = "ANALOG"
    THEN [t EXCEPT ![s.channel][s.range].analog = -average]
    ELSE [t EXCEPT ![s.channel][s.range].digital = average]

\* onStateChanged at READY, with results: the range of the stage is shown, the
\* cell stored, and the next stage run.
Answered(t, stages) ==
    /\ \E s \in stages, average \in Averages :
         /\ First(s, stages)
         /\ \E shown \in Shown(t, s.range) : draft' = Stored(shown, s, average)
         /\ todo' = stages \ {s}
    /\ phase' = IF todo' = {} THEN "READY" ELSE "STARTING"

\* READY comes after finish, so the parameter computer has results
\* (CalibrationInvariant in FullCalibration). The main window, which hears of
\* READY first, has enabled the dialog.
StageEnds ==
    /\ Underway /\ calibrating
    /\ Answered(draft, todo)
    /\ calibrating' = (todo' # {})
    /\ enabled' = TRUE
    /\ touched' = IF todo' = {} THEN {} ELSE touched
    /\ UNCHANGED <<asked, acquired, acq, table, device, file, requests>>

\* runStage did not succeed and stopped the acquisition. The dialog hears of
\* READY within that stop, unless the loop is still at work; it may have no
\* results then, or those of an earlier acquisition, with which it goes on to
\* the next stage. When all calls have returned the calibration is given up.
GivenUp(t, stages) ==
    /\ \/ /\ phase' \in {"STOPPING", "READY"}
          /\ draft' = t /\ todo' = {}
       \/ Answered(t, stages)
    /\ calibrating' = FALSE /\ enabled' = TRUE

\* configureAcquisition fails.
StageFails ==
    /\ InRunStage
    /\ \E s \in todo, done \in 0 .. 3 : Current(s) /\ ConfigureStage(s, done)
    /\ GivenUp(draft, todo)
    /\ UNCHANGED <<asked, acquired, acq, table, file, touched, requests>>

\* Start while an acquisition stabilises, a stage of a running calibration or
\* an ordinary one, or after its start has failed: the stages are replaced and
\* their cells reset before runStage is refused.
StartRefused(chs, irs, mode) ==
    /\ UserActs /\ enabled /\ phase # "READY"
    /\ chs # {}
    /\ GivenUp(ResetCells(chs, irs), StagesOf(chs, irs, mode))
    /\ asked' = IF phase' = "STARTING" THEN "calibration" ELSE asked
    /\ acquired' = IF phase' = "STOPPING" THEN acquired ELSE {}
    /\ TouchIf(calibrating, chs)
    /\ UNCHANGED <<acq, table, device, file>>

---------------------------------------------------------------------------

\* start: setAcquisition, and reloadUI of every tab.
Init ==
    /\ phase = "READY" /\ asked = "default" /\ acquired = {}
    /\ \E config \in Configs :
         /\ acq = Loaded(config)
         /\ device = [ch \in Channels |->
                [range |-> config[ch].range,
                 bias |-> Shift(Loaded(config)[ch]), offset |-> 0]]
    /\ table = NoOffsets /\ draft = NoOffsets
    /\ file \in TableFiles
    /\ todo = {} /\ calibrating = FALSE /\ enabled = TRUE
    /\ touched = {} /\ requests = 0

UserEdit ==
    \/ \E ch \in Channels :
         \/ \E range \in Ranges : SetInputRange(ch, range)
         \/ \E bias \in Biases : SetDCBias(ch, bias)
         \/ OpenTab(ch)
         \/ \E ir \in Ranges, value \in Offsets : EditDraft(ch, ir, value)
    \/ \E ir \in Ranges : ShowRange(ir)
    \/ \E config \in Configs : LoadConfig(config)
    \/ SaveTable \/ LoadTable
    \/ \E chs \in SUBSET Channels, irs \in RangeChoices : Apply(chs, irs)

AcquisitionStep ==
    \/ \E mask \in SUBSET Channels : Start(mask) \/ StartFails(mask)
    \/ GoLive \/ Drain \/ Complete

CalibrationStep ==
    \/ \E chs \in SUBSET Channels, irs \in RangeChoices, mode \in Modes :
         StartCalibration(chs, irs, mode) \/ StartRefused(chs, irs, mode)
    \/ StageStarts \/ StageEnds \/ StageFails

Next == UserEdit \/ AcquisitionStep \/ CalibrationStep

Spec == Init /\ [][Next]_vars

---------------------------------------------------------------------------
(* Properties.                                                             *)

\* While an ordinary acquisition is under way, the device has for each of its
\* channels the range and the total shift the default acquisition names, in
\* whatever order biases, ranges, offsets and configurations are set and
\* calibrations have left the device.
ProgrammedLevels ==
    Underway /\ asked = "default" => \A ch \in acquired :
        /\ device[ch].range = acq[ch].range
        /\ device[ch].bias = Shift(acq[ch])

\* ... and that shift compensates the offset last applied for the range,
\* unless the range or the configuration was changed under way, which leaves
\* the offset of the old range.
CalibratedBias ==
    Underway /\ asked = "default" => \A ch \in acquired \ touched :
        device[ch].bias = Clip(table[ch][acq[ch].range].analog
                                   + acq[ch].dcBias)

\* A stage measures its channel at its range with no digital offset, an
\* analog or plain digital stage with no bias either, and the digital half of
\* a combined one under the bias its analog half has found, clipped to what
\* the converter takes; unless someone changes settings or the draft of that
\* channel during the calibration.
MeasuresFromZero ==
    calibrating /\ phase = "ACTIVE" =>
        \A s \in todo : Current(s) /\ s.channel \notin touched =>
            device[s.channel] =
                [range  |-> s.range,
                 bias   |-> IF s.mode = "FINE_DIGITAL"
                            THEN Clip(draft[s.channel][s.range].analog)
                            ELSE 0,
                 offset |-> 0]

---------------------------------------------------------------------------
(* The strengthening the properties rest on.                               *)

\* The offset of the acquisition, before it is summed and clipped.
OffsetsFollowTable ==
    Underway /\ asked = "default" => \A ch \in acquired \ touched :
        acq[ch].analog = table[ch][acq[ch].range].analog

\* A mask is kept as long as its acquisition is under way.
AcquiredIsUnderway == acquired # {} => Underway /\ asked = "default"

CalibrationIsAsked ==
    calibrating => asked = "calibration" /\ (Underway \/ phase = "STARTING")

\* Plain digital stages are not mixed with others.
OneKindOfStage ==
    \A s, t \in todo : s.mode = "DIGITAL" => t.mode = "DIGITAL"

\* The cells of the stages to come, which are measured from zero.
CellsAreReset ==
    calibrating => \A s \in todo : s.channel \notin touched =>
        /\ draft[s.channel][s.range].digital = 0
        /\ s.mode # "FINE_DIGITAL" => draft[s.channel][s.range].analog = 0

StageIsProgrammed ==
    calibrating /\ Underway =>
        \A s \in todo : Current(s) /\ s.channel \notin touched =>
            device[s.channel] =
                [range  |-> s.range,
                 bias   |-> Clip(draft[s.channel][s.range].analog),
                 offset |-> 0]

FrontEndInvariant ==
    /\ FrontEndTypeOK
    /\ ProgrammedLevels
    /\ OffsetsFollowTable
    /\ AcquiredIsUnderway
    /\ CalibrationIsAsked
    /\ OneKindOfStage
    /\ CellsAreReset
    /\ StageIsProgrammed

=============================================================================
