# qtadqscope: a verification development

qtadqscope drives an ADQ digitizer: it configures an acquisition, streams
records from the device on a second thread, hands each record to a list of
*record processors* (file writers, the scope, calibration) and stops when the
user, a timer, an error or a size limit says so. The same core runs behind a
Qt window and headless (`--cli`).

This directory holds TLA+ models of that core, the TLC configurations that
check them, and TLAPS proofs of what holds whatever the timing and the number
of acquisitions. Paths below are relative to the repository (`src/...`).

| module | what it is |
|---|---|
| `AcquisitionControl` | `Digitizer` on the GUI thread and `BufferProcessor` on ADQThread, their queues, timers, the API mutex and the device |
| `AcquisitionLifecycle` | abstract: what `digitizerStateChanged` promises to its listeners |
| `RecordProcessors` | the list of processors, the panel and dialogs that edit it, the file writers and the walk of a record, on top of `AcquisitionLifecycle` |
| `FrontEnd` | ranges, biases and offsets: default acquisition, calibration table and device, and what a calibration measures |
| `CommandLine` | the headless application around `AcquisitionControl`: refusals, exit, teardown |
| `FullCalibration` | `FullCalibrationDialog` driving `AcquisitionControl` from inside its READY signal |
| `SpectrumAnalyser` | the registers of the pulse height analyser, the dialog that sets them, the plotter, and programs that end and start |
| `SettingsWindow` | trigger approach, masks and duration, and the widgets that show and change them |
| `AcquisitionControlProofs`, `TimelyControlProofs` | theorems about `AcquisitionControl`: without and with the timing assumptions; the second has the refinement of `AcquisitionLifecycle` |
| `RecordProcessorsProofs`, `FrontEndProofs`, `CommandLineProofs`, `FullCalibrationProofs`, `SettingsWindowProofs`, `SpectrumAnalyserProofs` | theorems about the module they are named after |
| `MC...` | model-checking instances, with the values a configuration cannot write down |

Run `tlc -config Timely.cfg MCAcquisitionControl` and the like; the table
under *Runs* names the configurations, and the MC module is the one of the
component. `tlapm AcquisitionControlProofs.tla` and the like check the proofs.

How the models fit together: `AcquisitionControl` implements
`AcquisitionLifecycle` (proved); `RecordProcessors` and `FrontEnd`, where the
question is what a whole acquisition does to list, files and levels, are built
on that life cycle and its announced states; `CommandLine` and
`FullCalibration`, where the question is the interleaving itself, extend
`AcquisitionControl`. `SettingsWindow` is the front end's other half: which
channels are acquired. `SpectrumAnalyser` is about the part of the device that is
set bit by bit, from a dialog that no state disables.

## 1. Inventory of the system

**Digitizer control** (`src/Digitizer.cpp`). State: `currentState` (READY,
STARTING, STABILIZING, ACTIVE, STOPPING), `acquisitionStartDelayTimer` (single
shot, 2500 ms), `acquisitionTimer`, `acquisitionToStart`, the list of record
processors. Operations: `runAcquisition` and `runOverridenAcquisition`,
`configureAcquisition`, `onAcquisitionDelayEnd`, `stopAcquisition`,
`processorLoopStateChanged`, `handleAcquisitionFullyStopped`, and some fifty
setters of single parameters. Hard: every handler reads or writes
`BufferProcessor::loopState`, which the other thread writes too; stops arrive
from the user, a timer (queued) and the loop (queued) and may be late; the
start call is posted and may be late as well. Correct when: a stop always
ends, READY means quiet, nothing of one acquisition touches the next.

**Record loop** (`src/BufferProcessorThread.cpp`). Lives on ADQThread. State:
`loopState` (INACTIVE, ACTIVE, STOPPING, SERROR), the records of the channels,
whether a buffer is out. Operations: `startBufferProcessLoop`, `stop`, `reset`,
`completeRecord`, `enterErrorCondition`. It tells the digitizer of its state by
a queued signal. Hard: `stateMutex` is declared and never taken, so `stop()` in
the GUI thread tests and sets a variable the loop is changing. Correct when:
each announced end is real, each buffer goes back once, records reach only
processors that are started.

**Device API** (`src/ADQInterfaceWrappers.cpp`). `MutexADQWrapper` takes one
mutex per call, `WaitForRecordBuffer` included, so the GUI thread waits for
the loop's wait to time out. Hard: the loop in turn blocks on the GUI thread
when the scope is drawn. Correct when the two never wait for each other.

**Start/stop controls** (`src/PrimaryControls.cpp`, `src/PrimaryWindow.cpp`).
A button whose meaning and enabling follow the announced state; the window
enables and disables dialogs by state and draws the scope. No state of their
own beyond the widgets.

**Headless application** (`src/GUIApplication.cpp`, `src/main.cpp`). Builds the
digitizer, refuses some configurations, runs one acquisition, exits on READY,
is destroyed member by member. Hard: the order of destruction against a thread
that may still be running. Correct when the program exits and nothing is used
after it is gone.

**Full calibration** (`src/FullCalibrationDialog.cpp`,
`src/SignalParameterComputer.cpp`). State: `setups`, `currentSetupIndex`,
`acquisitionActive`, a signal connection, the dialog's enabling, the parameter
computer's `finished` flag. Hard: the next stage starts inside the READY signal
of the last one; start can be pressed at any READY and even while an
acquisition stabilises; a refused stage stops whatever is running, whose READY
is taken for its own. Correct when each calibration ends, hears the digitizer
exactly once and reads results only of finished stages.

**Record processors** (`src/BinaryFileWriter.cpp`, `src/ScopeUpdater.cpp`,
`src/TimestampReader.cpp`, `src/RecordProcessorsPanel.cpp`). State: the list,
open files, bytes saved, limit. Operations: `startNewAcquisition`,
`processRecord`, `finish`; the panel exchanges the file saver and adds or
removes the scope, two dialogs add and remove a processor each, a calibration
replaces the list. Hard: four editors of one list, none of which asks what the
digitizer is doing, against a thread that walks it with no lock; a writer is
destroyed by the panel while the list only has its address. Correct when the
list is what the window shows and holds living objects, each started processor
is finished, and the limit holds.

**Acquisition parameters** (`src/Acquisition.cpp`, `src/ApplicationContext.cpp`,
`src/util.cpp`). A value object: masks, lengths, clipping, JSON in and out.

**Settings panels** (`src/AcquisitionSettings.cpp`,
`src/AcquisitionChannelSettingsTab.cpp`, `src/BuffersDialog.cpp`). Widgets that
keep channel mask, trigger mask, approach (single or multiple channels) and
check boxes in step with the acquisition. Hard: a handler moves a widget whose
signal runs another handler, and a loaded configuration runs many of them on
the acquisition that has just been loaded. Correct when what is shown is what
would be acquired, in whatever order the user, files and locks follow.

**Calibration table** (`src/CalibrationTable.cpp`). Offsets per channel and
range, JSON in and out. There are two: the digitizer's default table, which each
configuration takes its offsets from, and the draft of the calibration dialog.
Hard: range, bias and offset of a channel are set from tabs, files, dialog and
configuration, each of which writes some of acquisition, table and device.
Correct when the device has what the settings name.

**Spectrum analyser** (`src/spectrumdialog.cpp`, `src/SpectrumPlotter.cpp`).
State: two registers of the device, four bits in one and two fields in the other;
the slider, boxes and window of the dialog; the plotter's bin count; a timer that
ends a reset. Operations: the slots of the dialog, the bit the acquisition sets
and clears, `processRecord` of the plotter, a download and CSV files. Hard: three writers share
each register, the dialog is enabled in every state, the GUI thread changes the
bin count ADQThread goes by, and the device keeps its registers when the program
is restarted. Correct when the device has what the dialog was told, the analyser
counts in acquisitions only, and a spectrum is drawn with the bins it has.

**Timestamps, GPIO, registers, auxiliary trigger** - device calls behind
buttons. **Mock device** - a test double. **Superseded application**
(`src/Application.cpp`, `src/AcquisitionThreads.cpp`, `src/BufferProcessor.cpp`,
`src/Semaphore.h`) - not compiled into the program. **Logging**, **vendored
libraries**, **tools** - outside the logic.

How they interact: GUI thread and ADQThread share `loopState`, the record
processors and the device; everything else between them is a queued signal
(`stateChanged`, the run timer's `stopAcquisition`, `startBufferProcessLoop`)
or a blocking one (`onScopeUpdate`). Within the GUI thread signals are direct
calls, so listeners of `digitizerStateChanged` run inside the handler that
changes the state. The hazards that follow, each at its line, are listed in
`PROJECT.json`.

## 2. The models

### AcquisitionControl

`digState` is `currentState`; `delayTimer` and `runTimer` say whether the two
QTimers run; `guiQueue` holds what is posted to the GUI thread (`"INACTIVE"`
and `"SERROR"` for `stateChanged`, `"timeout"` for the run timer's queued
`stopAcquisition`, `"scope"` for `onScopeUpdate`); `startCalls` counts posted
`startBufferProcessLoop` calls; `device` is `"off"`, `"running"` an acquisition, or `"stuck"` in one it failed to
stop; `holding` says a record buffer is out; `processors` is `"open"` from `startNewAcquisition` to
`finish`.

*Atomicity.* `loopState` is accessed from two threads with no lock. Each
handler is cut at each of its accesses: `guiPc` and `workerPc` name the access
that comes next. What lies between two accesses and touches only the thread's
own state is merged into the step before. So `stopAcquisition` is
`BeginStop` (timers, and the test of `stop()`), `StopWrite` (its assignment),
`StopDevice`, `CheckInactive` and `CheckSerror` (the two reads of
`isStreamFullyStopped`), then `handleAcquisitionFullyStopped` as
`FinishProcessors`, `ResetLoop`, `BecomeReady`. `onAcquisitionDelayEnd` is three
steps: `DelayEnds` starts the device, `PostStart` posts the call that ADQThread may
take up from then on, and `BecomeActive` announces ACTIVE after a register write
that has to wait for the API mutex. The loop may thus be entered, and hand records
to the processors, while the state is still STABILIZING. The register write at the
end of `stopAcquisition` changes a bit of `SpectrumAnalyser` and nothing here; it is
left out. An iteration of the loop is
`TestLoop`, `LockApi`, one of `WaitReturns...`, and then the error path
(`JudgeError`, `SetSerror`, `PostSerror`) or the record path (`TakeRecord`,
`ShowRecord`, `CompleteRecord`, `ReturnRecord`); `LeaveLoop` and `PostInactive`
end it. The C++ data race itself is taken as sequentially consistent accesses
of one word, which is what the supported builds produce for an aligned enum.

*Mutex.* Steps of the GUI thread that call the device need `ApiFree`: the loop
is not inside `WaitForRecordBuffer`.

*A device that does not stop.* `StopDataAcquisition` may fail with `ADQ_EIO`
(`StopMayFail`), of which `stopAcquisition` and `configureAcquisition` take no
notice: READY or STOPPING is announced with the device `"stuck"`. It may still
deliver records to a loop that is there to ask; the next `StartDataAcquisition` is
refused (`DelayEnds`), unless a later stop succeeds.

*Abstracted.* Which device call of `configureAcquisition` fails (one step that
fails, `ConfigureFailed`), the contents of records, log output. `stateChanged(ACTIVE)`
and `(STOPPING)` are dropped because their handler does nothing. The error
branch of `WaitReturnsError` stands for every negative result that is neither a
timeout nor an interruption.

*Timing assumptions.* The program has no synchronisation between one
acquisition and the next; it relies on 2500 ms being long. That reliance is
stated in three switches, so that each property says which of them it needs:

* `ClicksSettled`: Start is pressed when nothing of the last run is under way;
* `DelaySettled`: the start delay outlasts what the threads owe each other
  (only `calibration` and `calibration_overlap` still assume it; without it
  `calibration` holds as well, in 2.0 million states and three minutes);
* `StopsSettled`: a stop does not overtake the posted start call.

With all of them FALSE the model has every interleaving the code allows.

### AcquisitionLifecycle

What the listeners rely on: states follow the order the button reads them in,
the device is started only for an acquisition whose processors are started, a
record is in their hands only between start and finish, neither of which comes in
the middle of it, and READY comes when the device was told to stop and the
processors are finished. `Launch` starts the device, and `GoLive` announces ACTIVE;
a record may be taken between the two. `GiveUp` is an acquisition that could not be configured and is taken
back by whoever asked for it, as a stage of a calibration is; the button leaves
it in STARTING.

`AcquisitionControl` implements it with `phase <- digState`,
`recording <- (processors = "open")`, `walking <- (workerPc \in ProcessingPcs)`,
`streaming <- (device = "running")`: a stuck device was told to stop.
`LifecycleSpec` is checked as a property and proved, under `ClicksSettled` and
`StopsSettled`. `CommandLine` implements it under `StopsSettled` (proved): without
that a loop entered late on a stuck device takes a record after the stop.
`RecordProcessors` is built of its actions. `FullCalibration` does not implement it: a
stage that starts inside the READY of the last one may meet an INACTIVE event
that is still queued, as in run `calibration_overlap`.

### RecordProcessors

`phase`, `recording` and `streaming` move by the actions of
`AcquisitionLifecycle`, which is what `AcquisitionControl` was shown to do: that is
why `Configure` and `Finish` are one step each. That neither comes in the
middle of a walk is the guard of `Lifecycle!Prepare` and `Lifecycle!Close`. A walk
begins with the device streaming, in ACTIVE or in the STABILIZING before it,
because `RecordsAreTakenLive` says so of the two threads. While `Launching`, from the
start of the device to the announcement, the GUI thread is in the middle of a
handler, so nobody edits the list and nothing is stopped (`UserEdit`, `WindDown`).
`listed` is the one list there is (`recordProcessors` is a reference to
`defaultRecordProcessors`), as a bag: `push_back` adds an element, `remove` takes
every copy. `Given` is the assignment in `configureAcquisition` that lets a
calibration overwrite it. `writers` are the file writers by address; a destroyed
one is `"gone"`, and its address may be used again. `saver`, `saveMode`,
`scopeBox`, `scopeAdded`, `reading` and `plotting` are the members and widgets of
the panel and the two dialogs; each of their handlers is an action
(`ChooseSaver`, `ToggleScope`, `ToggleReader`, `ChangePlotChannel`), and
`LoadConfig` is `openConfigLoadDialog` with every handler `reloadUI` sets off.
`at` and `seen` are where ADQThread is in `completeRecord`; `seen` are list
nodes, so that an element that is removed and added again is visited again.

*Undefined behaviour.* A walk whose element is erased under it reads freed
memory (`Astray`): the model lets it go on with an element of the list or end,
the two outcomes an intact or an overwritten node gives. `isContinuousStream` of a
writer that was never started is uninitialised and may be either.

*Abstracted.* Which element a walk visits next, file names and headers (the header
a verbose writer puts at the head of each file is in the file and not in
`bytesSaved`, so `VolumeBounded` is about the records), which channel a record is of. The plotter refuses or takes a record as it pleases (its
bin count is set by the user); no other processor but the writers refuses.

*Assumption.* `LoadsSettled`: no configuration is loaded while an acquisition
records. The menu permits it; with `LoadsSettled = FALSE`, TLC finds
`SaverNotPulled` violated, the other properties hold without it.

### FrontEnd

`acq`, `table` and `device` are per channel what `defaultAcquisition`,
`defaultCalibrationTable` and the device hold; `draft` is the dialog's table,
`file` a file it saves and loads, `todo` the stages from `currentSetupIndex` on
(as a set, ordered by `Before`). Everything runs on the GUI thread, so a handler
is a step. `Told` is the part of `configureAcquisition` that is about levels: of
the three calls for a channel the first so many succeed, and the offsets of the
table are taken over after the first. `StartFails` and `StageFails` stop at any of
them. `GivenUp` has the outcomes of a stage that is not run, the nesting of which
`FullCalibration` explores in full: the stop goes on to STOPPING, or to READY, of
which the dialog hears with results (`Answered`: a result is stored and the next
stage run) or without; the calibration is then given up, perhaps with a stage
under way. `StartRefused` is a Start pressed while an acquisition stabilises or
after its start has failed: it replaces the stages and resets their cells, also
those of a calibration that is running, before `runStage` is refused.

A stage that ends by itself always has results (`StageEnds`): `finish` comes before
READY, so that the parameter computer is `"finished"` by then. This is the last
part of `CalibrationInvariant`, proved in `FullCalibrationProofs`.

*Values beyond the codes.* `fromJson` and the results of stages put any integer into
a draft, and a configuration file any offset into the acquisition; only the setters
of the digitizer clip, and not all that passes through them (`OffsetSettings`). The
spin boxes of the dialog clip too, and write the clipped value back if it is not the
one they show already (`Shown`, with either outcome): when a range is chosen, a table
is loaded, applied or filled by a stage.

`SaveTable` saves what the code saves: `toJson` appends the arrays of the
channels before it fills them, so a loaded table is zero in every cell.

`touched` is a history variable: the channels whose levels somebody has changed
since the acquisition was configured. The program lets them be changed (a tab
that is opened writes its bias, whatever the digitizer is doing), and the
properties say what holds for the others.

*Assumptions.* Calls of the single setters succeed (the code ignores what they
return). The average of a stage is data.

### SpectrumAnalyser

`control` is the set of bits in `PHA_CONTROL_REGISTER`, `layout` has the two fields of
the other register. `WriteUserRegister` keeps the bits of its mask (`Written`; the
fields are an `EXCEPT`). `shift` is the slider and with it `spectrumBinCount`;
`plotBins` is the plotter's `sampleCount`, 1024 until the slider is moved. `sent` are
the spectra that are on their way, each by the number of its bins; `record` is the
one the plotter has, with the count it was copied by and the word its total was
read from. Each handler of the dialog is an action, a reset two (`ResetSpectrum`, and
`ResetEnds` for its single shot, of which several may be pending: `resets`).

*Atomicity.* `processRecord` of the plotter is cut where it reads `sampleCount`:
`TakeSpectrum` (the comparison of lengths), `CopyBins` (read again for every bin;
one read stands for them), `ReadTotal`; then `UpdateScope` and `UpdateRate`, for which
ADQThread waits. The GUI thread's steps are whole handlers, but for the two that
write the analyser's bit and announce a state: `slot` is what is left to do.
`onAcquisitionDelayEnd` writes first (`GoLive`, then `AnnounceActive`), and
`stopAcquisition` announces first (`StopAcquisition`, then `ClearActive`).

*Ends and starts of the program.* `ProgramEnds` is a crash or a close at any moment,
within a slot or before a reset's timer has fired too; in phase `"ENDED"` the
device goes on as it was left, counting perhaps. `ProgramStarts` makes widgets,
plotter and default acquisition what the constructors make them and clears one bit of
the registers, as `initialize` does. `chosen` and `leftOver` are history variables:
what was set in the dialog since the start, before which it shows its own defaults
and `DialogKnowsDevice` claims nothing; and whether the reset bit is that of a
program that ended before it could clear it.

*Abstracted.* The phases are those of `AcquisitionLifecycle` with STARTING inside
`Start`; the record loop around the plotter is `AcquisitionControl`'s. Contents of
spectra, the points of curves, the boxcar trigger level, the download and the CSV
files (which change a curve and nothing else). `reloadUI` moves slider and box to
what the dialog and the default acquisition have already. `ChangeEnabled` stands
for the box and for a configuration that replaces the acquisition, after which
the box need not show it. A record that is no spectrum comes to the same plotter, which tells the two apart by
the channel and the length alone (`TakeWaveform`). That the firmware sends the bins it is set
to, with the total count behind them, is taken from what `processRecord` expects
(`WindowEnds`).

*Assumption.* `BinsSettled`: the slider is left alone while an acquisition is ACTIVE
or STOPPING. The dialog permits it: with `BinsSettled = FALSE` TLC finds `SpectraWhole` violated.

### CommandLine

`app` follows `main`: `start`, then the event loop, then one step per
destructor (`FreeSaver` for the file saver, `DeleteUnit` for
`~ScopeApplication`, `JoinRead`/`JoinWrite`/`Joined` for the `joinThreads` of
`~Digitizer`, cut at the accesses of `loopState`). The loop may still call the device
after `DeleteUnit`: after an error, to return its last buffer, or to wait for a record.
What such a call does to a deleted control unit is not defined; the model lets it do
what it does before. `StartRefused` collects the
returns of `CLIApplication::start`; `SaverOf` has the missing `break` after
DISABLED. ADQThread runs throughout.

### FullCalibration

Signals are direct calls, so `onStateChanged` may run inside `runStage`.
`frames` is the stack of calls that are still to go on: `"stage"` (waiting for
`runOverridenAcquisition`), `"refused"` and `"fail"` (the two halves of
`runStage`'s failure), `"ready"` (a listener to be called). `StageConfigured`,
`StageRefused`, `StopRefused`, `GiveUp`, `StartCalibration`, `CompleteStage`,
`NoResults` and `FinishList` are the dialog's and the computer's code;
the rest runs unchanged from `AcquisitionControl` when no frame is left.
`list` follows `this->recordProcessors = recordProcessors`, which assigns
through a reference and so overwrites the default list. The computer's
uninitialised flag is `"unset"` and may read either way. A device call that
fails inside a stage is `StageRefused`.

### SettingsWindow

`panel` is the channel half: the masks and the approach of the default
acquisition, the combo box (`combo`), the open tab, `lastActiveChannel`
(`last`), the checked boxes (`active`, `trigger`), and for the boxes both what
the approach permits (`allowed`) and what is enabled now (`enabled`), which
differ because `enableVolatileSettings` locks at ACTIVE. `duration`, `timed`,
`time` and `timeOn` are the timed run of `PrimaryControls`. `live` is what the
panels know of the digitizer: ACTIVE has been announced and READY not yet.

A handler is an operator from panel to panel and not an action, since Qt runs
it inside the step that moves its widget: `Load` is `fromJson` and `reloadUI`
with `ApproachShown`, `TabOpened` and `TabsReloaded` in the order in which the
code moves combo box and tabs. A widget that is set to what it shows already
announces nothing; `ApproachShown` and `TabOpened` say so. `Load` is never
disabled, as the menu is not.

*Abstracted.* A mask is the set of its bits. Settings that a handler copies
into the acquisition with no effect on the rest (record length, trigger level,
offsets and so on) are left out. Files whose approach is none of the two items
of the combo box, or whose masks have bits past the last channel, are not
enumerated: the window writes none.

## 3. Runs

| run | configuration | question | result |
|---|---|---|---|
| `timely` | `Timely.cfg` | with `ClicksSettled`, `StopsSettled` and every failure: records only between start and finish, processors never shared, READY quiet but for a device that failed to stop, buffers back, life cycle implemented, loops entered | holds |
| `untimely` | `Untimely.cfg` | with no timing assumption: the inductive invariant, no forgotten stop, every STOPPING ends, no deadlock over the scope | holds |
| `early_stop` | `EarlyStop.cfg` | is a loop in SERROR always reset before it is asked to start? | violated |
| `cli` | `Cli.cfg` | for every configuration, every failure and every interleaving: the file saver outlives the records, and the program exits unless its stop is lost or missed, both with the exception stated below | holds |
| `cli_lost_stop` | `CliLostStop.cfg` | does a run that stops always exit? | violated |
| `calibration` | `Calibration.cfg` | one connection per running calibration, index in range, and an end, whatever fails or is pressed | holds |
| `calibration_overlap` | `CalibrationOverlap.cfg` | is the device off when the dialog reports the end? | violated |
| `settings` | `Settings.cfg` | do boxes, masks, open tab and timed run agree after every sequence of clicks, tabs, locks and files? | holds |
| `settings_loaded` | `SettingsLoaded.cfg` | does a file saved from the window keep its settings when it is loaded? | violated |
| `processors` | `Processors.cfg` | are list, panel, writers and files in step whatever is exchanged, loaded and calibrated? | holds |
| `spectrum` | `Spectrum.cfg` | are dialog, registers, plotter and acquisition in step over resets, calibrations and programs that end at any moment, and spectra drawn whole with a bin count that was set before? | holds |
| `frontend` | `FrontEnd.cfg` | does the device have the levels the settings name, and does a calibration measure from zero, also when it is started twice or the files hold what no converter takes? | holds |

*Bounds.* `MaxRuns` bounds the acquisitions requested. An event or a stop of
one acquisition can only meet the next one, and the one after it when two
events are queued; 3 runs give every overlap of that kind, 2 suffice where the
property speaks of one stop. Nothing else is bounded: the queues grow only with
the runs, which TLC finds to be finite. `StageCounts` 0, 1 and 2 are: no
channel selected, a last stage only, and a stage with a successor. One record
is out at a time by construction of the loop, and the properties do not tell
one record from the next. The calibration runs use timed acquisitions only,
since every stage sets a duration. The settings are checked with two channels,
enough for an open tab and another one, and with durations of zero, below, at
and above the minimum; `settings` checks nothing that is not proved for every
number of channels and every set of durations as well. Two writers are as many
as ever exist at one time (the new one is made before the old one goes); record
sizes 1 and 2 with a limit of 3 and a header of 1 reach, meet and exceed the
limit with either writer. `FrontEnd` is checked with two channels, two ranges and
three codes, so that a bias, a sum and an offset can each be cut off, a table file with cells on either side of them, and with
`MaxRequests = 3` things the user does (a configuration, an edit and an
acquisition in any order; 1.6 million states). The proofs are
for any number of them. `SpectrumAnalyser` has bin counts 8, 4 and 2 and a plotter
made with 4, so that the plotter's first count is above, at and below the
device's; two spectra on their way, one from before and one from after a change;
two resets pending, and waveforms shorter and longer than a spectrum's bins
(2.3 million states). `Processors.cfg` has 361 thousand.

*Exceptions of the liveness properties.* `StopLost` is the race of `cli_lost_stop`.
`LoopEnteredLate` takes two failures: the stop overtakes the posted start call, and
the device does not stop. The loop that is then entered gets records like any other
and nobody tells it to end. `SaverOutlivesRecords` excepts the records of such a loop
(`LateRecords`) for the same reason; with `StopMayFail = FALSE` neither is needed.

*Deadlock* is checked in the runs of `RecordProcessors`, `SettingsWindow` and
`SpectrumAnalyser`.
Elsewhere the program rests when the user has used up the runs or the requests,
or has exited. That the threads do not block each other is `ScopeReturns`.

*Fairness.* Both threads are scheduled by the operating system and both event
loops dispatch what is queued: weak fairness of ADQThread's steps and of
`DeliverCall`. A started QTimer expires: weak fairness of `RunTimerEnds`. The
GUI thread's device calls contend for a mutex the loop releases at every
iteration; it obtains it eventually (strong fairness of the handlers and of
`DelayEnds`). Without this assumption the loop could take the mutex for ever -
`std::mutex` promises no more. Nothing is assumed of the user, nor of records,
errors or refusals ever occurring.

### What the violated runs show

* `early_stop`: Stop is pressed after ACTIVE is announced and before ADQThread
  picks up `startBufferProcessLoop`. The loop is INACTIVE, READY follows at
  once; only then does the loop start, on a device that is off, and enters
  SERROR. Its event finds READY and returns before `reset()`. The next start
  call meets SERROR and is dropped (`src/BufferProcessorThread.cpp:31`): ACTIVE
  without a record loop. The message of line 38 is in a branch never taken.
* `cli_lost_stop`: `stop()` reads ACTIVE, the loop sets SERROR and ends, `stop()`
  writes STOPPING. Nobody writes INACTIVE any more; the headless program stays
  in STOPPING (`src/README.md:88` promises an exit). `StopLost` names this
  state, and is the only exception the liveness properties make.
* `calibration_overlap`: `stopAcquisition` finds the loop already INACTIVE and
  starts the next stage from inside READY; the INACTIVE event still queued then
  completes that stage, and if it is the last, its start is still pending when
  the dialog reports the end. `handleAcquisitionFullyStopped` does not stop the
  delay timer.
* `settings_loaded`: a SINGLE file for channel 1 is loaded while the window shows
  INDIVIDUAL and the first tab. `reloadUI` moves the combo box first; its handler
  takes the open tab for both masks of the acquisition that has just been
  loaded, and the tab of the file is then looked for in that mask. The duration
  has a path of its own to the same end, which the configuration leaves out to
  show this one: `reloadUI` checks the box "Timed run", whose handler writes the
  value of the spin box over the duration before line 24 of
  `src/PrimaryControls.cpp` shows it.

Met while modelling and left without a run, all of them in the models or beside
them:

* A first calibration pressed while an ordinary run stabilises asks for results
  that no `finish` has produced (`src/FullCalibrationDialog.cpp:261`; both
  outcomes of the uninitialised flag are in `FullCalibration`).
* The file type is changed while an acquisition stabilises, when the panel is not
  locked yet: the new writer is appended to a list whose processors have been
  started already, its streams are never opened, every record is counted and none
  is written. A calibration leads to the same for good: it overwrites the default
  list. (`PanelAgrees` excepts exactly the lists that have the parameter computer
  in them.)
* `SpectrumDialog` makes its plotter with 1024 bins (`src/spectrumdialog.cpp:9`) and
  itself has 16384; nothing brings them together but a move of the slider. Until
  then the first 1024 bins are drawn, and total count and rate come from two of
  the bins. With a device that was left with fewer bins the first spectrum is
  refused, and with it the acquisition. `SpectraWhole` therefore asks for a bin
  count that was set.
* The slider, moved while spectra arrive, changes the plotter's count from the GUI
  thread and then the register: the spectrum in hand is copied by one count and its
  total read by another, or the next one, sent before, is refused.
* A file of a spectrum has the lines of the bins it was saved with; `loadSpectrum`
  (`src/spectrumdialog.cpp:114`) reads as many as the slider has now and never looks
  for the end.
* A program that ends within the millisecond of a reset leaves the reset bit set, and
  no start clears it (`leftOver`).
* Start in the calibration dialog, pressed while a stage stabilises, resets the
  cells of the channels selected and then gives the running calibration up
  (`StartRefused`).
* After an error the headless program deletes the control unit while ADQThread may
  still have a buffer to return to it (`src/GUIApplication.cpp:66`,
  `src/BufferProcessorThread.cpp:86`).
* A configuration is loaded while the spectrum dialog is open: the dialog is not
  reloaded, and the next acquisition counts with the box unchecked.

## 4. Proofs

`AcquisitionControlProofs` proves, for every value of the constants (any number
of runs, every combination of failures, with or without the timing
assumptions), from the assumptions `MaxRunsAssumption`, `TimedRunsAssumption`
and `SwitchesAssumption` alone:

* `TypeCorrect`: `Spec => []TypeOK`.
* `ControlInvariantHolds`: `Spec => []ControlInvariant`, the inductive invariant.
* `StopIsAlwaysAnswered`: a digitizer at rest in STOPPING has a running loop or
  a queued call ahead of it, unless the stop was lost.
* `ScopeIsAlwaysOwed`: a loop that waits for the oscilloscope has exactly one
  update queued, and has left the device free for the handler the GUI thread may
  be busy with. This is the safety core of `ScopeReturns`: the threads do not
  wait for each other.
* `LoopOwnsItsState`, `BuffersAlwaysReturn`, `ReadyIsFinished`: `reset` never takes
  the state from a loop at work; each buffer goes back; READY never precedes
  `finish`.

*Argument.* `StopIsAnswered` is not inductive: whether a STOPPING digitizer has
an event ahead of it depends on what the loop is about to do, so
`EndIsAnnounced` adds that an INACTIVE or SERROR loop under a stopping digitizer
has its announcement queued or is about to post it - already while
`CheckSerror` decides, because the loop may end between the two reads.
`LoopStateOwnership` is what lets the `EnterLoop` and `ResetLoop` cases through:
ACTIVE is only seen inside the loop. `BuffersReturned` and `FinishedWhenReady`
follow the program counters. `ScopeIsAwaited` is needed for `DeliverScope`,
which moves the *other* thread's program counter: a queued scope update means
the loop is waiting for it, and there is only one. That part is a statement about
positions of a queue and has a lemma of its own (`ScopeStaysAwaited`; the
converse, that a waiting loop has its update queued, is `ScopeStaysQueued`);
`GuiKeepsControl` and `WorkerKeepsControl` take one case per action.

`SettingsWindowProofs` proves, for every number of channels, every positive
minimum and every set of durations (`NofChannelsAssumption`,
`MinTimeAssumption`, `DurationsAssumption`):

* `SettingsTypeCorrect`: `SettingsSpec => []SettingsTypeOK`.
* `SettingsInvariantHolds`: the inductive invariant `SettingsInvariant`.
* `BoxesAlwaysShowMasks`, `SingleIsAlwaysOneChannel`, `DurationIsAlwaysShown`: the
  three invariants of run `settings`.
* `SavedIsKeptExactlyWhen`: which files a load leaves as the window saved them, as
  an equivalence, and so the limits of what run `settings_loaded` finds. The masks
  are kept exactly when the file is INDIVIDUAL, the combo box was on SINGLE
  already or the file's channel is that of the open tab; the duration is kept
  exactly when "Timed run" was checked, the file has none or the spin box
  shows it.

*Argument.* The three are strengthened by what the handlers rely on: the combo
box shows the approach (else `ApproachShown` would skip a handler that has to
run), no box is *allowed* under SINGLE (else READY, which enables what is allowed,
would unlock it), and the spin box is at or above its minimum. There is one
lemma per handler; a loaded panel satisfies only `MasksOK` until the boxes have
followed, so `ChannelsShownKeeps` starts from that, whatever the widgets showed,
and ends in `PanelOK`. That the loops of `fromJson` and `reloadUI` find
a lowest bit (`FirstOfIsSet`) rests on the well-foundedness of the naturals.
`ChannelsShownMasks` follows the masks through the same handlers in the same
order, which is what the equivalence needs.

`TimelyControlProofs` assumes `AllSettled` (`ClicksSettled` and `StopsSettled`;
the start delay may be of any length) and proves for any number of runs and
every failure:

* `TimelyInvariantHolds`, the inductive invariant `TimelyInvariant`.
* `ReadyIsAlwaysQuiet`, `RecordsAreBetween`, `ProcessorsAreNeverShared`.
* `StartFindsReset`: `Spec => []ResetBeforeStart`, the invariant run `early_stop`
  violates: with the stops settled no start call is dropped.
* `RecordsAreTakenLive`, an action property: the loop takes a record for the
  processors only with the device running and the processors started, in ACTIVE
  or in the handler that is about to announce it. (A record in their hands may
  still see the stop.)
* `ControlImplementsLifecycle`: `Spec => LifecycleSpec`, with a step of the
  abstract specification or a stutter for each action of the two threads.

*Argument.* `ControlInvariant` does not say that an acquisition has nothing left
of the one before it. `LoopIsFresh` (a posted start call finds an INACTIVE loop
and no other call), `DeviceFollows` (the device runs only from the end of the
delay until `StopDevice`, and is stuck only if a stop failed), `LoopFollows` (a loop in the middle of a record belongs
to processors that are open) and `StopFollows` (what a handler that stops has
already done) add that, one part per pair of states that must agree. `LoopIsWanted` names when a loop is to run: from the start call, before ACTIVE, to
the call of `stop`. The refinement needs them where an action of the detailed model
moves `device` or `processors` alone, and `ProcessorsNotShared` where one of the GUI thread starts or
finishes processors that ADQThread may have a record in (`ProcessorsAreOwned`).

`CommandLineProofs`: `CliTypeCorrect` and `SaverAlwaysOutlivesRecords` need no timing
assumption, `HeadlessFollowsLifecycle` is `CliSpec => LifecycleSpec` under
`StopsSettled`. `MaxRuns` may be any positive number, but `main` requests one
acquisition, and `CliInvariant` says what follows. Until the one start call is
taken up the loop rests and only the run timer can be heard of (`LoopIsUnused`); an
INACTIVE event, or one about to be posted, belongs to the one loop there was
(`StopIsOfRun`); a handler that finishes finds no record in the loop's hands, also
when the stop has overtaken the start call: then there was no loop yet. So the
destructors meet a loop that is over, one that only has a buffer to give back, or
one still to be entered on a device that was told to stop. If the device did stop
that last one gets no record and waits until `joinThreads` ends it; if it did not,
it gets records for a saver that is gone, which is the exception `LateRecords`.
`StopsAreOrdered` rules that loop out under `StopsSettled`. Where a second
acquisition could follow, as in the window, the same overtaking breaks the life
cycle (`early_stop`).

`FullCalibrationProofs` needs no timing assumption: `CalibrationTypeCorrect`,
`HeardExactlyOnce`, `StageAlwaysInRange`. `CalibrationInvariant` says who still
answers for a running calibration: the outermost call on the stack that will give
it up (`Doomed`), the digitizer, which has the dialog's list and is not READY, or
a READY on its way to a finished computer. That `listeners` exceeds one only
inside such a doomed call is what makes `HeardOnce` inductive.
`CalibrationKeepsControl` adds that the calibration leaves `ControlInvariant`
alone, although it moves `digState` and `guiPc` from inside a signal
(`RequestKeepsControl`, `RefusalKeepsControl`, `StagesKeepControl`), and
`StageStopIsAnswered` follows as it does for a plain acquisition: a stage in
STOPPING has an answer ahead of it or its stop was lost. `TimelyInvariant` does not
carry over: with all three switches TRUE, TLC finds `ReadyIsQuiet`,
`RecordsBetweenStartAndFinish` and `LifecycleSpec` violated under
`CalibrationSpec`, each by the INACTIVE event of run `calibration_overlap`.

`RecordProcessorsProofs`, for any set of writers, record sizes and limit:
`ListedAreAlwaysAlive`, `ListedAtMostOnce`, `PanelAlwaysAgrees`,
`FilesAlwaysFollow`, `VolumeAlwaysBounded`, `ProcTypeCorrect`, and under
`LoadsSettled` `SaverIsNeverPulled`. `FilesAreAlwaysKept` is an action property: an
open file only grows, a closed one stays as it is, and under `LoadsSettled` no step but
`Finish` closes one from the start of the device to READY. The strengthening relates
the walk to the life cycle (records are walked only while it records, with the panel
locked or `Launching`), the writers that are open to those that are listed, and the list to the
widgets.

`FrontEndProofs`, for any channels, ranges, codes around zero and any number of
requests: `FrontEndTypeCorrect`, `LevelsAreProgrammed`, `BiasIsCalibrated`,
`StagesMeasureFromZero`. Drafts, files and the settings' offsets may hold any integer;
that biases and the default table are codes all the same is what
`FrontEndTypeCorrect` says. `CalibratedBias` compares clipped sums and is not
inductive; `OffsetsFollowTable` has the offsets before they are summed.
`MeasuresFromZero` is about ACTIVE and rests on `StageIsProgrammed`, for the whole
of a stage, and on `CellsAreReset`: the cells of the stages to come keep the zero
`appendStage` gave them, except that an analog stage may fill in the cell of the
digital one that follows it. For this `OneKindOfStage` is needed. `ResultsAreKept` is
an action property: during a calibration a cell of the draft, as a box would show
it, changes only in a step that ends the stage of that cell, unless the channel was
touched; a calibration that is given up, or overwritten by a second Start (which
touches the channels it selects), included.

`SpectrumAnalyserProofs`, for any bin counts, windows and words behind the bins, and
any number of spectra, resets and ends of the program: `SpectrumTypeCorrect`,
`DialogAlwaysKnowsDevice`, `BitsAreAlwaysCleared`, and under `BinsSettled` `SpectraAreAlwaysWhole`. The last needs
that an acquisition begins with nothing sent (`StartsEmpty`), that the device then
has one bin count for all of it (`SentAlike`), which is the plotter's at each of its
accesses (`TakenAlike`), and that the plotter has nothing in its hands when the slider
may be moved (`PlotterIsRecording`). `SlotIsOpen` says in which states a slot of the GUI thread
may be half done, which `BitsAreCleared` needs. `WriteIsMasked` is the lemma the rest stands on: a
write changes its own bit and no other. Two action properties say what that means
for the writers who share a register: `CountingIsAlwaysKept` (from the write
before ACTIVE to the end of ACTIVE nobody switches the counting on or off) and
`SettingsAreAlwaysTheUsers` (a setting changes only to what its own control shows
from then on; acquisitions, resets and restarts change none). Their lemmas are one
per kind of writer: `DialogWrites`, `AcquisitionWrites`, `LayoutWrites`, and
`QuietStepsWriteNothing` for the rest.

*Only model-checked.* Liveness (`StoppingEnds`, `ScopeReturns`, `LoopIsEntered`,
`RunExits`, `CalibrationEnds`) is beyond the prover, which has no ENABLED. The
other properties of the passing runs are all proved, under the assumptions of
their runs or weaker ones: `calibration`'s safety without `DelaySettled`. Of
`StoppingEnds` and `ScopeReturns` the safety half is proved (`StopIsAlwaysAnswered`,
`ScopeIsAlwaysOwed`): what has to happen is queued, and only fairness is left to TLC.
The action properties that are proved and listed in no configuration were checked
by TLC on the instances of the runs before they were proved.

## 5. Not modelled

* Setters of the digitizer that forward one value, the widgets of the buffers,
  GPIO, register and auxiliary trigger dialogs, the JSON of single fields: no
  state of their own that another step depends on.
* Contents of files and records, sample conversion, the sum over samples of the
  parameter computer.
* The download of the global spectrum, the files spectra are saved to, the boxcar
  trigger level: each changes one curve or one register nothing else depends on.
* The vectors of the spectrum plotter while they are reallocated under ADQThread:
  `SpectrumAnalyser` has the counts they are accessed by, not the memory.
* The synchronisation of timestamps: a dialog with a copy of three settings, and
  device calls in the order disarm, set up, arm within one handler. What can go
  stale is listed under the hazards; the repository states no rule for it.
* The main window closed during an acquisition: `GUIApplication` leaves the order
  to Qt and to the members of two classes.
* Memory effects weaker than sequential consistency.
* The mock device is a test double; the superseded application is not compiled.
* Most of the repository's lines are libraries and generated or vendored headers
  (`src/lib/qcustomplot`, `src/lib/spdlog-1.8.2`, `src/ADQAPI.h`): not this
  program's logic. The map covers the program's own core.

## 6. Plan

Done: the models of section 2, in the order acquisition, headless program,
calibration, settings, record processors, front end, spectrum analyser; the
invariants of all of them proved, and the refinement of the life cycle by the two
threads and by the headless program.

Left:

1. An abstract specification of a calibration (stages in order, one result each,
   an end), implemented by `FullCalibration`.
2. `BuffersDialog`, and the levels of the trigger against the bias of a tab.
3. The teardown of the GUI application.
4. The start of an acquisition from the GUI while a stop of the last one is
   still queued, composed with `RecordProcessors`: which files the late stop closes.
