-------------------------- MODULE RecordProcessors --------------------------
(***************************************************************************)
(* The record processors of a running GUI: the digitizer's one list, which *)
(* the GUI thread edits from RecordProcessorsPanel, TimestampDialog and    *)
(* SpectrumDialog, which a calibration replaces, and which ADQThread walks *)
(* for every record; and the file writers in it, which the panel creates   *)
(* and destroys.                                                           *)
(*                                                                         *)
(* The acquisition is the one of AcquisitionLifecycle: AcquisitionControl  *)
(* implements it, and keeps configureAcquisition and finish apart from     *)
(* processRecord, so each of them is one step here. std::list is a bag     *)
(* (push_back adds an element, remove takes every copy); which element a   *)
(* walk visits next is left open.                                          *)
(***************************************************************************)
EXTENDS Naturals

CONSTANTS
    Writers,      \* file writers that exist at one time, at most
    RecordSizes,  \* sizes of a record buffer
    HeaderSize,   \* sizeof(MinifiedRecordHeader)
    SizeLimit,    \* fileSizeLimit
    LoadsSettled, \* assumption: no configuration is loaded while recording
    None          \* the null pointer

ASSUME SizesAssumption ==
    RecordSizes \subseteq Nat /\ HeaderSize \in Nat /\ SizeLimit \in Nat
ASSUME LoadsAssumption == LoadsSettled \in BOOLEAN

Singles    == {"scope", "reader", "plotter", "computer"}
Processors == Writers \cup Singles

ASSUME PointersAssumption == None \notin Processors /\ Writers \cap Singles = {}

VARIABLES
    phase, recording, streaming, \* as in AcquisitionLifecycle
    asked,      \* whose acquisition it is
    halted,     \* a processor refused a record of this acquisition
    listed,     \* Digitizer::recordProcessors: how often each is in it
    saveMode,   \* fileTypeSelector and ApplicationConfiguration::fileSaveMode
    saver,      \* RecordProcessorsPanel::fileSaver
    scopeBox,   \* updateScopeCB is checked
    scopeAdded, \* scopeUpdaterAdded
    reading,    \* TimestampDialog: updateTimestamp is checked
    plotting,   \* SpectrumDialog: channelPlotSource is not "Disabled"
    writers,    \* the writers, by address
    at,         \* the processor completeRecord has come to
    seen        \* list nodes the walk has been to and that are still there

panelVars == <<saveMode, saver, scopeBox, scopeAdded, reading, plotting>>
walkVars  == <<halted, at, seen>>
lifeVars  == <<phase, recording, streaming, asked>>
vars == <<lifeVars, walkVars, listed, panelVars, writers>>

Lifecycle == INSTANCE AcquisitionLifecycle WITH walking <- (at # None)

---------------------------------------------------------------------------
(* Types.                                                                  *)

FileModes == {"BINARY", "BINARY_VERBOSE"}

\* What a configuration file may name, and what the combo box may show: it
\* knows no entry for the buffered modes and then shows none.
ConfigModes == FileModes \cup {"DISABLED", "BUFFERED"}
ShownModes  == FileModes \cup {"DISABLED", "unset"}

\* class: of the object at that address, or "gone"; stream: its dataStreams;
\* bytes: bytesSaved; continuous: isContinuousStream, set by the first
\* startNewAcquisition.
WriterStates == [class : FileModes \cup {"gone"},
                 stream : {"unstarted", "open", "closed"},
                 bytes : Nat,
                 continuous : BOOLEAN]

Gone == [class |-> "gone", stream |-> "unstarted", bytes |-> 0,
         continuous |-> FALSE]

ProcTypeOK ==
    /\ Lifecycle!TypeOK
    /\ asked \in {"default", "calibration"}
    /\ halted \in BOOLEAN
    /\ listed \in [Processors -> Nat]
    /\ saveMode \in ShownModes
    /\ saver \in Writers \cup {None}
    /\ scopeBox \in BOOLEAN /\ scopeAdded \in BOOLEAN
    /\ reading \in BOOLEAN /\ plotting \in BOOLEAN
    /\ writers \in [Writers -> WriterStates]
    /\ at \in Processors \cup {None}
    /\ seen \subseteq Processors

IsIn(p) == listed[p] > 0

\* No record is in the hands of the processors.
NoWalk == at = None

\* The element the walk stood on was removed under it.
Astray == at # None /\ at \notin seen

\* Mutant of Locked: the panel is enabled again when STOPPING is announced.
LockedBriefly == phase = "ACTIVE"

\* PrimaryWindow::onDigitizerStateChanged disables the panel at ACTIVE and
\* enables it at READY.
Locked == phase \in {"ACTIVE", "STOPPING"}

\* onAcquisitionDelayEnd has started the device and has not announced ACTIVE:
\* the GUI thread is in the middle of it, and the panel still enabled.
Launching == phase = "STABILIZING" /\ streaming

---------------------------------------------------------------------------
(* The list and the writers.                                               *)

Pushed(list, p)  == [list EXCEPT ![p] = @ + 1]
Removed(list, p) == [list EXCEPT ![p] = 0]

\* A writer as its constructor leaves it; what it does not initialise is
\* whatever the memory held.
New(mode, continuous) ==
    [Gone EXCEPT !.class = mode, !.continuous = continuous]

WithoutSaver ==
    [w \in Writers |-> IF w = saver THEN Gone ELSE writers[w]]

\* Mutant of ExchangeSaver: the old saver stays in the list.
ExchangeSaverUnremoved(mode, list) ==
    IF mode \in FileModes
    THEN \E w \in Writers : \E continuous \in BOOLEAN :
           /\ writers[w].class = "gone"
           /\ saver' = w
           /\ writers' = [WithoutSaver EXCEPT ![w] = New(mode, continuous)]
           /\ listed' = Pushed(list, w)
    ELSE /\ saver' = None
         /\ writers' = WithoutSaver
         /\ listed' = list

\* autosetFileSaver: the old saver leaves the list, the new one is made
\* before the old one is destroyed (its streams close with it), and is
\* appended. It is not started, whatever the digitizer is doing.
ExchangeSaver(mode, list) ==
    LET kept == IF saver = None THEN list ELSE Removed(list, saver) IN
    IF mode \in FileModes
    THEN \E w \in Writers : \E continuous \in BOOLEAN :
           /\ writers[w].class = "gone"
           /\ saver' = w
           /\ writers' = [WithoutSaver EXCEPT ![w] = New(mode, continuous)]
           /\ listed' = Pushed(kept, w)
    ELSE /\ saver' = None
         /\ writers' = WithoutSaver
         /\ listed' = kept

\* Mutant of ListWithScope: the box is ignored once the updater was added.
ListWithScopeSticky(box) ==
    IF box THEN Pushed(listed, "scope") ELSE listed

\* autosetUpdateScope: a second call with the box checked removes.
ListWithScope(box) ==
    IF box /\ ~scopeAdded THEN Pushed(listed, "scope")
    ELSE IF scopeAdded THEN Removed(listed, "scope")
    ELSE listed

ScopeAddedWith(box) == box /\ ~scopeAdded

\* startNewAcquisition and finish of a writer. The header that a verbose
\* writer puts before the records of its files is not in bytesSaved.
Started(writer, continuous) ==
    [writer EXCEPT !.bytes = 0, !.stream = "open", !.continuous = continuous]

\* Mutant of Finished: the streams stay open.
FinishedOpen(writer) == writer

Finished(writer) == [writer EXCEPT !.stream = "closed"]

StartedAll(list, continuous) ==
    [w \in Writers |-> IF list[w] > 0 THEN Started(writers[w], continuous)
                                     ELSE writers[w]]

FinishedAll(list) ==
    [w \in Writers |-> IF list[w] > 0 THEN Finished(writers[w])
                                     ELSE writers[w]]

\* Mutant of Full: the verbose writer compares like the plain one.
FullLate(writer) == writer.bytes > SizeLimit

\* processRecord refuses: the plain writer past the limit, the verbose one
\* at the limit.
Full(writer) ==
    IF writer.class = "BINARY" THEN writer.bytes > SizeLimit
                               ELSE writer.bytes >= SizeLimit

\* What processRecord adds to bytesSaved for a record of that size.
Added(writer, size) ==
    IF writer.class = "BINARY_VERBOSE" /\ ~writer.continuous
    THEN HeaderSize + size ELSE size

---------------------------------------------------------------------------
(* Initial states: the window is up and showed the configuration once.     *)

\* PrimaryWindow's constructor runs autosetFileSaver; reloadUI shows mode and
\* box, whose handlers run if that changes them.
Init ==
    /\ asked = "default"
    /\ halted = FALSE /\ at = None /\ seen = {}
    /\ Lifecycle!Init
    /\ saveMode \in ShownModes
    /\ scopeBox \in BOOLEAN /\ scopeAdded = scopeBox
    /\ reading = FALSE /\ plotting = FALSE
    /\ IF saveMode \in FileModes
       THEN \E w \in Writers : \E continuous \in BOOLEAN :
              /\ saver = w
              /\ writers = [v \in Writers |->
                     IF v = w THEN New(saveMode, continuous) ELSE Gone]
       ELSE saver = None /\ writers = [v \in Writers |-> Gone]
    /\ listed = [p \in Processors |->
           IF p = saver \/ (p = "scope" /\ scopeBox) THEN 1 ELSE 0]

---------------------------------------------------------------------------
(* GUI thread: the editors of the list.                                    *)

\* An element removed under the walk is erased from what the walk has seen.
Edited(p) == seen' = seen \ {p}

\* fileTypeSelector: the combo box only reports a change.
ChooseSaver(mode) ==
    /\ ~Locked
    /\ mode # saveMode
    /\ saveMode' = mode
    /\ ExchangeSaver(mode, listed)
    /\ Edited(saver)
    /\ UNCHANGED <<lifeVars, halted, at, scopeBox, scopeAdded, reading,
                   plotting>>

\* updateScopeCB.
ToggleScope ==
    /\ ~Locked
    /\ scopeBox' = ~scopeBox
    /\ listed' = ListWithScope(scopeBox')
    /\ scopeAdded' = ScopeAddedWith(scopeBox')
    /\ Edited("scope")
    /\ UNCHANGED <<lifeVars, halted, at, saveMode, saver, reading, plotting,
                   writers>>

\* TimestampDialog::changeUpdateTimestamp, enabled in every state.
ToggleReader ==
    /\ reading' = ~reading
    /\ listed' = IF reading' THEN Pushed(listed, "reader")
                             ELSE Removed(listed, "reader")
    /\ seen' = IF reading' THEN seen ELSE seen \ {"reader"}
    /\ UNCHANGED <<lifeVars, halted, at, saveMode, saver, scopeBox,
                   scopeAdded, plotting, writers>>

\* Mutant of ChangePlotChannel: the plotter is not removed first.
ChangePlotChannelAgain ==
    \E on \in BOOLEAN :
    /\ on \/ plotting
    /\ plotting' = on
    /\ listed' = IF on THEN Pushed(listed, "plotter")
                       ELSE Removed(listed, "plotter")
    /\ Edited("plotter")
    /\ UNCHANGED <<lifeVars, halted, at, saveMode, saver, scopeBox,
                   scopeAdded, reading, writers>>

\* SpectrumDialog::changePlotChannel, enabled in every state: a change from
\* one channel to another takes the plotter out and puts it in again.
ChangePlotChannel ==
    \E on \in BOOLEAN :
    /\ on \/ plotting
    /\ plotting' = on
    /\ LET kept == Removed(listed, "plotter") IN
       listed' = IF on THEN Pushed(kept, "plotter") ELSE kept
    /\ Edited("plotter")
    /\ UNCHANGED <<lifeVars, halted, at, saveMode, saver, scopeBox,
                   scopeAdded, reading, writers>>

\* Mutant of Shown: the mode is kept although there is no entry for it.
ShownRaw(mode) == mode

\* setCurrentIndex of an entry the combo box does not have selects none; its
\* handler then writes that index back into the configuration.
Shown(mode) == IF mode = "BUFFERED" THEN "unset" ELSE mode

\* openConfigLoadDialog: the panel shows the loaded configuration, locked or
\* not, and the handlers of what changed run.
LoadConfig(mode, box) ==
    /\ LoadsSettled => ~recording
    /\ LET shown == Shown(mode)
           scope == IF box = scopeBox THEN listed ELSE ListWithScope(box)
       IN  /\ saveMode' = shown
           /\ IF shown = saveMode
              THEN listed' = scope /\ UNCHANGED <<saver, writers>>
              ELSE ExchangeSaver(shown, scope)
           /\ seen' = seen \ {p \in Processors :
                  \/ p = "scope" /\ box # scopeBox
                  \/ p = saver /\ shown # saveMode}
    /\ scopeBox' = box
    /\ scopeAdded' = IF box = scopeBox THEN scopeAdded ELSE ScopeAddedWith(box)
    /\ UNCHANGED <<lifeVars, halted, at, reading, plotting>>

UserEdit ==
    /\ ~Launching
    /\ \/ \E mode \in ShownModes \ {"unset"} : ChooseSaver(mode)
       \/ ToggleScope \/ ToggleReader \/ ChangePlotChannel
       \/ \E mode \in ConfigModes, box \in BOOLEAN : LoadConfig(mode, box)

---------------------------------------------------------------------------
(* GUI thread: the acquisition.                                            *)

Request(whose) ==
    /\ UNCHANGED <<walkVars, listed, panelVars, writers>>
    /\ Lifecycle!Request
    /\ asked' = whose

\* configureAcquisition assigns the caller's list to recordProcessors, which
\* is a reference to defaultRecordProcessors.
Given ==
    IF asked = "default" THEN listed
    ELSE [p \in Processors |-> IF p = "computer" THEN 1 ELSE 0]

\* ... and starts every processor in it.
Configure ==
    /\ UNCHANGED <<asked, at, seen, panelVars>>
    /\ Lifecycle!Prepare
    /\ listed' = Given
    /\ \E continuous \in BOOLEAN :
         writers' = StartedAll(Given, continuous)
    /\ halted' = FALSE

\* A device call of configureAcquisition fails, after the assignment and
\* before any processor is started.
ConfigureFails ==
    /\ phase = "STARTING"
    /\ listed' = Given
    /\ IF asked = "default"
       THEN UNCHANGED <<phase, writers>>
       ELSE \* runStage stops the acquisition, which finishes the list
            /\ phase' = "READY"
            /\ writers' = FinishedAll(Given)
    /\ UNCHANGED <<recording, streaming, asked, walkVars, panelVars>>

\* finishRecordProcessors finishes what is in the list by now.
Finish ==
    /\ UNCHANGED <<asked, walkVars, listed, panelVars>>
    /\ Lifecycle!Close
    /\ writers' = FinishedAll(listed)

\* onAcquisitionDelayEnd starts the device and then announces ACTIVE.
GoLive ==
    /\ UNCHANGED <<asked, walkVars, listed, panelVars, writers>>
    /\ Lifecycle!Launch \/ Lifecycle!GoLive

\* stopAcquisition and handleAcquisitionFullyStopped, but for Finish.
WindDown ==
    /\ UNCHANGED <<asked, walkVars, listed, panelVars, writers>>
    /\ ~Launching
    /\ Lifecycle!Halt \/ Lifecycle!Drain \/ Lifecycle!Complete

AcquisitionStep ==
    \/ \E whose \in {"default", "calibration"} : Request(whose)
    \/ Configure \/ ConfigureFails
    \/ GoLive \/ Finish \/ WindDown

---------------------------------------------------------------------------
(* ADQThread: completeRecord.                                              *)

\* processRecord of p: a full writer refuses, a plotter whose bin count does
\* not fit the record reports an error, the others take the record.
Refuses(p) ==
    \/ p \in Writers /\ Full(writers[p])
    \/ p = "plotter"

Takes(p, size) ==
    IF p \in Writers
    THEN /\ ~Full(writers[p])
         /\ writers' = [writers EXCEPT ![p].bytes =
                            @ + Added(writers[p], size)]
    ELSE UNCHANGED writers

\* The loop calls the next processor of the list. After a refusal it calls
\* no other, and takes no other record.
Call(p) ==
    /\ ~halted
    /\ IsIn(p) /\ p \notin seen
    /\ at' = p /\ seen' = seen \cup {p}
    /\ \/ Refuses(p) /\ halted' = TRUE /\ UNCHANGED writers
       \/ \E size \in RecordSizes : Takes(p, size) /\ UNCHANGED halted
    /\ UNCHANGED <<lifeVars, listed, panelVars>>

\* The first record may come before ACTIVE is announced.
BeginWalk(p) ==
    NoWalk /\ streaming /\ phase \in {"STABILIZING", "ACTIVE"} /\ Call(p)
Continue(p)  == ~NoWalk /\ Call(p)

\* The walk is over at the end of the list or at a refusal. One that stood on
\* an erased element reads freed memory: its links may still be those of the
\* list, or the walk finds its end.
EndWalk ==
    /\ ~NoWalk
    /\ halted \/ Astray \/ (\A p \in Processors : IsIn(p) => p \in seen)
    /\ at' = None /\ seen' = {}
    /\ UNCHANGED <<lifeVars, halted, listed, panelVars, writers>>

Walk == (\E p \in Processors : BeginWalk(p) \/ Continue(p)) \/ EndWalk

---------------------------------------------------------------------------

Next == UserEdit \/ AcquisitionStep \/ Walk

Spec == Init /\ [][Next]_vars

---------------------------------------------------------------------------
(* Properties.                                                             *)

\* The panel owns the only writer there is, and the list holds no other: no
\* exchange, load or calibration leaves a destroyed writer in the list.
ListedAreAlive ==
    /\ \A w \in Writers : IsIn(w) => w = saver
    /\ \A w \in Writers : writers[w].class # "gone" <=> w = saver

\* However the editors follow each other, no processor is listed twice: it
\* would be started twice and get every record twice.
ListedOnce == \A p \in Processors : listed[p] <= 1

\* Until a calibration has replaced the list, its content is what the window
\* shows: the file type, the scope box, the timestamp box and the plot channel.
PanelAgrees ==
    /\ saveMode \in FileModes <=> saver # None
    /\ saver # None => writers[saver].class = saveMode
    /\ scopeAdded = scopeBox
    /\ ~IsIn("computer") =>
          /\ saver # None => IsIn(saver)
          /\ IsIn("scope") <=> scopeBox
          /\ IsIn("reader") <=> reading
          /\ IsIn("plotter") <=> plotting

\* A file is open only during an acquisition, and a listed writer whose file
\* was closed gets no records: READY finds every file on disk complete.
FilesFollowAcquisition ==
    /\ ~recording => \A w \in Writers : writers[w].stream # "open"
    /\ recording => \A w \in Writers : IsIn(w) => writers[w].stream # "closed"

\* No more bytes of records than the limit and what was begun below it,
\* whatever their sizes and however the acquisitions follow each other.
VolumeBounded ==
    \A w \in Writers : writers[w].bytes > 0 => \E size \in RecordSizes :
        IF writers[w].class = "BINARY"
        THEN writers[w].bytes <= SizeLimit + size
        ELSE writers[w].bytes < SizeLimit + HeaderSize + size

\* The panel is locked for long enough: a file writer or the scope updater is
\* never taken out of the list, or destroyed, while it has a record, the ones
\* that come before the panel is locked included.
SaverNotPulled == at \in Writers \cup {"scope"} => IsIn(at)

=============================================================================
