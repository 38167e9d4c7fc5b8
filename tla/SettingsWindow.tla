--------------------------- MODULE SettingsWindow ---------------------------
(***************************************************************************)
(* The settings of the main window: trigger approach, channel and trigger  *)
(* masks and duration of the default acquisition, and the widgets that     *)
(* show and change them.  A handler of the channel half is an operator     *)
(* from one panel to the next: a configuration that is loaded runs the     *)
(* handlers of the widgets it moves, in the order reloadUI moves them.     *)
(***************************************************************************)
EXTENDS Naturals

CONSTANTS
    NofChannels, \* MAX_NOF_CHANNELS
    MinTime,     \* smallest value of the timed-run spin box, in ms
    Durations    \* durations that a file may hold and a user may enter

ASSUME NofChannelsAssumption == NofChannels \in Nat \ {0}
ASSUME MinTimeAssumption == MinTime \in Nat \ {0}
ASSUME DurationsAssumption == Durations \subseteq Nat

VARIABLES
    panel,    \* the channel tabs, the combo box and the masks they set
    duration, \* duration of the acquisition
    timed,    \* the box "Timed run" is checked
    time,     \* value of its spin box
    timeOn,   \* the spin box is enabled
    live      \* ACTIVE has been announced and READY not yet

timeVars == <<duration, timed, time, timeOn>>
settingsVars == <<panel, timeVars, live>>

Channels == 0 .. NofChannels - 1

\* The items of the combo box; a mask is the set of its bits.
Approaches == {"SINGLE", "INDIVIDUAL"}
Masks == SUBSET Channels

NoDuration == 0

\* What the configuration file holds of these settings.
Files == [approach : Approaches, channels : Masks, triggers : Masks,
          duration : Durations]

Panels ==
    [approach : Approaches, channels : Masks, triggers : Masks,
     combo : Approaches,  \* the item shown by the approach combo box
     open : Channels,     \* the open tab
     last : Channels,     \* lastActiveChannel
     active : Masks,      \* tabs whose box "Active" is checked
     trigger : Masks,     \* tabs whose box "Trigger source" is checked
     allowed : Masks,     \* tabs whose boxes may change when not locked
     enabled : Masks]     \* tabs whose boxes are enabled

SettingsTypeOK ==
    /\ panel \in Panels
    /\ duration \in Nat /\ timed \in BOOLEAN
    /\ time \in Nat /\ timeOn \in BOOLEAN
    /\ live \in BOOLEAN

---------------------------------------------------------------------------
(* Masks.                                                                  *)

\* (num == (num & -num)): no bit at all passes as well.
OnlyOneBitSet(mask) == \A c, d \in mask : c = d

FirstOf(mask) == CHOOSE c \in mask : \A d \in mask : c <= d

\* Mutant of Verified: the mask is taken as it is.
VerifiedUnchanged(mask) == mask

\* verifyChannelMaskForSingularApproach.
Verified(mask) == IF OnlyOneBitSet(mask) THEN mask ELSE {FirstOf(mask)}

\* Acquisition::fromJson corrects the two masks apart from each other.
FromJson(file) ==
    IF file.approach = "SINGLE"
    THEN [file EXCEPT !.channels = Verified(@), !.triggers = Verified(@)]
    ELSE file

---------------------------------------------------------------------------
(* Handlers of the channel tabs.                                           *)

\* handleSetChannelActive and handleSetChannelTriggerActive.
Masked(w, mask, c, on) ==
    IF w.approach = "SINGLE" THEN {c}
    ELSE IF on THEN mask \cup {c} ELSE mask \ {c}

SetChannelActive(w, c, on) ==
    [w EXCEPT !.channels = Masked(w, @, c, on), !.last = c]

SetTriggerActive(w, c, on) ==
    [w EXCEPT !.triggers = Masked(w, @, c, on)]

\* setActiveChangeAllowed and setTriggerChangeAllowed of some tabs.
Allowing(w, tabs, mask) ==
    IF w.approach = "SINGLE" THEN mask \ tabs ELSE mask \cup tabs

\* Mutant of TabsReloaded: the boxes are not checked from the masks.
TabsReloadedUnchecked(w, tabs) ==
    [w EXCEPT !.allowed = Allowing(w, tabs, @), !.enabled = Allowing(w, tabs, @)]

\* reloadUI of some tabs: a box is checked by its mask and never unchecked,
\* and the approach enables the boxes, whether or not they are locked.
TabsReloaded(w, tabs) ==
    [w EXCEPT !.active = @ \cup (w.channels \cap tabs),
              !.trigger = @ \cup (w.triggers \cap tabs),
              !.allowed = Allowing(w, tabs, @),
              !.enabled = Allowing(w, tabs, @)]

\* handleTabChanged: the single channel follows the open tab.
TabChanged(w, c) ==
    LET checked == [w EXCEPT !.active = (@ \ {w.last}) \cup {c},
                             !.trigger = (@ \ {w.last}) \cup {c}]
        followed == SetTriggerActive(SetChannelActive(checked, c, TRUE), c, TRUE)
    IN TabsReloaded(IF w.approach = "SINGLE" THEN followed ELSE w, {c})

\* The tab widget announces a tab only when it was not the open one.
TabOpened(w, c) ==
    IF c = w.open THEN w ELSE TabChanged([w EXCEPT !.open = c], c)

\* handleApproachChanged: SINGLE takes the open tab and locks every box.
ApproachChanged(w, approach) ==
    LET entered == [w EXCEPT !.approach = approach, !.combo = approach]
        checked == [entered EXCEPT !.active = @ \cup {w.open},
                                   !.trigger = @ \cup {w.open}]
        taken == SetChannelActive(SetTriggerActive(checked, w.open, TRUE),
                                  w.open, TRUE)
    IN IF approach = "SINGLE"
       THEN [taken EXCEPT !.allowed = {}, !.enabled = {}]
       ELSE [entered EXCEPT !.allowed = Channels, !.enabled = Channels]

ApproachShown(w, approach) ==
    IF approach = w.combo THEN w ELSE ApproachChanged(w, approach)

---------------------------------------------------------------------------
(* A configuration is loaded.                                              *)

\* Mutant of ShownChannel: the index runs past the last channel.
ShownChannelPast(mask) == IF mask = {} THEN NofChannels ELSE FirstOf(mask)

\* The tab reloadUI shows for a mask of at most one channel.
ShownChannel(mask) == IF mask = {} THEN 0 ELSE FirstOf(mask)

\* AcquisitionSettings::reloadUI: the combo box and the tabs it moves run
\* their handlers on the acquisition that has just been loaded.
ChannelsShown(w) ==
    LET approached == ApproachShown(w, w.approach)
        moved == IF OnlyOneBitSet(approached.channels)
                 THEN TabOpened(approached, ShownChannel(approached.channels))
                 ELSE approached
    IN TabsReloaded(moved, Channels)

\* setAcquisition and reloadUI of the channel half.
Loaded(w, file) ==
    LET acq == FromJson(file)
    IN ChannelsShown([w EXCEPT !.approach = acq.approach,
                               !.channels = acq.channels,
                               !.triggers = acq.triggers])

\* A spin box raises the value it is given to its minimum.
AtLeastMin(t) == IF t < MinTime THEN MinTime ELSE t

\* Mutant of ShowDuration: the spin box is not set.
ShowDurationUnset(d) ==
    /\ duration' = d /\ timed' = (d # NoDuration)
    /\ timeOn' = timed' /\ UNCHANGED time

\* PrimaryControls::reloadUI for a duration that has been loaded.  Checking
\* an unchecked box runs its handler, which sets the duration to the value
\* of the spin box, and that value is then shown.  A checked box is left, and
\* the spin box sets the duration if it changes.
ShowDuration(d) ==
    \/ /\ d = NoDuration
       /\ duration' = NoDuration /\ timed' = FALSE /\ timeOn' = FALSE
       /\ UNCHANGED time
    \/ /\ d # NoDuration /\ ~timed
       /\ duration' = time /\ timed' = TRUE /\ timeOn' = TRUE
       /\ UNCHANGED time
    \/ /\ d # NoDuration /\ timed
       /\ time' = AtLeastMin(d) /\ timeOn' = TRUE
       /\ duration' = IF time' = time THEN d ELSE time'
       /\ UNCHANGED timed

\* The widgets as they are constructed, over the default acquisition.
Blank ==
    [approach |-> "SINGLE", channels |-> {0}, triggers |-> {0},
     combo |-> "SINGLE", open |-> 0, last |-> 0, active |-> {},
     trigger |-> {}, allowed |-> Channels, enabled |-> Channels]

\* GUIApplication::start shows the configuration the program starts with;
\* the box "Timed run" is unchecked and its spin box holds the minimum.
SettingsInit ==
    /\ \E file \in Files :
          /\ panel = Loaded(Blank, file)
          /\ timed = (file.duration # NoDuration)
          /\ duration = IF timed THEN MinTime ELSE NoDuration
    /\ time = MinTime /\ timeOn = timed
    /\ live = FALSE

---------------------------------------------------------------------------
(* Actions.                                                                *)

\* The user loads a file; the menu is never disabled.
Load(file) ==
    /\ ShowDuration(file.duration)
    /\ panel' = Loaded(panel, file)
    /\ UNCHANGED live

\* The combo box is disabled while an acquisition is ACTIVE.
ChooseApproach(approach) ==
    /\ ~live /\ approach # panel.combo
    /\ panel' = ApproachChanged(panel, approach)
    /\ UNCHANGED <<timeVars, live>>

\* Tabs can be opened at any time.
SelectTab(c) ==
    /\ c # panel.open
    /\ panel' = TabOpened(panel, c)
    /\ UNCHANGED <<timeVars, live>>

\* A click on a check box of the open tab.
Clicked(boxes, c) == IF c \in boxes THEN boxes \ {c} ELSE boxes \cup {c}

ToggleActive(c) ==
    /\ c = panel.open /\ c \in panel.enabled
    /\ panel' = SetChannelActive([panel EXCEPT !.active = Clicked(@, c)],
                                 c, c \notin panel.active)
    /\ UNCHANGED <<timeVars, live>>

ToggleTrigger(c) ==
    /\ c = panel.open /\ c \in panel.enabled
    /\ panel' = SetTriggerActive([panel EXCEPT !.trigger = Clicked(@, c)],
                                 c, c \notin panel.trigger)
    /\ UNCHANGED <<timeVars, live>>

\* The check box "Timed run".
ToggleTimed ==
    /\ ~live
    /\ timed' = ~timed /\ timeOn' = ~timed
    /\ duration' = IF timed THEN NoDuration ELSE time
    /\ UNCHANGED <<panel, time, live>>

\* The spin box of the timed run; an unchecked box keeps the duration at 0.
EnterTime(t) ==
    /\ timeOn /\ t >= MinTime /\ t # time
    /\ time' = t
    /\ duration' = IF timed THEN t ELSE NoDuration
    /\ UNCHANGED <<panel, timed, timeOn, live>>

\* enableVolatileSettings at ACTIVE and at READY; READY also ends a run that
\* was stopped before it was ACTIVE, and enables the spin box whatever the
\* check box says.
Lock ==
    /\ ~live /\ live' = TRUE
    /\ panel' = [panel EXCEPT !.enabled = {}] /\ timeOn' = FALSE
    /\ UNCHANGED <<duration, timed, time>>

Unlock ==
    /\ live' = FALSE
    /\ panel' = [panel EXCEPT !.enabled = panel.allowed] /\ timeOn' = TRUE
    /\ UNCHANGED <<duration, timed, time>>

SettingsNext ==
    \/ \E file \in Files : Load(file)
    \/ \E approach \in Approaches : ChooseApproach(approach)
    \/ \E c \in Channels : SelectTab(c) \/ ToggleActive(c) \/ ToggleTrigger(c)
    \/ ToggleTimed \/ \E t \in Durations : EnterTime(t)
    \/ Lock \/ Unlock

SettingsSpec == SettingsInit /\ [][SettingsNext]_settingsVars

---------------------------------------------------------------------------
(* Properties.                                                             *)

\* No channel is acquired, and none is a trigger source, whose box in the
\* tab is unchecked: the handlers of approach, tabs, boxes and files move
\* masks and boxes apart from each other.  (A checked box may be stale.)
BoxesShowMasks ==
    /\ panel.channels \subseteq panel.active
    /\ panel.triggers \subseteq panel.trigger

\* Under the single-channel approach at most the channel of the open tab is
\* acquired, at most one is a trigger source, and no box can be clicked,
\* however approaches, tabs, locks and files followed each other.
SingleIsOneChannel ==
    panel.approach = "SINGLE" =>
        /\ panel.channels \subseteq {panel.open}
        /\ OnlyOneBitSet(panel.triggers)
        /\ panel.enabled = {}

\* "Timed run" is checked exactly when the acquisition has a duration, and
\* the spin box then shows it, or its minimum for a shorter one.
DurationIsShown ==
    /\ timed <=> duration # NoDuration
    /\ timed => time = AtLeastMin(duration)

\* A file as the window saves it: SINGLE holds one channel for both masks.
SavedByWindow(file) ==
    /\ file.approach = "SINGLE" =>
          \E c \in Channels : file.channels = {c} /\ file.triggers = {c}
    /\ file.duration = NoDuration \/ file.duration >= MinTime

\* README: any configuration file can be loaded.  After the load of a file
\* that was saved from the window, the acquisition has the settings of the
\* file.
LoadedIsKept ==
    [][\A file \in Files : SavedByWindow(file) /\ Load(file) =>
          /\ panel'.channels = file.channels
          /\ panel'.triggers = file.triggers
          /\ duration' = file.duration]_settingsVars

=============================================================================
