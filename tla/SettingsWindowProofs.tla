------------------------ MODULE SettingsWindowProofs ------------------------
(***************************************************************************)
(* What SettingsWindow promises for every number of channels and every set *)
(* of durations: types, and that boxes, masks, tab and timed run agree.    *)
(* A lemma per handler says what it keeps; a step is one or several        *)
(* handlers.                                                               *)
(***************************************************************************)
EXTENDS SettingsWindow, WellFoundedInduction, TLAPS

USE NofChannelsAssumption, MinTimeAssumption, DurationsAssumption

---------------------------------------------------------------------------
(* Masks.                                                                  *)

\* A mask that is not empty has a lowest bit: the loops over the channels in
\* fromJson and reloadUI find one.
LEMMA FirstOfIsSet ==
    ASSUME NEW mask \in Masks, mask # {}
    PROVE  FirstOf(mask) \in mask
<1>1. mask \subseteq Nat
  BY DEF Masks, Channels
<1>2. \E c \in mask : \A d \in mask : ~(<<d, c>> \in OpToRel(<, Nat))
  BY <1>1, NatLessThanWellFounded, WFMin
<1>3. \E c \in mask : \A d \in mask : ~(d < c)
  BY <1>1, <1>2 DEF OpToRel
<1>4. \E c \in mask : \A d \in mask : c <= d
  BY <1>1, <1>3
<1> QED
  BY <1>4 DEF FirstOf

\* A corrected mask is a mask of at most one bit.
LEMMA VerifiedIsOneBit ==
    ASSUME NEW mask \in Masks
    PROVE  Verified(mask) \in Masks /\ OnlyOneBitSet(Verified(mask))
<1>1. CASE OnlyOneBitSet(mask)
  BY <1>1 DEF Verified
<1>2. CASE ~OnlyOneBitSet(mask)
  <2>1. mask # {}
    BY <1>2 DEF OnlyOneBitSet
  <2>2. FirstOf(mask) \in mask
    BY <2>1, FirstOfIsSet
  <2> QED
    BY <1>2, <2>2 DEF Verified, OnlyOneBitSet, Masks
<1> QED
  BY <1>1, <1>2

---------------------------------------------------------------------------
(* The inductive invariant.                                                *)

\* What a configuration brings, before the boxes follow.
MasksOK(w) ==
    w.approach = "SINGLE" => OnlyOneBitSet(w.channels) /\ OnlyOneBitSet(w.triggers)

\* Tab, combo box and the right to click.
TabOK(w) ==
    /\ w.combo = w.approach
    /\ w.approach = "SINGLE" =>
          /\ w.channels \subseteq {w.open}
          /\ OnlyOneBitSet(w.triggers)
          /\ w.allowed = {} /\ w.enabled = {}

BoxesOK(w) == w.channels \subseteq w.active /\ w.triggers \subseteq w.trigger

PanelOK(w) == w \in Panels /\ TabOK(w) /\ BoxesOK(w)

\* The spin box is never below its minimum.
TimeOK == DurationIsShown /\ time >= MinTime

SettingsInvariant == SettingsTypeOK /\ PanelOK(panel) /\ TimeOK

---------------------------------------------------------------------------
(* The handlers of the channel half.                                       *)

\* Panel r is panel w after some tabs have been reloaded.
Reloading(w, r, tabs) ==
    /\ r \in Panels
    /\ r.approach = w.approach /\ r.channels = w.channels
    /\ r.triggers = w.triggers /\ r.combo = w.combo /\ r.open = w.open
    /\ r.active = w.active \cup (w.channels \cap tabs)
    /\ r.trigger = w.trigger \cup (w.triggers \cap tabs)
    /\ r.allowed = Allowing(w, tabs, w.allowed)
    /\ r.enabled = Allowing(w, tabs, w.enabled)

LEMMA TabsReloadedFields ==
    ASSUME NEW w \in Panels, NEW tabs \in Masks
    PROVE  Reloading(w, TabsReloaded(w, tabs), tabs)
<1>1. TabsReloaded(w, tabs) \in Panels
  BY DEF TabsReloaded, Panels, Masks, Allowing
<1> QED
  BY <1>1 DEF Reloading, TabsReloaded, Panels

\* All tabs are reloaded: every box comes to show its mask.
LEMMA TabsReloadedShow ==
    ASSUME NEW w \in Panels, w.combo = w.approach,
           w.approach = "SINGLE" => w.channels \subseteq {w.open}
                                    /\ OnlyOneBitSet(w.triggers)
    PROVE  PanelOK(TabsReloaded(w, Channels))
<1> DEFINE t == TabsReloaded(w, Channels)
<1>1. Reloading(w, t, Channels)
  BY TabsReloadedFields DEF Masks
<1>2. w.allowed \subseteq Channels /\ w.enabled \subseteq Channels
      /\ w.channels \subseteq Channels /\ w.triggers \subseteq Channels
  BY DEF Panels, Masks
<1> HIDE DEF t
<1>3. TabOK(t)
  BY <1>1, <1>2 DEF TabOK, Reloading, Allowing
<1>4. BoxesOK(t)
  BY <1>1, <1>2 DEF BoxesOK, Reloading
<1> QED
  BY <1>1, <1>3, <1>4 DEF PanelOK, Reloading, t

\* Opening tab c leads from panel w to panel t: under SINGLE the tab takes
\* both masks, otherwise the masks stay and no box is unchecked.
TabMoved(w, t, c) ==
    /\ t \in Panels
    /\ t.approach = w.approach /\ t.combo = w.combo /\ t.open = c
    /\ w.approach = "SINGLE" =>
          /\ t.channels = {c} /\ t.triggers = {c}
          /\ c \in t.active /\ c \in t.trigger
          /\ t.allowed \subseteq w.allowed /\ t.enabled \subseteq w.enabled
    /\ w.approach # "SINGLE" =>
          /\ t.channels = w.channels /\ t.triggers = w.triggers
          /\ w.active \subseteq t.active /\ w.trigger \subseteq t.trigger

LEMMA TabChangedMoves ==
    ASSUME NEW w \in Panels, NEW c \in Channels, w.open = c
    PROVE  TabMoved(w, TabChanged(w, c), c)
<1> DEFINE checked == [w EXCEPT !.active = (@ \ {w.last}) \cup {c},
                                 !.trigger = (@ \ {w.last}) \cup {c}]
           active == SetChannelActive(checked, c, TRUE)
           followed == SetTriggerActive(active, c, TRUE)
<1>1. CASE w.approach = "SINGLE"
  <2>1. /\ checked \in Panels /\ checked.approach = "SINGLE"
        /\ checked.combo = w.combo /\ checked.open = c
        /\ checked.allowed = w.allowed /\ checked.enabled = w.enabled
        /\ c \in checked.active /\ c \in checked.trigger
    BY <1>1 DEF Panels, Masks
  <2> HIDE DEF checked
  <2>2. /\ active \in Panels /\ active.approach = "SINGLE"
        /\ active.combo = w.combo /\ active.open = c
        /\ active.allowed = w.allowed /\ active.enabled = w.enabled
        /\ active.channels = {c}
        /\ c \in active.active /\ c \in active.trigger
    BY <2>1 DEF SetChannelActive, Masked, Panels, Masks
  <2> HIDE DEF active
  <2>3. /\ followed \in Panels /\ followed.approach = "SINGLE"
        /\ followed.combo = w.combo /\ followed.open = c
        /\ followed.allowed = w.allowed /\ followed.enabled = w.enabled
        /\ followed.channels = {c} /\ followed.triggers = {c}
        /\ c \in followed.active /\ c \in followed.trigger
    BY <2>2 DEF SetTriggerActive, Masked, Panels, Masks
  <2>4. TabChanged(w, c) = TabsReloaded(followed, {c})
    BY <1>1 DEF TabChanged, checked, active
  <2> HIDE DEF followed
  <2>5. Reloading(followed, TabChanged(w, c), {c})
    BY <2>3, <2>4, TabsReloadedFields DEF Masks
  <2> QED
    BY <1>1, <2>3, <2>5 DEF TabMoved, Reloading, Allowing
<1>2. CASE w.approach # "SINGLE"
  <2>1. TabChanged(w, c) = TabsReloaded(w, {c})
    BY <1>2 DEF TabChanged
  <2>2. Reloading(w, TabChanged(w, c), {c})
    BY <2>1, TabsReloadedFields DEF Masks
  <2> QED
    BY <1>2, <2>2 DEF TabMoved, Reloading
<1> QED
  BY <1>1, <1>2

\* The approach changes: SINGLE takes the open tab for both masks and locks
\* the boxes; otherwise the masks and boxes stay.
ApproachMoved(w, r, approach) ==
    /\ r \in Panels
    /\ r.approach = approach /\ r.combo = approach /\ r.open = w.open
    /\ w.active \subseteq r.active /\ w.trigger \subseteq r.trigger
    /\ approach = "SINGLE" =>
          /\ r.channels = {w.open} /\ r.triggers = {w.open}
          /\ w.open \in r.active /\ w.open \in r.trigger
          /\ r.allowed = {} /\ r.enabled = {}
    /\ approach # "SINGLE" =>
          r.channels = w.channels /\ r.triggers = w.triggers

LEMMA ApproachChangedMoves ==
    ASSUME NEW w \in Panels, NEW approach \in Approaches
    PROVE  ApproachMoved(w, ApproachChanged(w, approach), approach)
<1> DEFINE entered == [w EXCEPT !.approach = approach, !.combo = approach]
           checked == [entered EXCEPT !.active = @ \cup {w.open},
                                      !.trigger = @ \cup {w.open}]
           triggered == SetTriggerActive(checked, w.open, TRUE)
           taken == SetChannelActive(triggered, w.open, TRUE)
<1>1. CASE approach = "SINGLE"
  <2>1. /\ checked \in Panels /\ checked.approach = approach
        /\ checked.combo = approach /\ checked.open = w.open
        /\ checked.active = w.active \cup {w.open}
        /\ checked.trigger = w.trigger \cup {w.open}
    BY DEF Panels, Masks
  <2> HIDE DEF checked
  <2>2. /\ triggered \in Panels /\ triggered.approach = approach
        /\ triggered.combo = approach /\ triggered.open = w.open
        /\ triggered.active = checked.active
        /\ triggered.trigger = checked.trigger
        /\ triggered.triggers = {w.open}
    BY <1>1, <2>1 DEF SetTriggerActive, Masked, Panels, Masks
  <2> HIDE DEF triggered
  <2>3. /\ taken \in Panels /\ taken.approach = approach
        /\ taken.combo = approach /\ taken.open = w.open
        /\ taken.active = checked.active
        /\ taken.trigger = checked.trigger
        /\ taken.triggers = {w.open} /\ taken.channels = {w.open}
    BY <1>1, <2>1, <2>2 DEF SetChannelActive, Masked, Panels, Masks
  <2>4. ApproachChanged(w, approach)
          = [taken EXCEPT !.allowed = {}, !.enabled = {}]
    BY <1>1 DEF ApproachChanged, triggered, checked
  <2> HIDE DEF taken
  <2> QED
    BY <1>1, <2>1, <2>3, <2>4 DEF ApproachMoved, Panels, Masks
<1>2. CASE approach # "SINGLE"
  <2>1. ApproachChanged(w, approach)
          = [entered EXCEPT !.allowed = Channels, !.enabled = Channels]
    BY <1>2 DEF ApproachChanged
  <2> QED
    BY <1>2, <2>1 DEF ApproachMoved, Panels, Masks
<1> QED
  BY <1>1, <1>2

\* The tab that reloadUI shows exists, and is that of the only channel.
LEMMA ShownChannelExists ==
    ASSUME NEW mask \in Masks, OnlyOneBitSet(mask)
    PROVE  ShownChannel(mask) \in Channels /\ mask \subseteq {ShownChannel(mask)}
<1>1. CASE mask = {}
  BY <1>1 DEF ShownChannel, Channels
<1>2. CASE mask # {}
  BY <1>2, FirstOfIsSet DEF ShownChannel, OnlyOneBitSet, Masks
<1> QED
  BY <1>1, <1>2

\* reloadUI after a load: from masks that suit the approach, and whatever the
\* widgets showed before, the panel comes to agree with itself.
LEMMA ChannelsShownKeeps ==
    ASSUME NEW w \in Panels, MasksOK(w)
    PROVE  PanelOK(ChannelsShown(w))
<1> DEFINE a == ApproachShown(w, w.approach)
           c == ShownChannel(a.channels)
           m == IF OnlyOneBitSet(a.channels) THEN TabOpened(a, c) ELSE a
<1>1. a \in Panels /\ a.approach = w.approach /\ a.combo = w.approach
      /\ MasksOK(a)
  <2>1. CASE w.approach = w.combo
    BY <2>1 DEF ApproachShown
  <2>2. CASE w.approach # w.combo
    <3>1. ApproachMoved(w, a, w.approach)
      BY <2>2, ApproachChangedMoves DEF ApproachShown, Panels
    <3> HIDE DEF a
    <3> QED
      BY <3>1 DEF ApproachMoved, MasksOK, OnlyOneBitSet
  <2> QED
    BY <2>1, <2>2
<1> HIDE DEF a
<1>2. /\ m \in Panels /\ m.approach = w.approach /\ m.combo = w.approach
      /\ m.approach = "SINGLE" => m.channels \subseteq {m.open}
                                  /\ OnlyOneBitSet(m.triggers)
  <2>1. CASE ~OnlyOneBitSet(a.channels)
    BY <1>1, <2>1 DEF MasksOK
  <2>2. CASE OnlyOneBitSet(a.channels)
    <3>1. c \in Channels /\ a.channels \subseteq {c}
      BY <1>1, <2>2, ShownChannelExists DEF Panels
    <3>2. CASE c = a.open
      BY <1>1, <2>2, <3>1, <3>2 DEF TabOpened, MasksOK
    <3>3. CASE c # a.open
      <4> DEFINE o == [a EXCEPT !.open = c]
      <4>1. /\ o \in Panels /\ o.open = c /\ o.approach = a.approach
            /\ o.combo = a.combo
        BY <1>1, <3>1 DEF Panels
      <4>2. m = TabChanged(o, c)
        BY <2>2, <3>3 DEF TabOpened
      <4> HIDE DEF o, c, m
      <4>3. TabMoved(o, m, c)
        BY <3>1, <4>1, <4>2, TabChangedMoves
      <4> QED
        BY <1>1, <4>1, <4>3 DEF TabMoved, OnlyOneBitSet
    <3> QED
      BY <3>2, <3>3
  <2> QED
    BY <2>1, <2>2
<1>3. ChannelsShown(w) = TabsReloaded(m, Channels)
  BY DEF ChannelsShown, a
<1> HIDE DEF m
<1> QED
  BY <1>2, <1>3, TabsReloadedShow

\* A file sets masks that suit its approach.
LEMMA LoadedKeeps ==
    ASSUME NEW w \in Panels, NEW file \in Files
    PROVE  PanelOK(Loaded(w, file))
<1> DEFINE acq == FromJson(file)
           set == [w EXCEPT !.approach = acq.approach,
                            !.channels = acq.channels,
                            !.triggers = acq.triggers]
<1>1. /\ acq.approach \in Approaches
      /\ acq.channels \in Masks /\ acq.triggers \in Masks
      /\ acq.approach = "SINGLE" => OnlyOneBitSet(acq.channels)
                                    /\ OnlyOneBitSet(acq.triggers)
  <2>1. /\ file.approach \in Approaches
        /\ file.channels \in Masks /\ file.triggers \in Masks
    BY DEF Files
  <2>2. CASE file.approach = "SINGLE"
    <3>1. /\ acq.approach = "SINGLE"
          /\ acq.channels = Verified(file.channels)
          /\ acq.triggers = Verified(file.triggers)
      BY <2>2 DEF FromJson, Files
    <3> QED
      BY <2>1, <2>2, <3>1, VerifiedIsOneBit
  <2>3. CASE file.approach # "SINGLE"
    BY <2>1, <2>3 DEF FromJson
  <2> QED
    BY <2>2, <2>3
<1> HIDE DEF acq
<1>2. set \in Panels /\ MasksOK(set)
  BY <1>1 DEF Panels, MasksOK
<1>3. Loaded(w, file) = ChannelsShown(set)
  BY DEF Loaded, acq
<1> HIDE DEF set
<1> QED
  BY <1>2, <1>3, ChannelsShownKeeps

---------------------------------------------------------------------------
(* The actions.                                                            *)

LEMMA InitKeeps == SettingsInit => SettingsInvariant
<1> SUFFICES ASSUME SettingsInit
             PROVE  SettingsInvariant
  OBVIOUS
<1>1. Blank \in Panels
  BY DEF Blank, Panels, Approaches, Masks, Channels
<1>2. PanelOK(panel)
  BY <1>1, LoadedKeeps DEF SettingsInit
<1>3. timed \in BOOLEAN /\ timeOn \in BOOLEAN /\ live \in BOOLEAN
  BY DEF SettingsInit
<1>4. duration \in Nat /\ time \in Nat /\ TimeOK
  BY DEF SettingsInit, TimeOK, DurationIsShown, AtLeastMin, NoDuration
<1> QED
  BY <1>2, <1>3, <1>4 DEF SettingsInvariant, SettingsTypeOK, PanelOK

\* A duration that is loaded.
LEMMA ShowDurationKeeps ==
    ASSUME SettingsInvariant, NEW d \in Nat, ShowDuration(d)
    PROVE  TimeOK' /\ duration' \in Nat /\ timed' \in BOOLEAN
           /\ time' \in Nat /\ timeOn' \in BOOLEAN
<1>1. time \in Nat /\ time >= MinTime
  BY DEF SettingsInvariant, SettingsTypeOK, TimeOK
<1>2. CASE d = NoDuration
  <2>1. duration' = NoDuration /\ timed' = FALSE /\ timeOn' = FALSE
        /\ time' = time
    BY <1>2 DEF ShowDuration
  <2> QED
    BY <1>1, <2>1 DEF TimeOK, DurationIsShown, NoDuration
<1>3. CASE d # NoDuration /\ ~timed
  <2>1. duration' = time /\ timed' = TRUE /\ timeOn' = TRUE /\ time' = time
    BY <1>3 DEF ShowDuration
  <2> QED
    BY <1>1, <2>1 DEF TimeOK, DurationIsShown, NoDuration, AtLeastMin
<1>4. CASE d # NoDuration /\ timed
  <2>1. /\ time' = AtLeastMin(d)
        /\ duration' = IF time' = time THEN d ELSE time'
    BY <1>4 DEF ShowDuration
  <2>2. timed' = timed /\ timeOn' = TRUE
    BY <1>4 DEF ShowDuration
  <2>3. timed \in BOOLEAN
    BY DEF SettingsInvariant, SettingsTypeOK
  <2>4. timed'
    BY <1>4, <2>2
  <2>5. /\ duration' \in Nat /\ duration' # NoDuration
        /\ time' \in Nat /\ time' >= MinTime
        /\ time' = AtLeastMin(duration')
    BY <1>4, <2>1 DEF AtLeastMin, NoDuration
  <2>6. timed' \in BOOLEAN /\ timeOn' \in BOOLEAN
    BY <2>2, <2>3
  <2> QED
    BY <2>4, <2>5, <2>6 DEF TimeOK, DurationIsShown
<1> QED
  BY <1>2, <1>3, <1>4

\* The timed run is not touched.
LEMMA TimeStays ==
    ASSUME SettingsInvariant, UNCHANGED <<duration, timed, time>>
    PROVE  TimeOK' /\ duration' \in Nat /\ timed' \in BOOLEAN /\ time' \in Nat
BY DEF SettingsInvariant, SettingsTypeOK, TimeOK, DurationIsShown

\* Every action keeps the panel.
LEMMA PanelKept ==
    ASSUME SettingsInvariant, SettingsNext
    PROVE  PanelOK(panel')
<1> USE DEF SettingsInvariant
<1>1. panel \in Panels /\ TabOK(panel) /\ BoxesOK(panel)
  BY DEF PanelOK
<1>2. ASSUME NEW file \in Files, Load(file)
      PROVE  PanelOK(panel')
  BY <1>1, <1>2, LoadedKeeps DEF Load
<1>3. ASSUME NEW approach \in Approaches, ChooseApproach(approach)
      PROVE  PanelOK(panel')
  <2>1. ApproachMoved(panel, panel', approach)
    BY <1>1, <1>3, ApproachChangedMoves DEF ChooseApproach
  <2> QED
    BY <1>1, <2>1
       DEF ApproachMoved, PanelOK, TabOK, BoxesOK, OnlyOneBitSet
<1>4. ASSUME NEW c \in Channels, SelectTab(c)
      PROVE  PanelOK(panel')
  <2> DEFINE o == [panel EXCEPT !.open = c]
  <2>1. /\ o \in Panels /\ o.open = c /\ o.approach = panel.approach
        /\ o.combo = panel.combo /\ o.allowed = panel.allowed
        /\ o.enabled = panel.enabled /\ o.channels = panel.channels
        /\ o.triggers = panel.triggers /\ o.active = panel.active
        /\ o.trigger = panel.trigger
    BY <1>1 DEF Panels
  <2>2. panel' = TabChanged(o, c)
    BY <1>4 DEF SelectTab, TabOpened
  <2> HIDE DEF o
  <2>3. TabMoved(o, panel', c)
    BY <2>1, <2>2, TabChangedMoves
  <2> QED
    BY <1>1, <2>1, <2>3 DEF TabMoved, PanelOK, TabOK, BoxesOK, OnlyOneBitSet
<1>5. ASSUME NEW c \in Channels, ToggleActive(c)
      PROVE  PanelOK(panel')
  <2>1. panel.approach # "SINGLE"
    BY <1>1, <1>5 DEF ToggleActive, TabOK
  <2>2. panel' = [panel EXCEPT
                    !.active = Clicked(@, c), !.last = c,
                    !.channels = IF c \notin panel.active THEN @ \cup {c}
                                                          ELSE @ \ {c}]
    BY <1>1, <1>5, <2>1 DEF ToggleActive, SetChannelActive, Masked, Panels
  <2> QED
    BY <1>1, <2>1, <2>2 DEF Clicked, PanelOK, TabOK, BoxesOK, Panels, Masks
<1>6. ASSUME NEW c \in Channels, ToggleTrigger(c)
      PROVE  PanelOK(panel')
  <2>1. panel.approach # "SINGLE"
    BY <1>1, <1>6 DEF ToggleTrigger, TabOK
  <2>2. panel' = [panel EXCEPT
                    !.trigger = Clicked(@, c),
                    !.triggers = IF c \notin panel.trigger THEN @ \cup {c}
                                                           ELSE @ \ {c}]
    BY <1>1, <1>6, <2>1 DEF ToggleTrigger, SetTriggerActive, Masked, Panels
  <2> QED
    BY <1>1, <2>1, <2>2 DEF Clicked, PanelOK, TabOK, BoxesOK, Panels, Masks
<1>7. ASSUME Lock
      PROVE  PanelOK(panel')
  BY <1>1, <1>7 DEF Lock, PanelOK, TabOK, BoxesOK, Panels, Masks
<1>8. ASSUME Unlock
      PROVE  PanelOK(panel')
  BY <1>1, <1>8 DEF Unlock, PanelOK, TabOK, BoxesOK, Panels, Masks
<1>9. ASSUME ToggleTimed \/ \E t \in Durations : EnterTime(t)
      PROVE  PanelOK(panel')
  BY <1>1, <1>9 DEF ToggleTimed, EnterTime, PanelOK
<1> QED
  BY <1>2, <1>3, <1>4, <1>5, <1>6, <1>7, <1>8, <1>9 DEF SettingsNext

\* Every action keeps the timed run, and every variable its type.
LEMMA TimeKept ==
    ASSUME SettingsInvariant, SettingsNext
    PROVE  /\ TimeOK' /\ duration' \in Nat /\ timed' \in BOOLEAN
           /\ time' \in Nat /\ timeOn' \in BOOLEAN /\ live' \in BOOLEAN
<1>1. /\ duration \in Nat /\ timed \in BOOLEAN /\ time \in Nat
      /\ timeOn \in BOOLEAN /\ live \in BOOLEAN /\ time >= MinTime
  BY DEF SettingsInvariant, SettingsTypeOK, TimeOK
<1> DEFINE Kept == /\ TimeOK' /\ duration' \in Nat /\ timed' \in BOOLEAN
                   /\ time' \in Nat /\ timeOn' \in BOOLEAN /\ live' \in BOOLEAN
<1>2. ASSUME NEW file \in Files, Load(file)
      PROVE  Kept
  <2>1. file.duration \in Nat
    BY DEF Files
  <2> QED
    BY <1>1, <1>2, <2>1, ShowDurationKeeps DEF Load
<1>3. ASSUME \/ \E approach \in Approaches : ChooseApproach(approach)
             \/ \E c \in Channels : SelectTab(c) \/ ToggleActive(c)
                                    \/ ToggleTrigger(c)
      PROVE  Kept
  <2>1. UNCHANGED <<duration, timed, time, timeOn, live>>
    BY <1>3 DEF ChooseApproach, SelectTab, ToggleActive, ToggleTrigger, timeVars
  <2> QED
    BY <1>1, <2>1, TimeStays
<1>4. ASSUME Lock \/ Unlock
      PROVE  Kept
  <2>1. UNCHANGED <<duration, timed, time>>
        /\ timeOn' \in BOOLEAN /\ live' \in BOOLEAN
    BY <1>4 DEF Lock, Unlock
  <2> QED
    BY <2>1, TimeStays
<1>5. ASSUME ToggleTimed
      PROVE  Kept
  <2>1. timed' = ~timed /\ timeOn' = ~timed /\ time' = time /\ live' = live
        /\ duration' = IF timed THEN NoDuration ELSE time
    BY <1>5 DEF ToggleTimed
  <2>2. CASE timed
    <3>1. ~timed' /\ duration' = NoDuration
      BY <2>1, <2>2
    <3> QED
      BY <1>1, <2>1, <3>1 DEF TimeOK, DurationIsShown, NoDuration
  <2>3. CASE ~timed
    <3>1. timed' /\ duration' = time
      BY <2>1, <2>3
    <3>2. duration' # NoDuration /\ time' = AtLeastMin(duration')
      BY <1>1, <2>1, <3>1 DEF NoDuration, AtLeastMin
    <3> QED
      BY <1>1, <2>1, <3>1, <3>2 DEF TimeOK, DurationIsShown
  <2> QED
    BY <2>2, <2>3
<1>6. ASSUME NEW t \in Durations, EnterTime(t)
      PROVE  Kept
  <2>1. UNCHANGED <<timed, timeOn, live>> /\ time' = t /\ t >= MinTime
        /\ duration' = IF timed THEN t ELSE NoDuration
    BY <1>6 DEF EnterTime
  <2>2. t \in Nat
    OBVIOUS
  <2>3. CASE timed
    <3>1. duration' = t /\ duration' # NoDuration
          /\ time' = AtLeastMin(duration')
      BY <2>1, <2>2, <2>3 DEF NoDuration, AtLeastMin
    <3> QED
      BY <1>1, <2>1, <2>2, <2>3, <3>1 DEF TimeOK, DurationIsShown
  <2>4. CASE ~timed
    <3>1. duration' = NoDuration /\ duration' \in Nat
      BY <2>1, <2>4 DEF NoDuration
    <3> QED
      BY <1>1, <2>1, <2>2, <2>4, <3>1 DEF TimeOK, DurationIsShown
  <2> QED
    BY <2>3, <2>4
<1> QED
  BY <1>2, <1>3, <1>4, <1>5, <1>6 DEF SettingsNext

---------------------------------------------------------------------------
(* The theorems.                                                           *)

\* The inductive invariant holds for every number of channels, every set of
\* durations and every sequence of clicks, files and runs.
THEOREM SettingsInvariantHolds == SettingsSpec => []SettingsInvariant
<1>1. SettingsInit => SettingsInvariant
  BY InitKeeps
<1>2. SettingsInvariant /\ [SettingsNext]_settingsVars => SettingsInvariant'
  <2> SUFFICES ASSUME SettingsInvariant, [SettingsNext]_settingsVars
               PROVE  SettingsInvariant'
    OBVIOUS
  <2>1. CASE SettingsNext
    BY <2>1, PanelKept, TimeKept
       DEF SettingsInvariant, SettingsTypeOK, PanelOK, TabOK, BoxesOK
  <2>2. CASE UNCHANGED settingsVars
    BY <2>2 DEF settingsVars, timeVars, SettingsInvariant, SettingsTypeOK,
                PanelOK, TabOK, BoxesOK, TimeOK, DurationIsShown
  <2> QED
    BY <2>1, <2>2
<1> QED
  BY <1>1, <1>2, PTL DEF SettingsSpec

\* Type correctness.
THEOREM SettingsTypeCorrect == SettingsSpec => []SettingsTypeOK
<1>1. SettingsInvariant => SettingsTypeOK
  BY DEF SettingsInvariant
<1> QED
  BY <1>1, SettingsInvariantHolds, PTL

\* No channel is acquired or triggers behind an unchecked box.
THEOREM BoxesAlwaysShowMasks == SettingsSpec => []BoxesShowMasks
<1>1. SettingsInvariant => BoxesShowMasks
  BY DEF SettingsInvariant, PanelOK, BoxesOK, BoxesShowMasks
<1> QED
  BY <1>1, SettingsInvariantHolds, PTL

\* Under SINGLE the open tab is the only channel, and nothing can be clicked.
THEOREM SingleIsAlwaysOneChannel == SettingsSpec => []SingleIsOneChannel
<1>1. SettingsInvariant => SingleIsOneChannel
  BY DEF SettingsInvariant, PanelOK, TabOK, SingleIsOneChannel
<1> QED
  BY <1>1, SettingsInvariantHolds, PTL

\* The timed run and the duration of the acquisition agree.
THEOREM DurationIsAlwaysShown == SettingsSpec => []DurationIsShown
<1>1. SettingsInvariant => DurationIsShown
  BY DEF SettingsInvariant, TimeOK
<1> QED
  BY <1>1, SettingsInvariantHolds, PTL

---------------------------------------------------------------------------
(* What a load keeps.                                                      *)

\* The masks after reloadUI: those of the acquisition, unless the handler of
\* the combo box, moved to SINGLE, has put the open tab in their place.
LEMMA ChannelsShownMasks ==
    ASSUME NEW w \in Panels, MasksOK(w)
    PROVE  /\ w.approach # "SINGLE" =>
                 /\ ChannelsShown(w).channels = w.channels
                 /\ ChannelsShown(w).triggers = w.triggers
           /\ w.approach = "SINGLE" /\ w.combo # "SINGLE" =>
                 /\ ChannelsShown(w).channels = {w.open}
                 /\ ChannelsShown(w).triggers = {w.open}
           /\ \A c \in Channels :
                 /\ w.approach = "SINGLE" /\ w.combo = "SINGLE"
                 /\ w.channels = {c} /\ w.triggers = {c}
                 => /\ ChannelsShown(w).channels = {c}
                    /\ ChannelsShown(w).triggers = {c}
<1> DEFINE a == ApproachShown(w, w.approach)
           c == ShownChannel(a.channels)
           m == IF OnlyOneBitSet(a.channels) THEN TabOpened(a, c) ELSE a
<1>1. /\ a \in Panels /\ a.approach = w.approach
      /\ w.approach = w.combo => a = w
      /\ w.approach # w.combo => ApproachMoved(w, a, w.approach)
  <2>1. CASE w.approach = w.combo
    BY <2>1 DEF ApproachShown
  <2>2. CASE w.approach # w.combo
    <3>1. ApproachMoved(w, a, w.approach)
      BY <2>2, ApproachChangedMoves DEF ApproachShown, Panels
    <3> HIDE DEF a
    <3> QED
      BY <2>2, <3>1 DEF ApproachMoved
  <2> QED
    BY <2>1, <2>2
<1>2. ChannelsShown(w) = TabsReloaded(m, Channels)
  BY DEF ChannelsShown, a
<1> HIDE DEF a
<1>3. /\ m \in Panels
      /\ a.approach # "SINGLE" =>
            m.channels = a.channels /\ m.triggers = a.triggers
      /\ \A d \in Channels :
            /\ a.approach = "SINGLE" /\ a.channels = {d} /\ a.triggers = {d}
            => m.channels = {d} /\ m.triggers = {d}
  <2>1. CASE ~OnlyOneBitSet(a.channels)
    <3>1. \A d \in Channels : a.channels # {d}
      BY <2>1 DEF OnlyOneBitSet
    <3> QED
      BY <1>1, <2>1, <3>1
  <2>2. CASE OnlyOneBitSet(a.channels)
    <3>1. c \in Channels /\ a.channels \subseteq {c}
      BY <1>1, <2>2, ShownChannelExists DEF Panels
    <3>2. CASE c = a.open
      BY <1>1, <2>2, <3>2 DEF TabOpened
    <3>3. CASE c # a.open
      <4> DEFINE o == [a EXCEPT !.open = c]
      <4>1. /\ o \in Panels /\ o.open = c /\ o.approach = a.approach
            /\ o.channels = a.channels /\ o.triggers = a.triggers
        BY <1>1, <3>1 DEF Panels
      <4>2. m = TabChanged(o, c)
        BY <2>2, <3>3 DEF TabOpened
      <4> HIDE DEF o, c, m
      <4>3. TabMoved(o, m, c)
        BY <3>1, <4>1, <4>2, TabChangedMoves
      <4> QED
        BY <3>1, <4>1, <4>3 DEF TabMoved
    <3> QED
      BY <3>2, <3>3
  <2> QED
    BY <2>1, <2>2
<1> HIDE DEF m
<1>4. /\ ChannelsShown(w).channels = m.channels
      /\ ChannelsShown(w).triggers = m.triggers
  <2>1. Reloading(m, ChannelsShown(w), Channels)
    BY <1>2, <1>3, TabsReloadedFields DEF Masks
  <2> QED
    BY <2>1 DEF Reloading
<1>5. w.open \in Channels
  BY DEF Panels
<1>6. CASE w.approach # "SINGLE"
  <2>1. a.channels = w.channels /\ a.triggers = w.triggers
    BY <1>1, <1>6 DEF ApproachMoved
  <2> QED
    BY <1>1, <1>3, <1>4, <1>6, <2>1
<1>7. CASE w.approach = "SINGLE" /\ w.combo # "SINGLE"
  <2>1. a.channels = {w.open} /\ a.triggers = {w.open}
    BY <1>1, <1>7 DEF ApproachMoved
  <2> QED
    BY <1>1, <1>3, <1>4, <1>5, <1>7, <2>1
<1>8. CASE w.approach = "SINGLE" /\ w.combo = "SINGLE"
  BY <1>1, <1>3, <1>4, <1>8
<1> QED
  BY <1>6, <1>7, <1>8

\* When a saved file survives its load: its masks if the combo box is not
\* moved to SINGLE over another tab, its duration if there is none, if it is
\* what the spin box shows, or if "Timed run" is already checked.
MasksSurvive(file) ==
    file.approach = "SINGLE" =>
        panel.combo = "SINGLE" \/ file.channels = {panel.open}

DurationSurvives(file) ==
    timed \/ file.duration \in {NoDuration, time}

SavedIsKeptWhen ==
    \A file \in Files : SavedByWindow(file) /\ Load(file) =>
        /\ MasksSurvive(file) <=> /\ panel'.channels = file.channels
                                 /\ panel'.triggers = file.triggers
        /\ DurationSurvives(file) <=> duration' = file.duration

\* A file as the window saves it passes fromJson as it is.
LEMMA SavedMasksAreKept ==
    ASSUME SettingsInvariant, NEW file \in Files, SavedByWindow(file),
           Load(file)
    PROVE  MasksSurvive(file) <=> /\ panel'.channels = file.channels
                                  /\ panel'.triggers = file.triggers
<1> DEFINE set == [panel EXCEPT !.approach = file.approach,
                                !.channels = file.channels,
                                !.triggers = file.triggers]
<1>0. /\ file.approach \in Approaches
      /\ file.channels \in Masks /\ file.triggers \in Masks
      /\ panel \in Panels /\ panel.open \in Channels
  BY DEF Files, SettingsInvariant, SettingsTypeOK, Panels
<1>1. file.approach = "SINGLE" =>
          \E c \in Channels : file.channels = {c} /\ file.triggers = {c}
  BY DEF SavedByWindow
<1>2. /\ FromJson(file).approach = file.approach
      /\ FromJson(file).channels = file.channels
      /\ FromJson(file).triggers = file.triggers
  <2>1. CASE file.approach = "SINGLE"
    <3>1. Verified(file.channels) = file.channels
          /\ Verified(file.triggers) = file.triggers
      BY <1>1, <2>1 DEF Verified, OnlyOneBitSet
    <3> QED
      BY <2>1, <3>1 DEF FromJson, Files
  <2> QED
    BY <2>1 DEF FromJson
<1>3. panel' = ChannelsShown(set)
  BY <1>2 DEF Load, Loaded
<1>4. /\ set \in Panels
      /\ set.approach = file.approach /\ set.combo = panel.combo
      /\ set.open = panel.open /\ set.channels = file.channels
      /\ set.triggers = file.triggers
  BY <1>0 DEF Panels
<1> HIDE DEF set
<1>5. MasksOK(set)
  BY <1>1, <1>4 DEF MasksOK, OnlyOneBitSet
<1>6. CASE file.approach # "SINGLE"
  BY <1>3, <1>4, <1>5, <1>6, ChannelsShownMasks DEF MasksSurvive
<1>7. CASE file.approach = "SINGLE" /\ panel.combo = "SINGLE"
  BY <1>1, <1>3, <1>4, <1>5, <1>7, ChannelsShownMasks DEF MasksSurvive
<1>8. CASE file.approach = "SINGLE" /\ panel.combo # "SINGLE"
  <2>1. panel'.channels = {panel.open} /\ panel'.triggers = {panel.open}
    BY <1>3, <1>4, <1>5, <1>8, ChannelsShownMasks
  <2> QED
    BY <1>1, <1>8, <2>1 DEF MasksSurvive
<1> QED
  BY <1>6, <1>7, <1>8

LEMMA SavedDurationIsKept ==
    ASSUME SettingsInvariant, NEW file \in Files, SavedByWindow(file),
           Load(file)
    PROVE  DurationSurvives(file) <=> duration' = file.duration
<1>1. /\ file.duration \in Nat /\ time \in Nat /\ time >= MinTime
      /\ file.duration = NoDuration \/ file.duration >= MinTime
      /\ ShowDuration(file.duration)
  BY DEF Files, SettingsInvariant, SettingsTypeOK, TimeOK, SavedByWindow, Load
<1>2. CASE file.duration = NoDuration
  BY <1>1, <1>2 DEF ShowDuration, DurationSurvives
<1>3. CASE file.duration # NoDuration
  BY <1>1, <1>3 DEF ShowDuration, DurationSurvives, AtLeastMin
<1> QED
  BY <1>2, <1>3

\* Which saved files are loaded as they are: the exact limits of what the
\* README promises of any file (see LoadedIsKept).
THEOREM SavedIsKeptExactlyWhen == SettingsSpec => [][SavedIsKeptWhen]_settingsVars
<1>1. SettingsInvariant => [SavedIsKeptWhen]_settingsVars
  BY SavedMasksAreKept, SavedDurationIsKept DEF SavedIsKeptWhen
<1> QED
  BY <1>1, SettingsInvariantHolds, PTL DEF SettingsSpec

=============================================================================
