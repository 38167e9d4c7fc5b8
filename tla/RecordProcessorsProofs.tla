----------------------- MODULE RecordProcessorsProofs -----------------------
(***************************************************************************)
(* What RecordProcessors promises for every number of writers, every set   *)
(* of record sizes and every limit. The inductive invariant is the         *)
(* conjunction of what the runs check and of three facts that tie list,    *)
(* files and walk to the acquisition.                                      *)
(***************************************************************************)
EXTENDS RecordProcessors, TLAPS

USE SizesAssumption, PointersAssumption DEF Launching

\* A list that was edited is a list.
LEMMA EditsAreLists ==
    ASSUME NEW list \in [Processors -> Nat], NEW p \in Processors
    PROVE  /\ Pushed(list, p) \in [Processors -> Nat]
           /\ Pushed(list, p)[p] = list[p] + 1
           /\ Removed(list, p) \in [Processors -> Nat]
           /\ Removed(list, p)[p] = 0
           /\ \A q \in Processors \ {p} :
                  /\ Pushed(list, p)[q] = list[q]
                  /\ Removed(list, p)[q] = list[q]
BY DEF Pushed, Removed

\* The acquisition, as far as the processors depend on it.
LifeOK ==
    /\ streaming => recording
    /\ phase \in {"READY", "STARTING"} => ~recording

\* A walk is under way only while recording, under a locked panel or in the
\* slot that is about to lock it.
WalkIsRecorded == ~NoWalk => recording /\ (Locked \/ Launching)

\* Only listed writers have open files, and only while recording.
OpenIsListed ==
    \A w \in Writers : writers[w].stream = "open" => recording /\ IsIn(w)

\* The list holds nothing the window did not put there.
ListIsShown ==
    /\ IsIn("scope") => scopeAdded
    /\ IsIn("reader") => reading

ListOK == ListedAreAlive /\ ListedOnce /\ PanelAgrees /\ ListIsShown
FilesOK == FilesFollowAcquisition /\ OpenIsListed /\ VolumeBounded

ProcInvariant == ProcTypeOK /\ LifeOK /\ WalkIsRecorded /\ ListOK /\ FilesOK

\* A started or finished writer, and one that was made, are writers.
LEMMA WritersAreTyped ==
    ASSUME ProcTypeOK
    PROVE  /\ WithoutSaver \in [Writers -> WriterStates]
           /\ \A mode \in FileModes, c \in BOOLEAN :
                  New(mode, c) \in WriterStates
           /\ \A list : \A c \in BOOLEAN :
                  StartedAll(list, c) \in [Writers -> WriterStates]
           /\ \A list : FinishedAll(list) \in [Writers -> WriterStates]
<1> USE DEF ProcTypeOK, WriterStates
<1>1. Gone \in WriterStates
  BY DEF Gone
<1>2. WithoutSaver \in [Writers -> WriterStates]
  BY <1>1 DEF WithoutSaver
<1>3. \A mode \in FileModes, c \in BOOLEAN : New(mode, c) \in WriterStates
  BY <1>1 DEF New, Gone
<1>4. \A writer \in WriterStates, c \in BOOLEAN :
          Started(writer, c) \in WriterStates
  BY DEF Started
<1>5. \A writer \in WriterStates : Finished(writer) \in WriterStates
  BY DEF Finished
<1> QED
  BY <1>2, <1>3, <1>4, <1>5 DEF StartedAll, FinishedAll

---------------------------------------------------------------------------
(* The exchange of the file saver, from a list that differs from the       *)
(* digitizer's at most in the scope updater.                               *)

\* list holds, of everything but the scope updater, what the digitizer holds.
SameButScope(list) ==
    /\ list \in [Processors -> Nat]
    /\ \A p \in Processors \ {"scope"} : list[p] = listed[p]

LEMMA ExchangeIsSafe ==
    ASSUME ProcInvariant, NEW list, SameButScope(list),
           NEW mode \in ShownModes, ExchangeSaver(mode, list)
    PROVE  /\ listed' \in [Processors -> Nat]
           /\ writers' \in [Writers -> WriterStates]
           /\ saver' \in Writers \cup {None}
           /\ \A p \in Singles : listed'[p] = list[p]
           /\ ListedAreAlive'
           /\ \A w \in Writers : listed'[w] <= 1
           /\ mode \in FileModes <=> saver' # None
           /\ saver' # None =>
                 writers'[saver'].class = mode /\ listed'[saver'] > 0
           /\ \A w \in Writers :
                 \/ writers'[w].stream = "unstarted" /\ writers'[w].bytes = 0
                 \/ writers'[w] = writers[w] /\ w # saver
                       /\ listed'[w] = listed[w]
<1> DEFINE kept == IF saver = None THEN list ELSE Removed(list, saver)
<1>1. /\ saver \in Writers \cup {None}
      /\ \A w \in Writers : listed[w] > 0 => w = saver
      /\ \A w \in Writers : writers[w].class # "gone" <=> w = saver
      /\ writers \in [Writers -> WriterStates]
  BY DEF ProcInvariant, ProcTypeOK, ListOK, ListedAreAlive, IsIn
<1>2. /\ kept \in [Processors -> Nat]
      /\ \A w \in Writers : kept[w] = 0
      /\ \A p \in Singles : kept[p] = list[p]
  <2>1. \A w \in Writers : w # saver => listed[w] = 0
    BY <1>1 DEF ProcInvariant, ProcTypeOK, Processors
  <2>2. \A w \in Writers : list[w] = listed[w]
    BY DEF SameButScope, Processors, Singles
  <2>3. CASE saver = None
    BY <2>1, <2>2, <2>3 DEF SameButScope, Processors
  <2>4. CASE saver # None
    <3>1. saver \in Processors /\ saver \in Writers
      BY <1>1, <2>4 DEF Processors
    <3>2. kept = Removed(list, saver)
      BY <2>4
    <3> QED
      BY <2>1, <2>2, <3>1, <3>2, EditsAreLists DEF SameButScope, Processors
  <2> QED
    BY <2>3, <2>4
<1>3. /\ WithoutSaver \in [Writers -> WriterStates]
      /\ \A w \in Writers : WithoutSaver[w] =
             IF w = saver THEN Gone ELSE writers[w]
      /\ \A c \in BOOLEAN : mode \in FileModes => New(mode, c) \in WriterStates
  BY WritersAreTyped DEF ProcInvariant, WithoutSaver
<1>4. Gone.stream = "unstarted" /\ Gone.bytes = 0 /\ Gone.class = "gone"
  BY DEF Gone
<1>5. \A c \in BOOLEAN : /\ New(mode, c).stream = "unstarted"
                         /\ New(mode, c).bytes = 0
                         /\ New(mode, c).class = mode
  BY DEF New, Gone
<1>6. "gone" \notin FileModes
  BY DEF FileModes
<1>7. CASE mode \in FileModes
  <2>1. PICK w \in Writers, c \in BOOLEAN :
            /\ writers[w].class = "gone"
            /\ saver' = w
            /\ writers' = [WithoutSaver EXCEPT ![w] = New(mode, c)]
            /\ listed' = Pushed(kept, w)
    BY <1>7 DEF ExchangeSaver
  <2>2. w # saver /\ w \in Processors /\ w # None
    BY <1>1, <2>1 DEF Processors
  <2>3. /\ listed' \in [Processors -> Nat]
        /\ listed'[w] = 1
        /\ \A v \in Writers \ {w} : listed'[v] = 0
        /\ \A p \in Singles : listed'[p] = list[p]
    <3> HIDE DEF kept
    <3>1. /\ listed' \in [Processors -> Nat]
          /\ listed'[w] = kept[w] + 1
          /\ \A q \in Processors \ {w} : listed'[q] = kept[q]
      BY <1>2, <2>1, <2>2, EditsAreLists
    <3>2. \A p \in Singles : p \in Processors \ {w}
      BY DEF Processors
    <3>3. Writers \subseteq Processors
      BY DEF Processors
    <3> QED
      BY <1>2, <3>1, <3>2, <3>3
  <2>4. /\ writers' \in [Writers -> WriterStates]
        /\ writers'[w] = New(mode, c)
        /\ \A v \in Writers \ {w} : writers'[v] = WithoutSaver[v]
    BY <1>3, <1>7, <2>1
  <2>5. ListedAreAlive'
    BY <1>1, <1>3, <1>4, <1>5, <1>6, <1>7, <2>1, <2>3, <2>4
    DEF ListedAreAlive, IsIn
  <2>6. \A v \in Writers :
           \/ writers'[v].stream = "unstarted" /\ writers'[v].bytes = 0
           \/ writers'[v] = writers[v] /\ v # saver /\ listed'[v] = listed[v]
    <3>1. \A v \in Writers : v # saver => listed[v] = 0
      BY <1>1 DEF ProcInvariant, ProcTypeOK, Processors
    <3> QED
      BY <1>3, <1>4, <1>5, <2>3, <2>4, <3>1
  <2> QED
    BY <1>5, <1>7, <2>1, <2>2, <2>3, <2>4, <2>5, <2>6
<1>8. CASE mode \notin FileModes
  <2>1. saver' = None /\ writers' = WithoutSaver /\ listed' = kept
    BY <1>8 DEF ExchangeSaver
  <2>2. ListedAreAlive'
    BY <1>1, <1>2, <1>3, <1>4, <2>1 DEF ListedAreAlive, IsIn, Processors
  <2>3. \A v \in Writers : v # saver => listed[v] = 0
    BY <1>1 DEF ProcInvariant, ProcTypeOK, Processors
  <2> QED
    BY <1>2, <1>3, <1>4, <1>8, <2>1, <2>2, <2>3
<1> QED
  BY <1>7, <1>8

---------------------------------------------------------------------------
(* The editors of the list.                                                *)

\* A change of the scope box adds the updater once or removes it.
LEMMA ScopeFollowsBox ==
    ASSUME ProcInvariant, NEW box \in BOOLEAN, box # scopeBox
    PROVE  /\ SameButScope(ListWithScope(box))
           /\ ListWithScope(box)["scope"] = IF box THEN 1 ELSE 0
           /\ ScopeAddedWith(box) = box
<1>1. /\ listed \in [Processors -> Nat] /\ "scope" \in Processors
      /\ scopeAdded = scopeBox /\ scopeBox \in BOOLEAN
      /\ ~scopeAdded => listed["scope"] = 0
  BY DEF ProcInvariant, ProcTypeOK, ListOK, PanelAgrees, ListIsShown, IsIn,
     Processors, Singles
<1>2. CASE box
  <2>1. ~scopeAdded
    BY <1>1, <1>2
  <2>2. ListWithScope(box) = Pushed(listed, "scope")
    BY <1>2, <2>1 DEF ListWithScope
  <2>3. ScopeAddedWith(box) = box
    BY <1>2, <2>1 DEF ScopeAddedWith
  <2> QED
    <3>1. SameButScope(ListWithScope(box))
      BY <1>1, <2>2, EditsAreLists DEF SameButScope
    <3>2. ListWithScope(box)["scope"] = listed["scope"] + 1
      BY <1>1, <2>2, EditsAreLists
    <3>3. ListWithScope(box)["scope"] = 1
      BY <1>1, <2>1, <3>2
    <3> QED
      BY <1>2, <2>3, <3>1, <3>3
<1>3. CASE ~box
  <2>1. scopeAdded
    BY <1>1, <1>3
  <2>2. ListWithScope(box) = Removed(listed, "scope")
    BY <1>3, <2>1 DEF ListWithScope
  <2>3. ScopeAddedWith(box) = box
    BY <1>3 DEF ScopeAddedWith
  <2> QED
    BY <1>1, <1>3, <2>2, <2>3, EditsAreLists DEF SameButScope
<1> QED
  BY <1>2, <1>3

\* An edit that keeps the writers of the list, or destroys and makes some,
\* keeps files and acquisition apart as they were.
LEMMA EditsKeepFiles ==
    ASSUME ProcInvariant, UNCHANGED <<lifeVars>>,
           writers' \in [Writers -> WriterStates],
           \A w \in Writers :
               \/ writers'[w].stream = "unstarted" /\ writers'[w].bytes = 0
               \/ writers'[w] = writers[w] /\ listed'[w] = listed[w]
    PROVE  FilesOK'
<1> USE DEF ProcInvariant, FilesOK, lifeVars
<1>1. FilesFollowAcquisition'
  BY DEF FilesFollowAcquisition, IsIn
<1>2. OpenIsListed'
  BY DEF OpenIsListed, IsIn
<1>3. VolumeBounded'
  BY DEF VolumeBounded
<1> QED
  BY <1>1, <1>2, <1>3

LEMMA ChooseSaverIsSafe ==
    ASSUME ProcInvariant, NEW mode \in ShownModes, ChooseSaver(mode)
    PROVE  ProcInvariant'
<1>0. SameButScope(listed)
  BY DEF ProcInvariant, ProcTypeOK, SameButScope
<1>1. ExchangeSaver(mode, listed)
  BY DEF ChooseSaver
<1> HIDE DEF ExchangeSaver
<1>2. /\ listed' \in [Processors -> Nat]
      /\ writers' \in [Writers -> WriterStates]
      /\ saver' \in Writers \cup {None}
      /\ \A p \in Singles : listed'[p] = listed[p]
      /\ ListedAreAlive'
      /\ \A w \in Writers : listed'[w] <= 1
      /\ mode \in FileModes <=> saver' # None
      /\ saver' # None => writers'[saver'].class = mode /\ listed'[saver'] > 0
      /\ \A w \in Writers :
            \/ writers'[w].stream = "unstarted" /\ writers'[w].bytes = 0
            \/ writers'[w] = writers[w] /\ w # saver /\ listed'[w] = listed[w]
  BY <1>0, <1>1, ExchangeIsSafe
<1>3. ProcTypeOK'
  BY <1>2 DEF ProcInvariant, ProcTypeOK, ChooseSaver, lifeVars, Edited,
     Lifecycle!TypeOK
<1>4. LifeOK' /\ WalkIsRecorded'
  BY DEF ProcInvariant, LifeOK, WalkIsRecorded, ChooseSaver, lifeVars, NoWalk,
     Locked
<1>5. FilesOK'
  BY <1>2, EditsKeepFiles DEF ChooseSaver
<1>6. ListedOnce'
  BY <1>2 DEF ListedOnce, ProcInvariant, ListOK, Processors
<1>7. PanelAgrees' /\ ListIsShown'
  BY <1>2 DEF ProcInvariant, ListOK, PanelAgrees, ListIsShown, IsIn,
     ChooseSaver, Singles
<1> QED
  BY <1>2, <1>3, <1>4, <1>5, <1>6, <1>7 DEF ProcInvariant, ListOK

LEMMA LoadConfigIsSafe ==
    ASSUME ProcInvariant, NEW mode \in ConfigModes, NEW box \in BOOLEAN,
           LoadConfig(mode, box)
    PROVE  ProcInvariant'
<1> DEFINE shown == Shown(mode)
           scope == IF box = scopeBox THEN listed ELSE ListWithScope(box)
<1>1. shown \in ShownModes
  BY DEF Shown, ConfigModes, ShownModes, FileModes
<1>2. SameButScope(scope) /\ scope["scope"] <= 1
      /\ (scope["scope"] > 0 => box)
      /\ (~IsIn("computer") => (scope["scope"] > 0 <=> box))
      /\ scopeAdded' = box
  <2>1. /\ SameButScope(listed) /\ listed["scope"] <= 1
        /\ scopeAdded = scopeBox
        /\ (listed["scope"] > 0 => scopeAdded)
        /\ (~IsIn("computer") => (listed["scope"] > 0 <=> scopeBox))
    BY DEF ProcInvariant, ProcTypeOK, SameButScope, ListOK, ListedOnce,
       PanelAgrees, ListIsShown, IsIn, Processors, Singles
  <2>2. CASE box = scopeBox
    BY <2>1, <2>2 DEF LoadConfig
  <2>3. CASE box # scopeBox
    BY <2>3, ScopeFollowsBox DEF LoadConfig
  <2> QED
    BY <2>2, <2>3
<1>3. /\ saveMode' = shown /\ scopeBox' = box
      /\ UNCHANGED <<lifeVars, halted, at, reading, plotting>>
      /\ seen' \subseteq seen
      /\ IF shown = saveMode
         THEN listed' = scope /\ UNCHANGED <<saver, writers>>
         ELSE ExchangeSaver(shown, scope)
  BY DEF LoadConfig
<1> HIDE DEF shown, scope
<1>4. /\ listed' \in [Processors -> Nat]
      /\ writers' \in [Writers -> WriterStates]
      /\ saver' \in Writers \cup {None}
      /\ \A p \in Singles : listed'[p] = scope[p]
      /\ ListedAreAlive'
      /\ \A w \in Writers : listed'[w] <= 1
      /\ shown \in FileModes <=> saver' # None
      /\ saver' # None => writers'[saver'].class = shown
      /\ saver' # None /\ ~IsIn("computer") => listed'[saver'] > 0
      /\ \A w \in Writers :
            \/ writers'[w].stream = "unstarted" /\ writers'[w].bytes = 0
            \/ writers'[w] = writers[w] /\ listed'[w] = listed[w]
  <2>1. CASE shown # saveMode
    <3>1. ExchangeSaver(shown, scope)
      BY <1>3, <2>1
    <3> QED
      BY <1>1, <1>2, <3>1, ExchangeIsSafe
  <2>2. CASE shown = saveMode
    <3>1. listed' = scope /\ saver' = saver /\ writers' = writers
      BY <1>3, <2>2
    <3>2. \A w \in Writers : scope[w] = listed[w]
      BY <1>2 DEF SameButScope, Processors, Singles
    <3>3. /\ scope \in [Processors -> Nat]
          /\ writers \in [Writers -> WriterStates]
          /\ saver \in Writers \cup {None}
          /\ \A w \in Writers : listed[w] <= 1
      BY <1>2 DEF SameButScope, ProcInvariant, ProcTypeOK, ListOK, ListedOnce,
         Processors
    <3>4. ListedAreAlive'
      BY <3>1, <3>2 DEF ProcInvariant, ListOK, ListedAreAlive, IsIn
    <3>5. /\ shown \in FileModes <=> saver # None
          /\ saver # None => writers[saver].class = shown
          /\ saver # None /\ ~IsIn("computer") => listed[saver] > 0
      BY <2>2 DEF ProcInvariant, ListOK, PanelAgrees, IsIn
    <3> QED
      BY <3>1, <3>2, <3>3, <3>4, <3>5
  <2> QED
    BY <2>1, <2>2
<1>5. \A p \in Singles \ {"scope"} : listed'[p] = listed[p]
  BY <1>2, <1>4 DEF SameButScope, Processors
<1>6. ProcTypeOK'
  BY <1>1, <1>2, <1>3, <1>4 DEF ProcInvariant, ProcTypeOK, lifeVars,
     Lifecycle!TypeOK
<1>7. LifeOK' /\ WalkIsRecorded'
  BY <1>3 DEF ProcInvariant, LifeOK, WalkIsRecorded, lifeVars, NoWalk, Locked
<1>8. FilesOK'
  <2>1. UNCHANGED <<lifeVars>>
    BY <1>3
  <2> QED
    BY <1>4, <2>1, EditsKeepFiles
<1>9. ListedOnce'
  <2>1. \A p \in Singles : listed'[p] <= 1
    BY <1>2, <1>4, <1>5 DEF ListedOnce, ProcInvariant, ListOK, Processors,
       Singles
  <2> QED
    BY <1>4, <2>1 DEF ListedOnce, Processors
<1>10. PanelAgrees' /\ ListIsShown'
  BY <1>2, <1>3, <1>4, <1>5 DEF ProcInvariant, ListOK, PanelAgrees,
     ListIsShown, IsIn, Singles
<1> QED
  BY <1>4, <1>6, <1>7, <1>8, <1>9, <1>10 DEF ProcInvariant, ListOK

LEMMA ToggleScopeIsSafe ==
    ASSUME ProcInvariant, ToggleScope
    PROVE  ProcInvariant'
<1>1. scopeBox' \in BOOLEAN /\ scopeBox' # scopeBox
  BY DEF ProcInvariant, ProcTypeOK, ToggleScope
<1>2. /\ SameButScope(listed') /\ listed'["scope"] = IF scopeBox' THEN 1 ELSE 0
      /\ scopeAdded' = scopeBox'
  BY <1>1, ScopeFollowsBox DEF ToggleScope
<1>3. /\ listed' \in [Processors -> Nat]
      /\ \A p \in Writers : listed'[p] = listed[p]
      /\ \A p \in Singles \ {"scope"} : listed'[p] = listed[p]
  BY <1>2 DEF SameButScope, Processors, Singles
<1>4. UNCHANGED <<lifeVars, halted, at, saveMode, saver, reading, plotting,
                  writers>> /\ seen' \subseteq seen
  BY DEF ToggleScope, Edited
<1>5. ProcTypeOK'
  BY <1>1, <1>2, <1>3, <1>4 DEF ProcInvariant, ProcTypeOK, lifeVars,
     Lifecycle!TypeOK
<1>6. LifeOK' /\ WalkIsRecorded'
  BY <1>4 DEF ProcInvariant, LifeOK, WalkIsRecorded, lifeVars, NoWalk, Locked
<1>7. FilesOK'
  BY <1>3, <1>4 DEF ProcInvariant, FilesOK, FilesFollowAcquisition,
     OpenIsListed, VolumeBounded, IsIn, lifeVars
<1>8. ListedAreAlive'
  BY <1>3, <1>4 DEF ProcInvariant, ListOK, ListedAreAlive, IsIn
<1>9. ListedOnce'
  BY <1>2, <1>3 DEF ProcInvariant, ListOK, ListedOnce, Processors
<1>10. PanelAgrees' /\ ListIsShown'
  BY <1>2, <1>3, <1>4 DEF ProcInvariant, ProcTypeOK, ListOK, PanelAgrees,
     ListIsShown, IsIn, Singles
<1> QED
  BY <1>5, <1>6, <1>7, <1>8, <1>9, <1>10 DEF ProcInvariant, ListOK

\* The two dialogs edit their own processor only.
LEMMA DialogsAreSafe ==
    ASSUME ProcInvariant, ToggleReader \/ ChangePlotChannel
    PROVE  ProcInvariant'
<1>1. PICK p \in {"reader", "plotter"} :
          /\ listed' \in [Processors -> Nat]
          /\ \A q \in Processors \ {p} : listed'[q] = listed[q]
          /\ p = "reader" =>
                /\ reading' \in BOOLEAN /\ plotting' = plotting
                /\ listed'["reader"] = IF reading' THEN 1 ELSE 0
          /\ p = "plotter" =>
                /\ plotting' \in BOOLEAN /\ reading' = reading
                /\ listed'["plotter"] = IF plotting' THEN 1 ELSE 0
  <2>1. CASE ToggleReader
    <3>1. /\ listed \in [Processors -> Nat] /\ "reader" \in Processors
          /\ reading \in BOOLEAN
          /\ ~reading => listed["reader"] = 0
      BY DEF ProcInvariant, ProcTypeOK, ListOK, ListIsShown, IsIn, Processors,
         Singles
    <3>2. /\ listed' = IF reading' THEN Pushed(listed, "reader")
                                   ELSE Removed(listed, "reader")
          /\ reading' = ~reading /\ plotting' = plotting
      BY <2>1 DEF ToggleReader
    <3>3. /\ listed' \in [Processors -> Nat]
          /\ \A q \in Processors \ {"reader"} : listed'[q] = listed[q]
      BY <3>1, <3>2, EditsAreLists
    <3>4. listed'["reader"] = IF reading' THEN 1 ELSE 0
      <4>1. CASE reading'
        <5>1. ~reading /\ listed' = Pushed(listed, "reader")
          BY <3>2, <4>1
        <5>2. listed'["reader"] = listed["reader"] + 1
          BY <3>1, <5>1, EditsAreLists
        <5> QED
          BY <3>1, <4>1, <5>1, <5>2
      <4>2. CASE ~reading'
        BY <3>1, <3>2, <4>2, EditsAreLists
      <4> QED
        BY <4>1, <4>2
    <3> QED
      BY <3>1, <3>2, <3>3, <3>4
  <2>2. CASE ChangePlotChannel
    <3>1. listed \in [Processors -> Nat] /\ "plotter" \in Processors
      BY DEF ProcInvariant, ProcTypeOK, Processors, Singles
    <3> DEFINE kept == Removed(listed, "plotter")
    <3>2. /\ listed' = IF plotting' THEN Pushed(kept, "plotter") ELSE kept
          /\ plotting' \in BOOLEAN /\ reading' = reading
      BY <2>2 DEF ChangePlotChannel
    <3>3. /\ kept \in [Processors -> Nat] /\ kept["plotter"] = 0
          /\ \A q \in Processors \ {"plotter"} : kept[q] = listed[q]
      BY <3>1, EditsAreLists
    <3> HIDE DEF kept
    <3>4. CASE plotting'
      <4>1. listed' = Pushed(kept, "plotter")
        BY <3>2, <3>4
      <4>2. /\ listed' \in [Processors -> Nat]
            /\ listed'["plotter"] = kept["plotter"] + 1
            /\ \A q \in Processors \ {"plotter"} : listed'[q] = kept[q]
        BY <3>1, <3>3, <4>1, EditsAreLists
      <4>3. listed'["plotter"] = 1
        BY <3>3, <4>2
      <4> QED
        BY <3>2, <3>3, <3>4, <4>2, <4>3
    <3>5. CASE ~plotting'
      BY <3>2, <3>3, <3>5
    <3> QED
      BY <3>4, <3>5
  <2> QED
    BY <2>1, <2>2
<1>2. /\ UNCHANGED <<lifeVars, halted, at, saveMode, saver, scopeBox,
                     scopeAdded, writers>>
      /\ seen' \subseteq seen
  BY DEF ToggleReader, ChangePlotChannel, Edited
<1>3. /\ \A w \in Writers : listed'[w] = listed[w]
      /\ listed'["scope"] = listed["scope"]
      /\ listed'["computer"] = listed["computer"]
  BY <1>1 DEF Processors, Singles
<1>4. ProcTypeOK'
  BY <1>1, <1>2 DEF ProcInvariant, ProcTypeOK, lifeVars, Lifecycle!TypeOK
<1>5. LifeOK' /\ WalkIsRecorded'
  BY <1>2 DEF ProcInvariant, LifeOK, WalkIsRecorded, lifeVars, NoWalk, Locked
<1>6. FilesOK'
  BY <1>2, <1>3 DEF ProcInvariant, FilesOK, FilesFollowAcquisition,
     OpenIsListed, VolumeBounded, IsIn, lifeVars
<1>7. ListedAreAlive'
  BY <1>2, <1>3 DEF ProcInvariant, ListOK, ListedAreAlive, IsIn
<1>8. ListedOnce'
  BY <1>1 DEF ProcInvariant, ListOK, ListedOnce
<1>9. PanelAgrees' /\ ListIsShown'
  <2>1. CASE p = "reader"
    <3>1. listed'["plotter"] = listed["plotter"]
      BY <1>1, <2>1 DEF Processors, Singles
    <3> QED
      BY <1>1, <1>2, <1>3, <2>1, <3>1 DEF ProcInvariant, ProcTypeOK, ListOK,
         PanelAgrees, ListIsShown, IsIn
  <2>2. CASE p = "plotter"
    <3>1. listed'["reader"] = listed["reader"]
      BY <1>1, <2>2 DEF Processors, Singles
    <3> QED
      BY <1>1, <1>2, <1>3, <2>2, <3>1 DEF ProcInvariant, ProcTypeOK, ListOK,
         PanelAgrees, ListIsShown, IsIn
  <2> QED
    BY <2>1, <2>2
<1> QED
  BY <1>4, <1>5, <1>6, <1>7, <1>8, <1>9 DEF ProcInvariant, ListOK

---------------------------------------------------------------------------
(* The acquisition.                                                        *)

\* What an acquisition is given is a list with the properties of a list.
LEMMA GivenIsAList ==
    ASSUME ProcInvariant
    PROVE  /\ Given \in [Processors -> Nat]
           /\ \A p \in Processors : Given[p] <= 1
           /\ \A w \in Writers : Given[w] > 0 => w = saver
           /\ Given["scope"] > 0 => scopeAdded
           /\ Given["reader"] > 0 => reading
           /\ Given["computer"] > 0 \/ Given = listed
<1>1. CASE asked = "default"
  BY <1>1 DEF Given, ProcInvariant, ProcTypeOK, ListOK, ListedOnce,
     ListedAreAlive, ListIsShown, IsIn
<1>2. CASE asked # "default"
  <2>1. Given = [p \in Processors |-> IF p = "computer" THEN 1 ELSE 0]
    BY <1>2 DEF Given
  <2>2. /\ "computer" \in Processors /\ "scope" \in Processors
        /\ "reader" \in Processors /\ Writers \subseteq Processors
        /\ "computer" \notin Writers
    BY DEF Processors, Singles
  <2> QED
    BY <2>1, <2>2
<1> QED
  BY <1>1, <1>2

\* What taking over that list does to the window's half of the invariant.
LEMMA GivenIsSafe ==
    ASSUME ProcInvariant, listed' = Given, UNCHANGED panelVars,
           \A w \in Writers : writers'[w].class = writers[w].class
    PROVE  ListOK'
<1>1. UNCHANGED <<saveMode, saver, scopeBox, scopeAdded, reading, plotting>>
  BY DEF panelVars
<1>2. ListedAreAlive'
  BY <1>1, GivenIsAList DEF ProcInvariant, ListOK, ListedAreAlive, IsIn
<1>3. ListedOnce' /\ ListIsShown'
  BY <1>1, GivenIsAList DEF ListedOnce, ListIsShown, IsIn
<1>4. PanelAgrees'
  BY <1>1, GivenIsAList DEF ProcInvariant, ProcTypeOK, ListOK, PanelAgrees, IsIn
<1> QED
  BY <1>2, <1>3, <1>4 DEF ListOK

LEMMA ConfigureIsSafe ==
    ASSUME ProcInvariant, Configure
    PROVE  ProcInvariant'
<1>1. PICK c \in BOOLEAN : writers' = StartedAll(Given, c)
  BY DEF Configure
<1>2. /\ phase = "STARTING" /\ phase' = "STABILIZING" /\ recording' = TRUE
      /\ listed' = Given /\ halted' = FALSE
      /\ UNCHANGED <<streaming, asked, at, seen, panelVars>>
  BY DEF Configure, Lifecycle!Prepare, Lifecycle!Goes
<1>3. /\ writers' \in [Writers -> WriterStates]
      /\ \A w \in Writers : writers'[w] =
             IF Given[w] > 0 THEN Started(writers[w], c) ELSE writers[w]
  BY <1>1, WritersAreTyped DEF StartedAll, ProcInvariant
<1>4. \A w \in Writers :
          /\ Started(writers[w], c).class = writers[w].class
          /\ Started(writers[w], c).stream = "open"
          /\ Started(writers[w], c).bytes = 0
  BY DEF Started, ProcInvariant, ProcTypeOK, WriterStates
<1>5. NoWalk /\ ~recording
  BY <1>2 DEF ProcInvariant, WalkIsRecorded, LifeOK, Locked
<1>6. ProcTypeOK'
  BY <1>2, <1>3, GivenIsAList DEF ProcInvariant, ProcTypeOK, panelVars,
     Lifecycle!TypeOK
<1>7. LifeOK' /\ WalkIsRecorded'
  BY <1>2, <1>5 DEF LifeOK, WalkIsRecorded, NoWalk
<1>8. ListOK'
  BY <1>2, <1>3, <1>4, GivenIsSafe
<1>9. FilesOK'
  <2>1. \A w \in Writers : writers[w].stream # "open"
    BY <1>5 DEF ProcInvariant, FilesOK, OpenIsListed
  <2>2. FilesFollowAcquisition' /\ OpenIsListed'
    BY <1>2, <1>3, <1>4, <2>1 DEF FilesFollowAcquisition, OpenIsListed, IsIn
  <2>3. VolumeBounded'
    BY <1>3, <1>4 DEF ProcInvariant, FilesOK, VolumeBounded
  <2> QED
    BY <2>2, <2>3 DEF FilesOK
<1> QED
  BY <1>6, <1>7, <1>8, <1>9 DEF ProcInvariant

\* The class and the bytes of a finished writer stay.
LEMMA FinishedStays ==
    ASSUME ProcInvariant, NEW list, NEW w \in Writers
    PROVE  /\ FinishedAll(list)[w].class = writers[w].class
           /\ FinishedAll(list)[w].bytes = writers[w].bytes
           /\ FinishedAll(list)[w].stream =
                 IF list[w] > 0 THEN "closed" ELSE writers[w].stream
<1>1. /\ Finished(writers[w]).class = writers[w].class
      /\ Finished(writers[w]).bytes = writers[w].bytes
      /\ Finished(writers[w]).stream = "closed"
  BY DEF Finished, ProcInvariant, ProcTypeOK, WriterStates
<1> QED
  BY <1>1 DEF FinishedAll

LEMMA ConfigureFailsIsSafe ==
    ASSUME ProcInvariant, ConfigureFails
    PROVE  ProcInvariant'
<1>1. /\ phase = "STARTING" /\ phase' \in {"STARTING", "READY"}
      /\ listed' = Given
      /\ writers' = writers \/ writers' = FinishedAll(Given)
      /\ UNCHANGED <<recording, streaming, asked, walkVars, panelVars>>
  BY DEF ConfigureFails
<1>2. NoWalk /\ ~recording /\ ~streaming
  BY <1>1 DEF ProcInvariant, ProcTypeOK, Lifecycle!TypeOK, WalkIsRecorded,
     LifeOK, Locked
<1>3. /\ writers' \in [Writers -> WriterStates]
      /\ \A w \in Writers : /\ writers'[w].class = writers[w].class
                            /\ writers'[w].bytes = writers[w].bytes
                            /\ writers'[w].stream \in {"closed",
                                                       writers[w].stream}
  BY <1>1, WritersAreTyped, FinishedStays DEF ProcInvariant, ProcTypeOK
<1>4. ProcTypeOK'
  BY <1>1, <1>3, GivenIsAList DEF ProcInvariant, ProcTypeOK, panelVars,
     walkVars, Lifecycle!TypeOK
<1>5. LifeOK' /\ WalkIsRecorded'
  BY <1>1, <1>2 DEF LifeOK, WalkIsRecorded, NoWalk, walkVars
<1>6. ListOK'
  BY <1>1, <1>3, GivenIsSafe
<1>7. FilesOK'
  <2>1. \A w \in Writers : writers'[w].stream # "open"
    BY <1>2, <1>3 DEF ProcInvariant, FilesOK, OpenIsListed
  <2>2. FilesFollowAcquisition' /\ OpenIsListed'
    BY <1>1, <1>2, <2>1 DEF FilesFollowAcquisition, OpenIsListed
  <2>3. VolumeBounded'
    BY <1>3 DEF ProcInvariant, FilesOK, VolumeBounded
  <2> QED
    BY <2>2, <2>3 DEF FilesOK
<1> QED
  BY <1>4, <1>5, <1>6, <1>7 DEF ProcInvariant

LEMMA FinishIsSafe ==
    ASSUME ProcInvariant, Finish
    PROVE  ProcInvariant'
<1>1. /\ NoWalk /\ recording' = FALSE /\ ~streaming
      /\ phase \in {"STABILIZING", "ACTIVE", "STOPPING"}
      /\ writers' = FinishedAll(listed)
      /\ UNCHANGED <<phase, streaming, asked, walkVars, listed, panelVars>>
  BY DEF Finish, Lifecycle!Close, NoWalk
<1>2. /\ writers' \in [Writers -> WriterStates]
      /\ \A w \in Writers : /\ writers'[w].class = writers[w].class
                            /\ writers'[w].bytes = writers[w].bytes
                            /\ writers'[w].stream =
                                  IF listed[w] > 0 THEN "closed"
                                  ELSE writers[w].stream
  BY <1>1, WritersAreTyped, FinishedStays DEF ProcInvariant
<1>3. ProcTypeOK'
  BY <1>1, <1>2 DEF ProcInvariant, ProcTypeOK, panelVars, walkVars,
     Lifecycle!TypeOK
<1>4. LifeOK' /\ WalkIsRecorded'
  BY <1>1 DEF LifeOK, WalkIsRecorded, NoWalk, walkVars
<1>5. ListOK'
  BY <1>1, <1>2 DEF ProcInvariant, ProcTypeOK, ListOK, ListedAreAlive,
     ListedOnce, PanelAgrees, ListIsShown, IsIn, panelVars
<1>6. FilesOK'
  <2>1. \A w \in Writers : writers'[w].stream # "open"
    BY <1>1, <1>2 DEF ProcInvariant, FilesOK, OpenIsListed, IsIn
  <2>2. FilesFollowAcquisition' /\ OpenIsListed'
    BY <1>1, <2>1 DEF FilesFollowAcquisition, OpenIsListed
  <2>3. VolumeBounded'
    BY <1>2 DEF ProcInvariant, FilesOK, VolumeBounded
  <2> QED
    BY <2>2, <2>3 DEF FilesOK
<1> QED
  BY <1>3, <1>4, <1>5, <1>6 DEF ProcInvariant

\* The steps of the acquisition that do not touch a processor.
LEMMA ProceedIsSafe ==
    ASSUME ProcInvariant,
           \/ GoLive \/ WindDown
           \/ \E whose \in {"default", "calibration"} : Request(whose)
    PROVE  ProcInvariant'
<1>1. /\ asked' \in {"default", "calibration"}
      /\ UNCHANGED <<walkVars, listed, panelVars, writers, recording>>
  <2>1. CASE GoLive \/ WindDown
    BY <2>1 DEF GoLive, WindDown, Lifecycle!Launch, Lifecycle!GoLive,
       Lifecycle!Halt, Lifecycle!Drain, Lifecycle!Complete, ProcInvariant,
       ProcTypeOK
  <2>2. CASE \E whose \in {"default", "calibration"} : Request(whose)
    BY <2>2 DEF Request, Lifecycle!Request
  <2> QED
    BY <2>1, <2>2
<1>2. Lifecycle!TypeOK' /\ LifeOK' /\ WalkIsRecorded'
  <2>1. /\ Lifecycle!TypeOK /\ LifeOK
        /\ at # None => /\ recording
                        /\ phase \in {"ACTIVE", "STOPPING"} \/ Launching
        /\ at' = at
    BY <1>1 DEF ProcInvariant, ProcTypeOK, WalkIsRecorded, NoWalk, Locked,
       walkVars
  <2> USE <2>1 DEF Lifecycle!TypeOK, LifeOK, WalkIsRecorded, NoWalk, Locked,
                   Lifecycle!Goes
  <2>2. CASE Lifecycle!Launch \/ Lifecycle!GoLive
    BY <2>2 DEF Lifecycle!Launch, Lifecycle!GoLive
  <2>6. CASE ~Launching /\ Lifecycle!Halt
    BY <2>6 DEF Lifecycle!Halt
  <2>3. CASE Lifecycle!Drain
    BY <2>3 DEF Lifecycle!Drain
  <2>4. CASE Lifecycle!Complete
    BY <2>4 DEF Lifecycle!Complete
  <2>5. CASE Lifecycle!Request
    BY <2>5 DEF Lifecycle!Request
  <2> QED
    BY <2>2, <2>3, <2>4, <2>5, <2>6 DEF GoLive, WindDown, Request
<1>3. ProcTypeOK'
  BY <1>1, <1>2 DEF ProcInvariant, ProcTypeOK, panelVars, walkVars
<1>4. ListOK'
  BY <1>1 DEF ProcInvariant, ListOK, ListedAreAlive, ListedOnce, PanelAgrees,
     ListIsShown, IsIn, panelVars
<1>5. FilesOK'
  BY <1>1 DEF ProcInvariant, FilesOK, FilesFollowAcquisition, OpenIsListed,
     VolumeBounded, IsIn
<1> QED
  BY <1>2, <1>3, <1>4, <1>5 DEF ProcInvariant

---------------------------------------------------------------------------
(* The walk.                                                               *)

\* A writer that takes a record keeps class and stream and stays below the
\* limit and one record.
LEMMA TakenStaysBounded ==
    ASSUME ProcInvariant, NEW p \in Processors, NEW size \in RecordSizes,
           Takes(p, size)
    PROVE  /\ writers' \in [Writers -> WriterStates]
           /\ \A w \in Writers : /\ writers'[w].class = writers[w].class
                                 /\ writers'[w].stream = writers[w].stream
           /\ VolumeBounded'
<1>0. /\ writers \in [Writers -> WriterStates] /\ VolumeBounded
      /\ size \in Nat
  BY DEF ProcInvariant, ProcTypeOK, FilesOK
<1>1. CASE p \notin Writers
  BY <1>0, <1>1 DEF Takes, VolumeBounded
<1>2. CASE p \in Writers
  <2> DEFINE bytes == writers[p].bytes + Added(writers[p], size)
  <2>1. /\ writers' = [writers EXCEPT ![p].bytes = bytes]
        /\ ~Full(writers[p])
    BY <1>2 DEF Takes
  <2>2. writers[p].bytes \in Nat /\ Added(writers[p], size) \in Nat
    BY <1>0, <1>2 DEF Added, WriterStates
  <2>3. /\ writers[p].class = "BINARY" => bytes <= SizeLimit + size
        /\ writers[p].class # "BINARY" => bytes < SizeLimit + HeaderSize + size
    BY <1>0, <2>1, <2>2 DEF Full, Added
  <2>4. bytes \in Nat
    BY <2>2
  <2> HIDE DEF bytes
  <2>5. /\ writers' \in [Writers -> WriterStates]
        /\ writers'[p].bytes = bytes
        /\ \A w \in Writers : /\ writers'[w].class = writers[w].class
                              /\ writers'[w].stream = writers[w].stream
                              /\ w # p => writers'[w] = writers[w]
    BY <1>0, <1>2, <2>1, <2>4 DEF WriterStates
  <2>6. VolumeBounded'
    BY <1>0, <1>2, <2>3, <2>5 DEF VolumeBounded
  <2> QED
    BY <2>5, <2>6
<1> QED
  BY <1>1, <1>2

LEMMA WalkIsSafe ==
    ASSUME ProcInvariant, Walk
    PROVE  ProcInvariant'
<1>1. UNCHANGED <<lifeVars, listed, panelVars>>
  BY DEF Walk, BeginWalk, Continue, Call, EndWalk
<1>2. /\ writers' \in [Writers -> WriterStates]
      /\ \A w \in Writers : /\ writers'[w].class = writers[w].class
                            /\ writers'[w].stream = writers[w].stream
      /\ VolumeBounded'
  <2>1. CASE UNCHANGED writers
    BY <2>1 DEF ProcInvariant, ProcTypeOK, FilesOK, VolumeBounded
  <2>2. ASSUME NEW p \in Processors, NEW size \in RecordSizes, Takes(p, size)
        PROVE  <1>2!1 /\ <1>2!2 /\ <1>2!3
    BY <2>2, TakenStaysBounded
  <2> QED
    BY <2>1, <2>2 DEF Walk, BeginWalk, Continue, Call, EndWalk
<1>3. /\ halted' \in BOOLEAN
      /\ at' \in Processors \cup {None} /\ seen' \subseteq Processors
  BY DEF Walk, BeginWalk, Continue, Call, EndWalk, ProcInvariant, ProcTypeOK
<1>4. ProcTypeOK'
  BY <1>1, <1>2, <1>3 DEF ProcInvariant, ProcTypeOK, lifeVars, panelVars,
     Lifecycle!TypeOK
<1>5. LifeOK'
  BY <1>1 DEF ProcInvariant, LifeOK, lifeVars
<1>6. WalkIsRecorded'
  BY <1>1 DEF Walk, BeginWalk, Continue, Call, EndWalk, ProcInvariant,
     WalkIsRecorded, LifeOK, NoWalk, Locked, lifeVars
<1>7. ListOK'
  BY <1>1, <1>2 DEF ProcInvariant, ProcTypeOK, ListOK, ListedAreAlive,
     ListedOnce, PanelAgrees, ListIsShown, IsIn, panelVars
<1>8. FilesOK'
  BY <1>1, <1>2 DEF ProcInvariant, FilesOK, FilesFollowAcquisition,
     OpenIsListed, IsIn, lifeVars
<1> QED
  BY <1>4, <1>5, <1>6, <1>7, <1>8 DEF ProcInvariant

---------------------------------------------------------------------------
(* The theorems.                                                           *)

LEMMA InitProcessors == Init => ProcInvariant
<1> SUFFICES ASSUME Init PROVE ProcInvariant
  OBVIOUS
<1>1. /\ phase = "READY" /\ recording = FALSE /\ streaming = FALSE
      /\ asked = "default" /\ halted = FALSE /\ at = None /\ seen = {}
      /\ saveMode \in ShownModes /\ scopeBox \in BOOLEAN
      /\ scopeAdded = scopeBox /\ reading = FALSE /\ plotting = FALSE
      /\ listed = [p \in Processors |->
             IF p = saver \/ (p = "scope" /\ scopeBox) THEN 1 ELSE 0]
  BY DEF Init, Lifecycle!Init
<1>2. /\ saver \in Writers \cup {None}
      /\ saveMode \in FileModes <=> saver # None
      /\ writers \in [Writers -> WriterStates]
      /\ \A w \in Writers : /\ writers[w].stream = "unstarted"
                            /\ writers[w].bytes = 0
                            /\ writers[w].class =
                                  IF w = saver THEN saveMode ELSE "gone"
  <2>1. Gone \in WriterStates
    BY DEF Gone, WriterStates
  <2>2. /\ Gone.stream = "unstarted" /\ Gone.bytes = 0 /\ Gone.class = "gone"
        /\ \A c \in BOOLEAN : /\ New(saveMode, c).stream = "unstarted"
                              /\ New(saveMode, c).bytes = 0
                              /\ New(saveMode, c).class = saveMode
    BY DEF Gone, New
  <2>3. CASE saveMode \in FileModes
    <3>1. PICK w \in Writers, c \in BOOLEAN :
              /\ saver = w
              /\ writers = [v \in Writers |->
                     IF v = w THEN New(saveMode, c) ELSE Gone]
      BY <2>3 DEF Init
    <3>2. New(saveMode, c) \in WriterStates
      BY <2>3 DEF New, Gone, WriterStates
    <3> QED
      BY <2>1, <2>2, <2>3, <3>1, <3>2 DEF Processors
  <2>4. CASE saveMode \notin FileModes
    <3>1. saver = None /\ writers = [v \in Writers |-> Gone]
      BY <2>4 DEF Init
    <3> QED
      BY <2>1, <2>2, <2>4, <3>1 DEF Processors
  <2> QED
    BY <2>3, <2>4
<1>3. ProcTypeOK
  BY <1>1, <1>2 DEF ProcTypeOK, Lifecycle!TypeOK
<1>4. LifeOK /\ WalkIsRecorded
  BY <1>1 DEF LifeOK, WalkIsRecorded, NoWalk
<1>5. /\ \A w \in Writers : listed[w] > 0 <=> w = saver
      /\ \A p \in Processors : listed[p] <= 1
      /\ listed["scope"] > 0 <=> scopeBox
      /\ listed["reader"] = 0 /\ listed["plotter"] = 0
  <2>1. /\ {"scope", "reader", "plotter"} \subseteq Processors \ Writers
        /\ Writers \subseteq Processors /\ "scope" \notin Writers
        /\ saver \notin {"scope", "reader", "plotter"}
    BY <1>2 DEF Processors, Singles
  <2>2. \A w \in Writers : listed[w] = IF w = saver THEN 1 ELSE 0
    BY <1>1, <2>1
  <2>3. \A p \in Processors : listed[p] \in {0, 1}
    BY <1>1
  <2>4. /\ listed["scope"] = IF scopeBox THEN 1 ELSE 0
        /\ listed["reader"] = 0 /\ listed["plotter"] = 0
    BY <1>1, <2>1
  <2> QED
    BY <2>2, <2>3, <2>4
<1>6. ListOK
  <2>1. ListedAreAlive
    <3>1. None \notin Writers /\ "gone" \notin FileModes
      BY DEF Processors, FileModes
    <3> QED
      BY <1>2, <1>5, <3>1 DEF ListedAreAlive, IsIn
  <2>2. ListedOnce /\ ListIsShown
    BY <1>1, <1>5 DEF ListedOnce, ListIsShown, IsIn
  <2>3. PanelAgrees
    BY <1>1, <1>2, <1>5 DEF PanelAgrees, IsIn
  <2> QED
    BY <2>1, <2>2, <2>3 DEF ListOK
<1>7. FilesOK
  BY <1>1, <1>2 DEF FilesOK, FilesFollowAcquisition, OpenIsListed,
     VolumeBounded
<1> QED
  BY <1>3, <1>4, <1>6, <1>7 DEF ProcInvariant

THEOREM ProcInvariantHolds == Spec => []ProcInvariant
<1>1. ProcInvariant /\ [Next]_vars => ProcInvariant'
  <2> SUFFICES ASSUME ProcInvariant, [Next]_vars PROVE ProcInvariant'
    OBVIOUS
  <2>1. CASE UserEdit
    <3>1. CASE \E mode \in ShownModes \ {"unset"} : ChooseSaver(mode)
      BY <3>1, ChooseSaverIsSafe
    <3>2. CASE \E mode \in ConfigModes, box \in BOOLEAN : LoadConfig(mode, box)
      BY <3>2, LoadConfigIsSafe
    <3> QED
      BY <2>1, <3>1, <3>2, ToggleScopeIsSafe, DialogsAreSafe DEF UserEdit
  <2>2. CASE AcquisitionStep
    BY <2>2, ConfigureIsSafe, ConfigureFailsIsSafe, FinishIsSafe, ProceedIsSafe
    DEF AcquisitionStep
  <2>3. CASE Walk
    BY <2>3, WalkIsSafe
  <2>4. CASE UNCHANGED vars
    BY <2>4 DEF vars, lifeVars, walkVars, panelVars, ProcInvariant, ProcTypeOK,
       Lifecycle!TypeOK, LifeOK, WalkIsRecorded, NoWalk, Locked, ListOK,
       ListedAreAlive, ListedOnce, PanelAgrees, ListIsShown, FilesOK,
       FilesFollowAcquisition, OpenIsListed, VolumeBounded, IsIn
  <2> QED
    BY <2>1, <2>2, <2>3, <2>4 DEF Next
<1> QED
  BY <1>1, InitProcessors, PTL DEF Spec

\* No operation leaves a destroyed writer in the list ADQThread walks.
THEOREM ListedAreAlwaysAlive == Spec => []ListedAreAlive
BY ProcInvariantHolds, PTL DEF ProcInvariant, ListOK

\* No processor is started twice or handed a record twice.
THEOREM ListedAtMostOnce == Spec => []ListedOnce
BY ProcInvariantHolds, PTL DEF ProcInvariant, ListOK

\* Before the first calibration the list is what the window shows.
THEOREM PanelAlwaysAgrees == Spec => []PanelAgrees
BY ProcInvariantHolds, PTL DEF ProcInvariant, ListOK

\* Files are open during acquisitions only, and complete at READY.
THEOREM FilesAlwaysFollow == Spec => []FilesFollowAcquisition
BY ProcInvariantHolds, PTL DEF ProcInvariant, FilesOK

\* The bound on a file, for every limit and every set of record sizes.
THEOREM VolumeAlwaysBounded == Spec => []VolumeBounded
BY ProcInvariantHolds, PTL DEF ProcInvariant, FilesOK

\* Every operation keeps every variable in its type.
THEOREM ProcTypeCorrect == Spec => []ProcTypeOK
BY ProcInvariantHolds, PTL DEF ProcInvariant

\* With no configuration loaded while recording, the lock of the panel covers
\* every walk: what has a record stays in the list.
THEOREM SaverIsNeverPulled ==
    ASSUME LoadsSettled
    PROVE  Spec => []SaverNotPulled
<1>1. Init => SaverNotPulled
  BY PointersAssumption DEF Init, SaverNotPulled, Processors, Singles
<1>2. ProcInvariant /\ SaverNotPulled /\ [Next]_vars => SaverNotPulled'
  <2> SUFFICES ASSUME ProcInvariant, SaverNotPulled, [Next]_vars,
                      at' \in Writers \cup {"scope"}
               PROVE  listed'[at'] > 0
    BY DEF SaverNotPulled, IsIn
  <2>0. /\ listed \in [Processors -> Nat]
        /\ at \in Writers \cup {"scope"} => listed[at] > 0
        /\ at # None => recording /\ (Locked \/ Launching)
        /\ at' # None /\ Writers \cup {"scope"} \subseteq Processors
    BY DEF ProcInvariant, ProcTypeOK, SaverNotPulled, IsIn, WalkIsRecorded,
       NoWalk, Processors, Singles
  <2>1. CASE at' = at /\ listed' = listed
    BY <2>0, <2>1
  <2>2. CASE UserEdit
    <3>1. at' = at
      BY <2>2 DEF UserEdit, ChooseSaver, ToggleScope, ToggleReader,
         ChangePlotChannel, LoadConfig
    <3>2. ToggleReader \/ ChangePlotChannel
      BY <2>0, <2>2, <3>1 DEF UserEdit, ChooseSaver, ToggleScope, LoadConfig
    <3>3. \A p \in Writers \cup {"scope"} : listed'[p] = listed[p]
      <4>1. \A p \in Writers \cup {"scope"} :
                p \in Processors \ {"reader", "plotter"}
        BY DEF Processors, Singles
      <4>2. {"reader", "plotter"} \subseteq Processors
        BY DEF Processors, Singles
      <4>3. listed \in [Processors -> Nat]
        BY <2>0
      <4>4. CASE ToggleReader
        <5>1. \/ listed' = Pushed(listed, "reader")
              \/ listed' = Removed(listed, "reader")
          BY <4>4 DEF ToggleReader
        <5> QED
          BY <4>1, <4>2, <4>3, <5>1, EditsAreLists
      <4>5. CASE ChangePlotChannel
        <5> DEFINE kept == Removed(listed, "plotter")
        <5>1. listed' = Pushed(kept, "plotter") \/ listed' = kept
          BY <4>5 DEF ChangePlotChannel
        <5>2. /\ kept \in [Processors -> Nat]
              /\ \A p \in Processors \ {"plotter"} : kept[p] = listed[p]
          BY <4>2, <4>3, EditsAreLists
        <5> HIDE DEF kept
        <5> QED
          BY <4>1, <4>2, <5>1, <5>2, EditsAreLists
      <4> QED
        BY <3>2, <4>4, <4>5
    <3> QED
      BY <2>0, <3>1, <3>3
  <2>3. CASE AcquisitionStep
    <3>1. at' = at
      BY <2>3 DEF AcquisitionStep, Request, Configure, ConfigureFails, GoLive,
         Finish, WindDown, walkVars
    <3>2. phase # "STARTING"
      BY <2>0, <3>1 DEF Locked
    <3>3. listed' = listed
      BY <2>3, <3>2 DEF AcquisitionStep, Request, Configure, ConfigureFails,
         GoLive, Finish, WindDown, Lifecycle!Prepare, Lifecycle!Goes
    <3> QED
      BY <2>1, <3>1, <3>3
  <2>4. CASE Walk
    <3>1. CASE EndWalk
      BY <2>0, <3>1 DEF EndWalk
    <3>2. ASSUME NEW p \in Processors, Call(p) PROVE listed'[at'] > 0
      BY <3>2 DEF Call, IsIn
    <3> QED
      BY <2>4, <3>1, <3>2 DEF Walk, BeginWalk, Continue
  <2>5. CASE UNCHANGED vars
    BY <2>1, <2>5 DEF vars, walkVars
  <2> QED
    BY <2>2, <2>3, <2>4, <2>5 DEF Next
<1> QED
  BY <1>1, <1>2, ProcInvariantHolds, PTL DEF Spec

---------------------------------------------------------------------------
(* What becomes of a file.                                                 *)

\* The panel leaves a writer alone or puts a new one in its place.
LEMMA EditsReplaceWriters ==
    ASSUME ProcInvariant, UserEdit, NEW w \in Writers
    PROVE  \/ writers'[w].stream = "unstarted" /\ writers'[w].bytes = 0
           \/ writers'[w] = writers[w]
<1>1. SameButScope(listed)
  BY DEF ProcInvariant, ProcTypeOK, SameButScope
<1>2. CASE \E mode \in ShownModes \ {"unset"} : ChooseSaver(mode)
  BY <1>1, <1>2, ExchangeIsSafe DEF ChooseSaver
<1>3. ASSUME NEW mode \in ConfigModes, NEW box \in BOOLEAN,
             LoadConfig(mode, box)
      PROVE  \/ writers'[w].stream = "unstarted" /\ writers'[w].bytes = 0
             \/ writers'[w] = writers[w]
  <2> DEFINE shown == Shown(mode)
             scope == IF box = scopeBox THEN listed ELSE ListWithScope(box)
  <2>1. shown \in ShownModes
    BY DEF Shown, ConfigModes, ShownModes, FileModes
  <2>2. SameButScope(scope)
    BY <1>1, ScopeFollowsBox
  <2>3. UNCHANGED writers \/ ExchangeSaver(shown, scope)
    BY <1>3 DEF LoadConfig
  <2> HIDE DEF shown, scope
  <2> QED
    BY <2>1, <2>2, <2>3, ExchangeIsSafe
<1>4. CASE ToggleScope \/ ToggleReader \/ ChangePlotChannel
  BY <1>4 DEF ToggleScope, ToggleReader, ChangePlotChannel
<1> QED
  BY <1>2, <1>3, <1>4 DEF UserEdit

\* An open file only grows, and a finished one keeps its length until its
\* writer is started again. From the start of the device to READY, nothing but
\* finish closes a file, unless a configuration is loaded.
FilesAreKept ==
    \A w \in Writers :
        /\ writers[w].stream = "open" /\ writers'[w].stream = "open"
               => writers'[w].bytes >= writers[w].bytes
        /\ writers[w].stream = "closed" /\ writers'[w].stream = "closed"
               => writers'[w].bytes = writers[w].bytes
        /\ LoadsSettled /\ (Locked \/ Launching)
               /\ writers[w].stream = "open" /\ writers'[w].stream # "open"
               => Finish

\* A record is added to a writer whose file is not closed.
LEMMA WalkKeepsFiles ==
    ASSUME ProcInvariant, Walk, NEW w \in Writers
    PROVE  /\ writers'[w].stream = writers[w].stream
           /\ writers'[w].bytes >= writers[w].bytes
           /\ writers[w].stream = "closed"
                  => writers'[w].bytes = writers[w].bytes
<1>0. writers \in [Writers -> WriterStates] /\ writers[w].bytes \in Nat
  BY DEF ProcInvariant, ProcTypeOK, WriterStates
<1>1. CASE UNCHANGED writers
  BY <1>0, <1>1
<1>2. ASSUME NEW p \in Processors, NEW size \in RecordSizes,
             IsIn(p), recording, Takes(p, size)
      PROVE  /\ writers'[w].stream = writers[w].stream
             /\ writers'[w].bytes >= writers[w].bytes
             /\ writers[w].stream = "closed"
                    => writers'[w].bytes = writers[w].bytes
  <2>1. writers'[w].stream = writers[w].stream
    BY <1>2, TakenStaysBounded
  <2>2. CASE w # p
    BY <1>0, <1>2, <2>1, <2>2 DEF Takes
  <2>3. CASE w = p
    <3> DEFINE added == Added(writers[w], size)
    <3>1. added \in Nat
      BY <1>0 DEF Added
    <3>2. writers' = [writers EXCEPT ![w].bytes = @ + added]
      BY <1>2, <2>3 DEF Takes
    <3> HIDE DEF added
    <3>3. writers'[w].bytes = writers[w].bytes + added
      BY <1>0, <3>2 DEF WriterStates
    <3>4. writers[w].stream # "closed"
      BY <1>2, <2>3 DEF ProcInvariant, FilesOK, FilesFollowAcquisition
    <3> QED
      BY <1>0, <2>1, <3>1, <3>3, <3>4
  <2> QED
    BY <2>2, <2>3
<1>3. \/ UNCHANGED writers
      \/ \E p \in Processors, size \in RecordSizes :
             IsIn(p) /\ recording /\ Takes(p, size)
  <2>1. ASSUME NEW p \in Processors, Call(p), recording
        PROVE  \/ UNCHANGED writers
               \/ \E q \in Processors, size \in RecordSizes :
                      IsIn(q) /\ recording /\ Takes(q, size)
    BY <2>1 DEF Call
  <2>2. ~NoWalk \/ streaming => recording
    BY DEF ProcInvariant, LifeOK, WalkIsRecorded
  <2>3. CASE EndWalk
    BY <2>3 DEF EndWalk
  <2> QED
    BY <2>1, <2>2, <2>3 DEF Walk, BeginWalk, Continue
<1> QED
  BY <1>1, <1>2, <1>3

\* Started and finished writers.
LEMMA AcquisitionKeepsFiles ==
    ASSUME ProcInvariant, AcquisitionStep
    PROVE  FilesAreKept
<1> SUFFICES ASSUME NEW w \in Writers
             PROVE  /\ writers[w].stream = "open" /\ writers'[w].stream = "open"
                           => writers'[w].bytes >= writers[w].bytes
                    /\ writers[w].stream = "closed"
                           /\ writers'[w].stream = "closed"
                           => writers'[w].bytes = writers[w].bytes
                    /\ (Locked \/ Launching)
                           /\ writers[w].stream = "open"
                           /\ writers'[w].stream # "open" => Finish
  BY DEF FilesAreKept
<1>0. writers[w].bytes \in Nat
  BY DEF ProcInvariant, ProcTypeOK, WriterStates
<1>1. CASE UNCHANGED writers
  BY <1>0, <1>1
<1>2. CASE Configure
  <2>1. ~recording /\ writers[w].stream # "open"
    BY <1>2 DEF Configure, Lifecycle!Prepare, Lifecycle!Goes, ProcInvariant,
       LifeOK, FilesOK, OpenIsListed
  <2>2. PICK c \in BOOLEAN : writers' = StartedAll(Given, c)
    BY <1>2 DEF Configure
  <2>3. Started(writers[w], c).stream = "open"
    BY DEF Started, ProcInvariant, ProcTypeOK, WriterStates
  <2> QED
    BY <2>1, <2>2, <2>3 DEF StartedAll
<1>3. ASSUME writers' = FinishedAll(Given) \/ writers' = FinishedAll(listed)
      PROVE  writers'[w].bytes = writers[w].bytes
  BY <1>3, FinishedStays
<1>4. CASE ConfigureFails
  <2>1. phase = "STARTING"
    BY <1>4 DEF ConfigureFails
  <2>2. ~Locked /\ ~Launching
        /\ (writers' = writers \/ writers' = FinishedAll(Given))
    BY <1>4, <2>1 DEF ConfigureFails, Locked
  <2> QED
    BY <1>0, <1>1, <1>3, <2>2
<1>5. CASE Finish
  <2>1. writers' = FinishedAll(listed)
    BY <1>5 DEF Finish
  <2> QED
    BY <1>0, <1>3, <1>5, <2>1
<1> QED
  BY <1>1, <1>2, <1>4, <1>5 DEF AcquisitionStep, Request, GoLive, WindDown

\* What was written stays written, whatever the window does meanwhile.
THEOREM FilesAreAlwaysKept == Spec => [][FilesAreKept]_vars
<1>1. ProcInvariant /\ [Next]_vars => [FilesAreKept]_vars
  <2> SUFFICES ASSUME ProcInvariant, Next PROVE FilesAreKept
    OBVIOUS
  <2>0. \A w \in Writers : writers[w].bytes \in Nat
    BY DEF ProcInvariant, ProcTypeOK, WriterStates
  <2>1. CASE UserEdit
    <3>1. LoadsSettled /\ (Locked \/ Launching)
              => UNCHANGED writers \/ ~recording
      BY <2>1 DEF UserEdit, ChooseSaver, ToggleScope, ToggleReader,
         ChangePlotChannel, LoadConfig
    <3>2. ~recording => \A w \in Writers : writers[w].stream # "open"
      BY DEF ProcInvariant, FilesOK, FilesFollowAcquisition
    <3> QED
      BY <2>0, <2>1, <3>1, <3>2, EditsReplaceWriters DEF FilesAreKept
  <2>2. CASE AcquisitionStep
    BY <2>2, AcquisitionKeepsFiles
  <2>3. CASE Walk
    BY <2>3, WalkKeepsFiles DEF FilesAreKept
  <2> QED
    BY <2>1, <2>2, <2>3 DEF Next
<1> QED
  BY <1>1, ProcInvariantHolds, PTL DEF Spec

=============================================================================
