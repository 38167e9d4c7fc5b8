--------------------------- MODULE FrontEndProofs ---------------------------
(***************************************************************************)
(* What FrontEnd promises for every number of channels and ranges, every   *)
(* width of the codes and every input. FrontEndInvariant is inductive: a   *)
(* total shift says nothing of the offset in it once it was clipped, so    *)
(* the offsets are followed by themselves, and a stage measures from zero  *)
(* because its cells are still as appendStage left them.                   *)
(***************************************************************************)
EXTENDS FrontEnd, TLAPS

USE CountsAssumption, CodesAssumption, InputsAssumption

---------------------------------------------------------------------------
(* Conversions.                                                            *)

LEMMA ClipIsCode == \A n \in Int : Clip(n) \in Codes
BY DEF Clip, Codes

LEMMA ClipKeepsCodes == \A n \in Codes : Clip(n) = n
BY DEF Clip, Codes

LEMMA CodesAreIntegers ==
    0 \in Codes /\ Codes \subseteq Int /\ \A n \in Codes : n + 0 = n
BY DEF Codes

LEMMA ShiftIsCode == \A s \in Settings : Shift(s) \in Codes
BY ClipIsCode DEF Shift, Settings

LEMMA NoOffsetsIsTable == NoOffsets \in Tables /\ NoOffsets \in Drafts
BY CodesAreIntegers DEF NoOffsets, Tables, Drafts

\* A draft in which one cell was set.
WithCell(t, ch, ir, cell) == [t EXCEPT ![ch][ir] = cell]

LEMMA CellIsSet ==
    ASSUME NEW t \in Drafts, NEW ch \in Channels, NEW ir \in Ranges,
           NEW cell \in [analog : Int, digital : Int]
    PROVE  /\ WithCell(t, ch, ir, cell) \in Drafts
           /\ WithCell(t, ch, ir, cell)[ch][ir] = cell
           /\ \A c \in Channels, i \in Ranges :
                 c # ch \/ i # ir => WithCell(t, ch, ir, cell)[c][i] = t[c][i]
           /\ \A c \in Channels \ {ch} : WithCell(t, ch, ir, cell)[c] = t[c]
<1> DEFINE Row == [Ranges -> [analog : Int, digital : Int]]
           row == [t[ch] EXCEPT ![ir] = cell]
<1>1. t \in [Channels -> Row]
  BY DEF Drafts
<1>2. /\ row \in Row /\ row[ir] = cell
      /\ \A i \in Ranges \ {ir} : row[i] = t[ch][i]
  BY <1>1
<1>3. WithCell(t, ch, ir, cell) = [t EXCEPT ![ch] = row]
  BY DEF WithCell
<1> HIDE DEF row
<1>4. /\ WithCell(t, ch, ir, cell) \in [Channels -> Row]
      /\ WithCell(t, ch, ir, cell)[ch] = row
      /\ \A c \in Channels \ {ch} : WithCell(t, ch, ir, cell)[c] = t[c]
  BY <1>1, <1>2, <1>3
<1> QED
  BY <1>2, <1>4 DEF Drafts

\* What the boxes may do to a cell: it stands for the same codes, and one that
\* holds zero keeps it.
Alike(cell, old) ==
    /\ Clip(cell.analog) = Clip(old.analog)
    /\ Clip(cell.digital) = Clip(old.digital)
    /\ old.analog = 0 => cell.analog = 0
    /\ old.digital = 0 => cell.digital = 0

LEMMA ShownIsTyped ==
    ASSUME NEW t \in Drafts, NEW ir \in Ranges, NEW shown \in Shown(t, ir)
    PROVE  /\ shown \in Drafts
           /\ \A c \in Channels, i \in Ranges : Alike(shown[c][i], t[c][i])
<1>1. PICK analogs \in SUBSET Beyond(t, ir),
           digitals \in SUBSET Beyond(t, ir) :
               shown = Boxed(t, ir, analogs, digitals)
  BY DEF Shown
<1> DEFINE Cells == [analog : Int, digital : Int]
           cell(c) ==
               [analog  |-> IF c \in analogs THEN Clip(t[c][ir].analog)
                                             ELSE t[c][ir].analog,
                digital |-> IF c \in digitals THEN Clip(t[c][ir].digital)
                                              ELSE t[c][ir].digital]
<1>2. t \in [Channels -> [Ranges -> Cells]]
  BY DEF Drafts
<1>3. \A c \in Channels, i \in Ranges : t[c][i] \in Cells
  BY <1>2
<1>4. \A n \in Int : /\ Clip(n) \in Int /\ Clip(Clip(n)) = Clip(n)
                     /\ n = 0 => Clip(n) = 0
  BY DEF Clip
<1>5. \A c \in Channels : cell(c) \in Cells /\ Alike(cell(c), t[c][ir])
  BY <1>3, <1>4 DEF Alike
<1>6. \A n \in Cells : Alike(n, n)
  BY DEF Alike
<1>7. shown = [c \in Channels |-> [t[c] EXCEPT ![ir] = cell(c)]]
  BY <1>1 DEF Boxed
<1> HIDE DEF Cells, cell
<1>8. /\ shown \in [Channels -> [Ranges -> Cells]]
      /\ \A c \in Channels : /\ shown[c][ir] = cell(c)
                             /\ \A i \in Ranges \ {ir} :
                                   shown[c][i] = t[c][i]
  BY <1>2, <1>5, <1>7
<1> QED
  BY <1>3, <1>5, <1>6, <1>8 DEF Drafts, Cells

LEMMA LoadedIsTyped ==
    ASSUME NEW config \in Configs
    PROVE  Loaded(config) \in [Channels -> Settings]
<1>1. config \in [Channels -> Settings]
  OBVIOUS
<1>2. \A n \in Int : Clip(n) \in Int
  BY ClipIsCode, CodesAreIntegers
<1> QED
  BY <1>1, <1>2 DEF Loaded, Settings

\* A channel that gets no call keeps its level, one that gets them all is
\* where its settings say.
LEMMA ToldIsLevel ==
    ASSUME NEW level \in Levels, NEW s \in Settings, NEW calls \in 0 .. 3
    PROVE  /\ Told(level, s, calls) \in Levels
           /\ Told(level, s, 0) = level
           /\ Told(level, s, 3) = [range |-> s.range, bias |-> Shift(s),
                                   offset |-> s.digital]
BY ShiftIsCode DEF Told, Levels, Settings

LEMMA RefreshedIsTyped ==
    ASSUME NEW s \in Settings,
           NEW cell \in [analog : Int, digital : Int]
    PROVE  /\ Refreshed(s, cell) \in Settings
           /\ Refreshed(s, cell).range = s.range
           /\ Refreshed(s, cell).dcBias = s.dcBias
           /\ Refreshed(s, cell).analog = cell.analog
           /\ Refreshed(s, cell).digital = cell.digital
BY CodesAreIntegers DEF Refreshed, Settings

\* The acquisition of a stage has no bias and the offsets of the draft.
LEMMA OfStageIsTyped ==
    ASSUME FrontEndTypeOK, NEW s \in todo
    PROVE  /\ OfStage(s) \in Settings
           /\ s.channel \in Channels /\ s.range \in Ranges
           /\ Told(device[s.channel], OfStage(s), 3) =
                  [range  |-> s.range,
                   bias   |-> Clip(draft[s.channel][s.range].analog),
                   offset |-> draft[s.channel][s.range].digital]
<1> DEFINE cell == draft[s.channel][s.range]
           rest == [range |-> s.range, dcBias |-> 0, analog |-> 0,
                    digital |-> 0]
<1>1. s.channel \in Channels /\ s.range \in Ranges
  BY DEF FrontEndTypeOK, Stages
<1>2. cell \in [analog : Int, digital : Int]
  BY <1>1 DEF FrontEndTypeOK, Drafts
<1>3. rest \in Settings
  BY <1>1 DEF Settings
<1>4. OfStage(s) = Refreshed(rest, cell)
  BY DEF OfStage
<1>5. /\ OfStage(s) \in Settings
      /\ OfStage(s).range = s.range
      /\ OfStage(s).dcBias = 0
      /\ OfStage(s).analog = cell.analog
      /\ OfStage(s).digital = cell.digital
  <2> HIDE DEF rest, cell
  <2> QED
    BY <1>2, <1>3, <1>4, RefreshedIsTyped DEF rest
<1>6. Shift(OfStage(s)) = Clip(cell.analog)
  <2> HIDE DEF rest, cell
  <2>1. cell.analog + 0 = cell.analog
    BY <1>2
  <2> QED
    BY <2>1, <1>5 DEF Shift
<1>7. device[s.channel] \in Levels
  BY <1>1 DEF FrontEndTypeOK
<1>8. Told(device[s.channel], OfStage(s), 3) =
          [range |-> OfStage(s).range, bias |-> Shift(OfStage(s)),
           offset |-> OfStage(s).digital]
  <2>1. 3 \in 0 .. 3
    OBVIOUS
  <2> QED
    BY <2>1, <1>5, <1>7, ToldIsLevel
<1> QED
  BY <1>1, <1>5, <1>6, <1>8

LEMMA RequestsAreCounted ==
    ASSUME FrontEndTypeOK, UserActs
    PROVE  requests' \in Nat /\ ~InRunStage
BY DEF FrontEndTypeOK, UserActs

---------------------------------------------------------------------------
(* The settings: what an edit may disturb is the levels and the draft.     *)

\* setDCBias of one channel, from a tab or from its reload.
LEMMA BiasSetKeepsInvariant ==
    ASSUME FrontEndInvariant, NEW ch \in Channels, NEW bias \in Int,
           BiasSet(ch, bias), TouchIf(calibrating, {ch}),
           requests' \in Nat, UNCHANGED <<lifeVars, table, dialogVars>>
    PROVE  FrontEndInvariant'
<1> USE DEF FrontEndInvariant, lifeVars, dialogVars
<1>1. Clip(bias) \in Int
  BY ClipIsCode, CodesAreIntegers
<1>2. /\ acq' \in [Channels -> Settings]
      /\ acq'[ch] = [acq[ch] EXCEPT !.dcBias = Clip(bias)]
      /\ \A c \in Channels \ {ch} : acq'[c] = acq[c]
  BY <1>1 DEF BiasSet, FrontEndTypeOK, Settings
<1>3. Shift(acq'[ch]) \in Codes
  BY <1>2, ShiftIsCode
<1>4. /\ device' \in [Channels -> Levels]
      /\ device'[ch] = [device[ch] EXCEPT !.bias = Shift(acq'[ch])]
      /\ \A c \in Channels \ {ch} : device'[c] = device[c]
  BY <1>3 DEF BiasSet, FrontEndTypeOK, Levels
<1>5. touched' = IF calibrating THEN touched \cup {ch} ELSE touched
  BY DEF TouchIf
<1>6. FrontEndTypeOK'
  BY <1>2, <1>4, <1>5 DEF FrontEndTypeOK
<1>7. /\ acq'[ch].range = acq[ch].range /\ acq'[ch].analog = acq[ch].analog
      /\ device'[ch].range = device[ch].range
      /\ device'[ch].bias = Shift(acq'[ch])
  BY <1>2, <1>4 DEF FrontEndTypeOK, Settings, Levels
<1>8. ProgrammedLevels'
  <2> SUFFICES ASSUME Underway, asked = "default", NEW c \in acquired
               PROVE  /\ device'[c].range = acq'[c].range
                      /\ device'[c].bias = Shift(acq'[c])
    BY DEF ProgrammedLevels, Underway
  <2>1. c \in Channels
    BY DEF FrontEndTypeOK
  <2>2. device[c].range = acq[c].range /\ device[c].bias = Shift(acq[c])
    BY DEF ProgrammedLevels
  <2>3. CASE c = ch
    BY <2>2, <2>3, <1>7
  <2>4. CASE c # ch
    BY <2>1, <2>2, <2>4, <1>2, <1>4
  <2> QED
    BY <2>3, <2>4
<1>9. OffsetsFollowTable'
  <2> SUFFICES ASSUME Underway, asked = "default", NEW c \in acquired \ touched
               PROVE  acq'[c].analog = table[c][acq'[c].range].analog
    BY <1>5 DEF OffsetsFollowTable, Underway
  <2>1. c \in Channels
    BY DEF FrontEndTypeOK
  <2>2. acq[c].analog = table[c][acq[c].range].analog
    BY DEF OffsetsFollowTable
  <2>3. acq'[c].analog = acq[c].analog /\ acq'[c].range = acq[c].range
    BY <2>1, <1>2, <1>7
  <2> QED
    BY <2>2, <2>3
<1>10. CalibrationIsAsked' /\ OneKindOfStage' /\ AcquiredIsUnderway'
  BY DEF CalibrationIsAsked, OneKindOfStage, AcquiredIsUnderway, Underway
<1>11. CellsAreReset'
  BY <1>5 DEF CellsAreReset
<1>12. StageIsProgrammed'
  BY <1>4, <1>5 DEF StageIsProgrammed, Underway, Current, FrontEndTypeOK, Stages
<1> QED
  BY <1>6, <1>8, <1>9, <1>10, <1>11, <1>12

LEMMA SettingsKeepInvariant ==
    ASSUME FrontEndInvariant, NEW ch \in Channels,
           \/ \E bias \in Biases : SetDCBias(ch, bias)
           \/ OpenTab(ch)
    PROVE  FrontEndInvariant'
<1>1. requests' \in Nat
  BY DEF SetDCBias, OpenTab, UserActs, FrontEndInvariant, FrontEndTypeOK
<1>2. ASSUME NEW bias \in Biases, SetDCBias(ch, bias)
      PROVE  FrontEndInvariant'
  BY <1>1, <1>2, BiasSetKeepsInvariant DEF SetDCBias
<1>3. ASSUME OpenTab(ch)
      PROVE  FrontEndInvariant'
  <2>1. acq[ch].dcBias \in Int
    BY DEF FrontEndInvariant, FrontEndTypeOK, Settings
  <2> QED
    BY <1>1, <1>3, <2>1, BiasSetKeepsInvariant DEF OpenTab
<1> QED
  BY <1>2, <1>3

LEMMA SetInputRangeKeepsInvariant ==
    ASSUME FrontEndInvariant, NEW ch \in Channels, NEW range \in Ranges,
           SetInputRange(ch, range)
    PROVE  FrontEndInvariant'
<1> USE DEF FrontEndInvariant, SetInputRange, lifeVars, dialogVars
<1>1. requests' \in Nat
  BY RequestsAreCounted
<1>2. /\ acq' \in [Channels -> Settings]
      /\ acq'[ch] = [acq[ch] EXCEPT !.range = range]
      /\ \A c \in Channels \ {ch} : acq'[c] = acq[c]
  BY DEF FrontEndTypeOK, Settings
<1>3. /\ device' \in [Channels -> Levels]
      /\ device'[ch] = [device[ch] EXCEPT !.range = range]
      /\ \A c \in Channels \ {ch} : device'[c] = device[c]
  BY DEF FrontEndTypeOK, Levels
<1>4. touched' = IF Underway THEN touched \cup {ch} ELSE touched
  BY DEF TouchIf
<1>5. FrontEndTypeOK'
  BY <1>1, <1>2, <1>3, <1>4 DEF FrontEndTypeOK
<1>6. Shift(acq'[ch]) = Shift(acq[ch])
  BY <1>2 DEF Shift, FrontEndTypeOK, Settings
<1>7. ProgrammedLevels'
  <2> SUFFICES ASSUME Underway, asked = "default", NEW c \in acquired
               PROVE  /\ device'[c].range = acq'[c].range
                      /\ device'[c].bias = Shift(acq'[c])
    BY DEF ProgrammedLevels, Underway
  <2>1. c \in Channels
    BY DEF FrontEndTypeOK
  <2>2. device[c].range = acq[c].range /\ device[c].bias = Shift(acq[c])
    BY DEF ProgrammedLevels
  <2>3. CASE c = ch
    BY <2>2, <2>3, <1>2, <1>3, <1>6 DEF FrontEndTypeOK, Settings, Levels
  <2>4. CASE c # ch
    BY <2>1, <2>2, <2>4, <1>2, <1>3
  <2> QED
    BY <2>3, <2>4
<1>8. OffsetsFollowTable'
  <2> SUFFICES ASSUME Underway, asked = "default",
                      NEW c \in acquired \ touched'
               PROVE  acq'[c].analog = table[c][acq'[c].range].analog
    BY DEF OffsetsFollowTable, Underway
  <2>1. c \in acquired \ touched /\ c # ch /\ c \in Channels
    BY <1>4 DEF FrontEndTypeOK
  <2> QED
    BY <2>1, <1>2 DEF OffsetsFollowTable
<1>9. CalibrationIsAsked' /\ OneKindOfStage' /\ AcquiredIsUnderway'
  BY DEF CalibrationIsAsked, OneKindOfStage, AcquiredIsUnderway, Underway
<1>10. calibrating => touched' = touched \cup {ch}
  BY <1>4 DEF CalibrationIsAsked, UserActs, InRunStage
<1>11. CellsAreReset'
  BY <1>10 DEF CellsAreReset
<1>12. StageIsProgrammed'
  BY <1>3, <1>10 DEF StageIsProgrammed, Underway, Current, FrontEndTypeOK,
                    Stages
<1> QED
  BY <1>5, <1>7, <1>8, <1>9, <1>11, <1>12

LEMMA LoadConfigKeepsInvariant ==
    ASSUME FrontEndInvariant, NEW config \in Configs, LoadConfig(config)
    PROVE  FrontEndInvariant'
<1> USE DEF FrontEndInvariant, LoadConfig, lifeVars, dialogVars
<1>1. requests' \in Nat
  BY RequestsAreCounted
<1>2. acq' \in [Channels -> Settings]
  BY LoadedIsTyped
<1>3. config \in [Channels -> Settings]
  OBVIOUS
<1>4. \A ch \in Channels : acq'[ch].range = config[ch].range
  BY <1>3 DEF Loaded, Settings
<1>5. \A ch \in Channels : Shift(acq'[ch]) \in Codes
  BY <1>2, ShiftIsCode
<1>6. /\ device' \in [Channels -> Levels]
      /\ \A ch \in Channels : /\ device'[ch].range = config[ch].range
                              /\ device'[ch].bias = Shift(acq'[ch])
  BY <1>3, <1>5 DEF FrontEndTypeOK, Levels, Settings
<1>7. touched' = IF Underway THEN Channels ELSE touched
  BY DEF TouchIf, FrontEndTypeOK
<1>8. FrontEndTypeOK'
  BY <1>1, <1>2, <1>6, <1>7 DEF FrontEndTypeOK
<1>9. ProgrammedLevels'
  BY <1>4, <1>6 DEF ProgrammedLevels, FrontEndTypeOK
<1>10. OffsetsFollowTable'
  BY <1>7 DEF OffsetsFollowTable, Underway, FrontEndTypeOK
<1>11. CalibrationIsAsked' /\ OneKindOfStage' /\ AcquiredIsUnderway'
  BY DEF CalibrationIsAsked, OneKindOfStage, AcquiredIsUnderway, Underway
<1>12. calibrating => touched' = Channels
  BY <1>7 DEF CalibrationIsAsked, UserActs, InRunStage
<1>13. CellsAreReset' /\ StageIsProgrammed'
  BY <1>12 DEF CellsAreReset, StageIsProgrammed, FrontEndTypeOK, Stages
<1> QED
  BY <1>8, <1>9, <1>10, <1>11, <1>13

---------------------------------------------------------------------------
(* The calibration dialog.                                                 *)

\* A cell the boxes may have rewritten, in a channel nobody touched.
Kept(ch) == \A ir \in Ranges : Alike(draft'[ch][ir], draft[ch][ir])

LEMMA KeptChannelsAreReset ==
    ASSUME FrontEndTypeOK, CellsAreReset, StageIsProgrammed,
           UNCHANGED <<lifeVars, todo, calibrating>>,
           touched \subseteq touched',
           \A ch \in Channels \ touched' : calibrating =>
               Kept(ch) /\ device'[ch] = device[ch]
    PROVE  CellsAreReset' /\ StageIsProgrammed'
<1>1. \A s \in todo : s.channel \in Channels /\ s.range \in Ranges
  BY DEF FrontEndTypeOK, Stages
<1> QED
  BY <1>1
  DEF lifeVars, Kept, Alike, CellsAreReset, StageIsProgrammed, Underway,
      Current

\* What the dialog does with its draft.
DraftEdit ==
    \/ \E ch \in Channels, ir \in Ranges, value \in Offsets :
           EditDraft(ch, ir, value)
    \/ \E ir \in Ranges : ShowRange(ir)
    \/ SaveTable
    \/ LoadTable

\* Channels that it does more to than showing them are touched.
LEMMA DraftEditsAreTyped ==
    ASSUME FrontEndTypeOK, DraftEdit
    PROVE  /\ UNCHANGED <<lifeVars, acq, table, device, todo, calibrating,
                          enabled>>
           /\ draft' \in Drafts /\ file' \in Drafts
           /\ touched \subseteq touched' /\ touched' \subseteq Channels
           /\ ~calibrating => touched' = touched
           /\ \A c \in Channels \ touched' : calibrating => Kept(c)
<1>0. draft \in Drafts /\ file \in Drafts
  BY DEF FrontEndTypeOK
<1>1. ASSUME NEW ch \in Channels, NEW ir \in Ranges, NEW value \in Offsets,
             EditDraft(ch, ir, value)
      PROVE  /\ draft' \in Drafts
             /\ \A c \in Channels \ {ch} : Kept(c)
  <2>1. draft[ch][ir] \in [analog : Int, digital : Int]
    BY <1>0 DEF Drafts
  <2>2. value \in Int
    BY CodesAreIntegers
  <2>3. PICK cell \in [analog : Int, digital : Int] :
            draft' = WithCell(draft, ch, ir, cell)
    BY <1>1, <2>1, <2>2 DEF EditDraft, WithCell
  <2> QED
    BY <1>0, <2>3, CellIsSet DEF Kept, Alike
<1>2. ASSUME NEW ch \in Channels, NEW ir \in Ranges, NEW value \in Offsets,
             EditDraft(ch, ir, value)
      PROVE  touched' = IF calibrating THEN touched \cup {ch} ELSE touched
  BY <1>2 DEF EditDraft, TouchIf
<1>3. CASE \E ch \in Channels, ir \in Ranges, value \in Offsets :
               EditDraft(ch, ir, value)
  <2> PICK ch \in Channels, ir \in Ranges, value \in Offsets :
               EditDraft(ch, ir, value)
    BY <1>3
  <2>1. /\ draft' \in Drafts
        /\ \A c \in Channels \ {ch} : Kept(c)
        /\ touched' = IF calibrating THEN touched \cup {ch} ELSE touched
    BY <1>1, <1>2
  <2>2. UNCHANGED <<lifeVars, acq, table, device, file, todo, calibrating,
                    enabled>>
    BY DEF EditDraft
  <2> QED
    BY <1>0, <2>1, <2>2 DEF FrontEndTypeOK
<1>4. CASE \E ir \in Ranges : ShowRange(ir)
  BY <1>0, <1>4, ShownIsTyped DEF ShowRange, Kept, FrontEndTypeOK
<1>5. CASE SaveTable
  BY <1>0, <1>5, NoOffsetsIsTable
  DEF SaveTable, Kept, Alike, FrontEndTypeOK
<1>6. CASE LoadTable
  BY <1>0, <1>6, ShownIsTyped DEF LoadTable, TouchIf, FrontEndTypeOK
<1> QED
  BY <1>3, <1>4, <1>5, <1>6 DEF DraftEdit

LEMMA DraftsKeepInvariant ==
    ASSUME FrontEndInvariant, DraftEdit
    PROVE  FrontEndInvariant'
<1> USE DEF FrontEndInvariant, lifeVars
<1>1. requests' \in Nat
  BY RequestsAreCounted
  DEF DraftEdit, EditDraft, ShowRange, SaveTable, LoadTable
<1>2. /\ UNCHANGED <<lifeVars, acq, table, device, todo, calibrating, enabled>>
      /\ draft' \in Drafts /\ file' \in Drafts
      /\ touched \subseteq touched' /\ touched' \subseteq Channels
      /\ ~calibrating => touched' = touched
      /\ \A c \in Channels \ touched' : calibrating => Kept(c)
  BY DraftEditsAreTyped
<1>3. FrontEndTypeOK'
  BY <1>1, <1>2 DEF FrontEndTypeOK
<1>4. /\ ProgrammedLevels' /\ CalibrationIsAsked' /\ OneKindOfStage'
      /\ AcquiredIsUnderway'
  BY <1>2 DEF ProgrammedLevels, CalibrationIsAsked, OneKindOfStage,
             AcquiredIsUnderway, Underway
<1>5. OffsetsFollowTable'
  BY <1>2 DEF OffsetsFollowTable, CalibrationIsAsked, Underway
<1>6. CellsAreReset' /\ StageIsProgrammed'
  BY <1>2, KeptChannelsAreReset
<1> QED
  BY <1>3, <1>4, <1>5, <1>6

LEMMA ApplyKeepsInvariant ==
    ASSUME FrontEndInvariant, NEW chs \in SUBSET Channels,
           NEW irs \in SUBSET Ranges, Apply(chs, irs)
    PROVE  FrontEndInvariant'
<1> USE DEF FrontEndInvariant, lifeVars
<1> DEFINE Moves(ch) == ch \in chs /\ acq[ch].range \in irs
<1>1. requests' \in Nat
  BY RequestsAreCounted DEF Apply
<1>2. /\ UNCHANGED <<lifeVars, file, todo, calibrating, enabled>>
      /\ touched' = IF calibrating THEN touched \cup chs ELSE touched
      /\ draft' \in Drafts /\ \A ch \in Channels : Kept(ch)
  BY ShownIsTyped DEF Apply, TouchIf, Kept, FrontEndTypeOK
<1>3. /\ table' \in Tables
      /\ \A ch \in Channels, ir \in Ranges : table'[ch][ir] =
             IF ch \in chs /\ ir \in irs THEN Clipped(draft[ch][ir])
                                         ELSE table[ch][ir]
  <2>1. \A ch \in Channels, ir \in Ranges :
            Clipped(draft[ch][ir]) \in [analog : Codes, digital : Codes]
    BY ClipIsCode DEF Clipped, FrontEndTypeOK, Drafts
  <2> QED
    BY <2>1 DEF Apply, OffsetsSet, TableSet, FrontEndTypeOK, Tables
<1>4. \A ch \in Channels : acq[ch] \in Settings /\ acq[ch].range \in Ranges
  BY DEF FrontEndTypeOK, Settings
<1> DEFINE cell(ch) == [analog  |-> Clip(draft[ch][acq[ch].range].analog),
                        digital |-> draft[ch][acq[ch].range].digital]
<1>5. \A ch \in Channels : cell(ch) \in [analog : Int, digital : Int]
  <2>1. \A ch \in Channels :
            draft[ch][acq[ch].range] \in [analog : Int, digital : Int]
    BY <1>4 DEF FrontEndTypeOK, Drafts
  <2>2. \A n \in Int : Clip(n) \in Int
    BY ClipIsCode, CodesAreIntegers
  <2> QED
    BY <2>1, <2>2
<1>6. acq' = [ch \in Channels |->
                 IF Moves(ch) THEN Refreshed(acq[ch], cell(ch)) ELSE acq[ch]]
  BY DEF Apply, OffsetsSet, OffsetSettings, Refreshed
<1>7. /\ acq' \in [Channels -> Settings]
      /\ \A ch \in Channels : acq'[ch].range = acq[ch].range
      /\ \A ch \in Channels : ~Moves(ch) => acq'[ch] = acq[ch]
      /\ \A ch \in Channels : Moves(ch) =>
             acq'[ch].analog = Clip(draft[ch][acq[ch].range].analog)
  <2>1. \A ch \in Channels : acq'[ch] =
            IF Moves(ch) THEN Refreshed(acq[ch], cell(ch)) ELSE acq[ch]
    BY <1>6
  <2>2. \A ch \in Channels :
            /\ Refreshed(acq[ch], cell(ch)) \in Settings
            /\ Refreshed(acq[ch], cell(ch)).range = acq[ch].range
            /\ Refreshed(acq[ch], cell(ch)).analog = cell(ch).analog
    BY <1>4, <1>5, RefreshedIsTyped
  <2> HIDE DEF Moves
  <2> QED
    BY <1>4, <1>6, <2>1, <2>2
<1>8. \A ch \in Channels : Shift(acq'[ch]) \in Codes
  BY <1>7, ShiftIsCode
<1>9. /\ device' \in [Channels -> Levels]
      /\ \A ch \in Channels :
            /\ device'[ch].range = device[ch].range
            /\ ~Moves(ch) => device'[ch] = device[ch]
            /\ Moves(ch) => device'[ch].bias = Shift(acq'[ch])
  BY <1>8 DEF Apply, OffsetsSet, FrontEndTypeOK, Levels
<1> HIDE DEF Moves
<1>10. FrontEndTypeOK'
  BY <1>1, <1>2, <1>3, <1>7, <1>9 DEF FrontEndTypeOK
<1>11. ProgrammedLevels'
  <2> SUFFICES ASSUME Underway, asked = "default", NEW c \in acquired
               PROVE  /\ device'[c].range = acq'[c].range
                      /\ device'[c].bias = Shift(acq'[c])
    BY <1>2 DEF ProgrammedLevels, Underway
  <2>1. c \in Channels
    BY DEF FrontEndTypeOK
  <2>2. device[c].range = acq[c].range /\ device[c].bias = Shift(acq[c])
    BY DEF ProgrammedLevels
  <2> QED
    BY <2>1, <2>2, <1>7, <1>9
<1>12. OffsetsFollowTable'
  <2> SUFFICES ASSUME Underway, asked = "default", NEW c \in acquired \ touched
               PROVE  acq'[c].analog = table'[c][acq'[c].range].analog
    BY <1>2 DEF OffsetsFollowTable, Underway
  <2>1. c \in Channels /\ acq[c].range \in Ranges
    BY <1>4 DEF FrontEndTypeOK
  <2>2. acq[c].analog = table[c][acq[c].range].analog
    BY DEF OffsetsFollowTable
  <2>3. CASE Moves(c)
    <3>1. table'[c][acq[c].range] = Clipped(draft[c][acq[c].range])
      BY <2>1, <2>3, <1>3 DEF Moves
    <3>2. acq'[c].analog = Clip(draft[c][acq[c].range].analog)
      BY <2>1, <2>3, <1>7
    <3> QED
      BY <2>1, <3>1, <3>2, <1>7 DEF Clipped
  <2>4. CASE ~Moves(c)
    BY <2>1, <2>2, <2>4, <1>3, <1>7 DEF Moves
  <2> QED
    BY <2>3, <2>4
<1>13. CalibrationIsAsked' /\ OneKindOfStage' /\ AcquiredIsUnderway'
  BY <1>2 DEF CalibrationIsAsked, OneKindOfStage, AcquiredIsUnderway, Underway
<1>14. CellsAreReset' /\ StageIsProgrammed'
  <2>1. \A ch \in Channels \ touched' : calibrating =>
            Kept(ch) /\ device'[ch] = device[ch]
    BY <1>2, <1>9 DEF Moves
  <2> QED
    BY <1>2, <2>1, KeptChannelsAreReset
<1> QED
  BY <1>10, <1>11, <1>12, <1>13, <1>14

---------------------------------------------------------------------------
(* Ordinary acquisitions.                                                  *)

\* configureAcquisition, however many of its calls succeed per channel.
LEMMA ConfigureIsTyped ==
    ASSUME FrontEndTypeOK, NEW calls \in [Channels -> 0 .. 3],
           ConfigureDefault(calls)
    PROVE  /\ acq' \in [Channels -> Settings]
           /\ device' \in [Channels -> Levels]
           /\ \A ch \in Channels : calls[ch] = 3 =>
                 /\ device'[ch].range = acq'[ch].range
                 /\ device'[ch].bias = Shift(acq'[ch])
                 /\ acq'[ch].range = acq[ch].range
                 /\ acq'[ch].analog = table[ch][acq'[ch].range].analog
<1> DEFINE cell(ch) == table[ch][acq[ch].range]
           fresh == [ch \in Channels |-> Refreshed(acq[ch], cell(ch))]
<1>1. \A ch \in Channels : acq[ch] \in Settings /\ acq[ch].range \in Ranges
  BY DEF FrontEndTypeOK, Settings
<1>2. \A ch \in Channels : cell(ch) \in [analog : Int, digital : Int]
  <2>1. \A ch \in Channels : cell(ch) \in [analog : Codes, digital : Codes]
    BY <1>1 DEF FrontEndTypeOK, Tables
  <2> QED
    BY <2>1, CodesAreIntegers
<1>3. \A ch \in Channels :
          /\ fresh[ch] \in Settings
          /\ fresh[ch].range = acq[ch].range
          /\ fresh[ch].analog = cell(ch).analog
  BY <1>1, <1>2, RefreshedIsTyped
<1>4. /\ acq' = [ch \in Channels |->
             IF calls[ch] > 0 THEN fresh[ch] ELSE acq[ch]]
      /\ device' = [ch \in Channels |->
             Told(device[ch], fresh[ch], calls[ch])]
  BY DEF ConfigureDefault
<1> HIDE DEF fresh
<1>5. acq' \in [Channels -> Settings]
  BY <1>1, <1>3, <1>4
<1>6. \A ch \in Channels : device[ch] \in Levels
  BY DEF FrontEndTypeOK
<1>7. \A ch \in Channels :
          /\ Told(device[ch], fresh[ch], calls[ch]) \in Levels
          /\ calls[ch] = 3 => Told(device[ch], fresh[ch], calls[ch]) =
                 [range |-> fresh[ch].range, bias |-> Shift(fresh[ch]),
                  offset |-> fresh[ch].digital]
  <2> TAKE ch \in Channels
  <2>1. calls[ch] \in 0 .. 3
    OBVIOUS
  <2>2. device[ch] \in Levels /\ fresh[ch] \in Settings
    BY <1>3, <1>6
  <2>3. Told(device[ch], fresh[ch], calls[ch]) \in Levels
    BY <2>1, <2>2, ToldIsLevel
  <2>4. 3 \in 0 .. 3
    OBVIOUS
  <2>5. Told(device[ch], fresh[ch], 3) =
            [range |-> fresh[ch].range, bias |-> Shift(fresh[ch]),
             offset |-> fresh[ch].digital]
    BY <2>2, <2>4, ToldIsLevel
  <2> QED
    BY <2>3, <2>5
<1>8. device' \in [Channels -> Levels]
  BY <1>4, <1>7
<1>9. \A ch \in Channels : calls[ch] = 3 =>
          acq'[ch] = fresh[ch] /\ device'[ch] =
              [range |-> fresh[ch].range, bias |-> Shift(fresh[ch]),
               offset |-> fresh[ch].digital]
  BY <1>4, <1>7
<1> QED
  BY <1>3, <1>5, <1>8, <1>9

LEMMA StartKeepsInvariant ==
    ASSUME FrontEndInvariant, NEW mask \in SUBSET Channels, Start(mask)
    PROVE  FrontEndInvariant'
<1> USE DEF FrontEndInvariant, Start, dialogVars
<1> DEFINE calls == [ch \in Channels |-> IF ch \in mask THEN 3 ELSE 0]
<1>1. calls \in [Channels -> 0 .. 3] /\ \A ch \in mask : calls[ch] = 3
  OBVIOUS
<1>2. requests' \in Nat
  BY RequestsAreCounted
<1>3. calibrating' = FALSE
  BY DEF CalibrationIsAsked, Underway, FrontEndTypeOK
<1>4. ConfigureDefault(calls)
  OBVIOUS
<1> HIDE DEF calls
<1>5. /\ acq' \in [Channels -> Settings]
      /\ device' \in [Channels -> Levels]
      /\ \A ch \in mask :
            /\ device'[ch].range = acq'[ch].range
            /\ device'[ch].bias = Shift(acq'[ch])
            /\ acq'[ch].analog = table[ch][acq'[ch].range].analog
  BY <1>1, <1>4, ConfigureIsTyped
<1>6. FrontEndTypeOK'
  BY <1>2, <1>5 DEF FrontEndTypeOK
<1>7. ProgrammedLevels' /\ OffsetsFollowTable'
  BY <1>5 DEF ProgrammedLevels, OffsetsFollowTable
<1>8. OneKindOfStage' /\ AcquiredIsUnderway'
  BY DEF OneKindOfStage, AcquiredIsUnderway, Underway
<1> QED
  BY <1>3, <1>6, <1>7, <1>8
  DEF CalibrationIsAsked, CellsAreReset, StageIsProgrammed

LEMMA StartFailsKeepsInvariant ==
    ASSUME FrontEndInvariant, NEW mask \in SUBSET Channels, StartFails(mask)
    PROVE  FrontEndInvariant'
<1> USE DEF FrontEndInvariant, StartFails, dialogVars
<1>1. PICK at \in Channels, done \in 0 .. 3 :
          ConfigureDefault([ch \in Channels |->
              IF ch \notin mask \/ ch > at THEN 0
              ELSE IF ch < at THEN 3 ELSE done])
  OBVIOUS
<1> DEFINE calls == [ch \in Channels |->
               IF ch \notin mask \/ ch > at THEN 0
               ELSE IF ch < at THEN 3 ELSE done]
<1>2. calls \in [Channels -> 0 .. 3]
  BY DEF Channels
<1>3. requests' \in Nat
  BY RequestsAreCounted
<1>4. calibrating' = FALSE
  BY DEF CalibrationIsAsked, Underway, FrontEndTypeOK
<1>5. ConfigureDefault(calls)
  BY <1>1
<1> HIDE DEF calls
<1>6. acq' \in [Channels -> Settings] /\ device' \in [Channels -> Levels]
  BY <1>2, <1>5, ConfigureIsTyped
<1>7. FrontEndTypeOK'
  BY <1>3, <1>6 DEF FrontEndTypeOK
<1>8. OneKindOfStage' /\ ~Underway' /\ AcquiredIsUnderway'
  BY DEF OneKindOfStage, AcquiredIsUnderway, Underway
<1> QED
  BY <1>4, <1>7, <1>8
  DEF CalibrationIsAsked, CellsAreReset, StageIsProgrammed, ProgrammedLevels,
      OffsetsFollowTable

\* The states that are announced after STABILIZING.
LEMMA ProgressKeepsInvariant ==
    ASSUME FrontEndInvariant, GoLive \/ Drain \/ Complete
    PROVE  FrontEndInvariant'
<1> USE DEF FrontEndInvariant, dialogVars
<1>1. ASSUME GoLive \/ Drain
      PROVE  FrontEndInvariant'
  <2>1. /\ Underway /\ Underway'
        /\ UNCHANGED <<asked, acquired, acq, table, device, draft, file, todo,
                       calibrating, touched, requests>>
        /\ enabled' \in BOOLEAN
    BY <1>1 DEF GoLive, Drain, Underway, FrontEndTypeOK
  <2>2. FrontEndTypeOK'
    BY <2>1, <1>1 DEF FrontEndTypeOK, GoLive, Drain
  <2> QED
    BY <2>1, <2>2
    DEF ProgrammedLevels, OffsetsFollowTable, CalibrationIsAsked,
        OneKindOfStage, AcquiredIsUnderway, CellsAreReset, StageIsProgrammed,
        Current
<1>2. ASSUME Complete
      PROVE  FrontEndInvariant'
  <2>1. FrontEndTypeOK'
    BY <1>2 DEF FrontEndTypeOK, Complete
  <2>2. ~Underway' /\ ~calibrating' /\ UNCHANGED todo /\ acquired' = {}
    BY <1>2 DEF Complete, Underway
  <2> QED
    BY <2>1, <2>2
    DEF ProgrammedLevels, OffsetsFollowTable, CalibrationIsAsked,
        OneKindOfStage, AcquiredIsUnderway, CellsAreReset, StageIsProgrammed
<1> QED
  BY <1>1, <1>2

---------------------------------------------------------------------------
(* Calibrations.                                                           *)

\* The draft and the stages Start begins with.
LEMMA ResetIsTyped ==
    ASSUME FrontEndTypeOK, NEW chs \in SUBSET Channels,
           NEW irs \in SUBSET Ranges, NEW mode \in Modes
    PROVE  /\ ResetCells(chs, irs) \in Drafts
           /\ \A ch \in chs, ir \in irs : ResetCells(chs, irs)[ch][ir] =
                                           [analog |-> 0, digital |-> 0]
           /\ \A ch \in Channels \ chs, ir \in Ranges :
                  ResetCells(chs, irs)[ch][ir] = draft[ch][ir]
           /\ StagesOf(chs, irs, mode) \subseteq Stages
           /\ \A s \in StagesOf(chs, irs, mode) :
                  s.channel \in chs /\ s.range \in irs
           /\ \A s, t \in StagesOf(chs, irs, mode) :
                  s.mode = "DIGITAL" => t.mode = "DIGITAL"
BY CodesAreIntegers
DEF ResetCells, StagesOf, Stages, Modes, FrontEndTypeOK, Drafts

LEMMA StartCalibrationKeepsInvariant ==
    ASSUME FrontEndInvariant, NEW chs \in SUBSET Channels,
           NEW irs \in SUBSET Ranges, NEW mode \in Modes,
           StartCalibration(chs, irs, mode)
    PROVE  FrontEndInvariant'
<1> USE DEF FrontEndInvariant, StartCalibration
<1>1. requests' \in Nat
  BY RequestsAreCounted
<1>2. /\ draft' \in Drafts
      /\ \A ch \in chs, ir \in irs :
            draft'[ch][ir] = [analog |-> 0, digital |-> 0]
      /\ todo' \subseteq Stages
      /\ \A s \in todo' : s.channel \in chs /\ s.range \in irs
      /\ OneKindOfStage'
  <2>1. draft' = ResetCells(chs, irs) /\ todo' = StagesOf(chs, irs, mode)
    OBVIOUS
  <2> DEFINE reset  == ResetCells(chs, irs)
             stages == StagesOf(chs, irs, mode)
  <2>2. /\ reset \in Drafts /\ stages \subseteq Stages
        /\ \A ch \in chs, ir \in irs :
              reset[ch][ir] = [analog |-> 0, digital |-> 0]
        /\ \A s \in stages : s.channel \in chs /\ s.range \in irs
        /\ \A s, t \in stages : s.mode = "DIGITAL" => t.mode = "DIGITAL"
    BY ResetIsTyped
  <2>3. draft' = reset /\ todo' = stages
    BY <2>1
  <2> HIDE DEF reset, stages
  <2> QED
    BY <2>2, <2>3 DEF OneKindOfStage
<1>3. FrontEndTypeOK'
  BY <1>1, <1>2 DEF FrontEndTypeOK
<1>4. ~Underway' /\ acquired' = {}
  BY DEF Underway, AcquiredIsUnderway
<1>5. CellsAreReset'
  BY <1>2 DEF CellsAreReset
<1>6. CalibrationIsAsked' /\ AcquiredIsUnderway'
  BY <1>4 DEF CalibrationIsAsked, AcquiredIsUnderway
<1> QED
  BY <1>2, <1>3, <1>4, <1>5, <1>6
  DEF ProgrammedLevels, OffsetsFollowTable, StageIsProgrammed

LEMMA StageStartsKeepsInvariant ==
    ASSUME FrontEndInvariant, StageStarts
    PROVE  FrontEndInvariant'
<1> USE DEF FrontEndInvariant, StageStarts, dialogVars
<1>1. PICK s \in todo : Current(s) /\ ConfigureStage(s, 3)
  OBVIOUS
<1>2. s.channel \in Channels
  BY OfStageIsTyped
<1>3. device' = [device EXCEPT ![s.channel] =
          [range  |-> s.range,
           bias   |-> Clip(draft[s.channel][s.range].analog),
           offset |-> draft[s.channel][s.range].digital]]
  BY <1>1, OfStageIsTyped DEF ConfigureStage
<1>4. device' \in [Channels -> Levels]
  <2>1. device[s.channel] \in Levels
    BY <1>2 DEF FrontEndTypeOK
  <2>2. Told(device[s.channel], OfStage(s), 3) \in Levels
    <3>1. OfStage(s) \in Settings
      BY OfStageIsTyped
    <3>2. 3 \in 0 .. 3
      OBVIOUS
    <3> QED
      BY <2>1, <3>1, <3>2, ToldIsLevel
  <2> QED
    BY <1>1, <1>2, <2>2 DEF ConfigureStage, FrontEndTypeOK
<1>5. FrontEndTypeOK'
  BY <1>4 DEF FrontEndTypeOK
<1>6. asked' = "calibration" /\ UNCHANGED <<todo, draft, calibrating, touched>>
  BY DEF InRunStage
<1>7. /\ CalibrationIsAsked' /\ OneKindOfStage' /\ CellsAreReset'
      /\ AcquiredIsUnderway'
  BY <1>6 DEF CalibrationIsAsked, OneKindOfStage, CellsAreReset,
             AcquiredIsUnderway, InRunStage, Underway
<1>8. device'[s.channel] =
          [range  |-> s.range,
           bias   |-> Clip(draft[s.channel][s.range].analog),
           offset |-> draft[s.channel][s.range].digital]
  BY <1>2, <1>3 DEF FrontEndTypeOK
<1>9. StageIsProgrammed'
  <2> SUFFICES ASSUME calibrating, NEW t \in todo, Current(t),
                      t.channel \notin touched
               PROVE  device'[t.channel] =
                          [range  |-> t.range,
                           bias   |-> Clip(draft[t.channel][t.range].analog),
                           offset |-> 0]
    BY <1>6 DEF StageIsProgrammed, Current
  <2>1. t = s
    BY <1>1 DEF Current, First, Before, FrontEndTypeOK, Stages, Ranges, Channels
  <2>2. draft[t.channel][t.range].digital = 0
    BY DEF CellsAreReset
  <2> QED
    BY <1>8, <2>1, <2>2
<1> QED
  BY <1>5, <1>6, <1>7, <1>9 DEF ProgrammedLevels, OffsetsFollowTable

\* Only the half of the cell that was measured changes.
LEMMA StoredIsTyped ==
    ASSUME NEW t \in Drafts, NEW s \in Stages, NEW average \in Int
    PROVE  /\ Stored(t, s, average) \in Drafts
           /\ \A c \in Channels, i \in Ranges : c # s.channel \/ i # s.range =>
                 Stored(t, s, average)[c][i] = t[c][i]
           /\ s.mode = "ANALOG" =>
                 Stored(t, s, average)[s.channel][s.range].digital =
                     t[s.channel][s.range].digital
<1> DEFINE old == t[s.channel][s.range]
           Cells == [analog : Int, digital : Int]
<1>1. s.channel \in Channels /\ s.range \in Ranges
  BY DEF Stages
<1>2. old \in Cells
  BY <1>1 DEF Drafts
<1>3. PICK cell \in Cells :
          /\ Stored(t, s, average) = WithCell(t, s.channel, s.range, cell)
          /\ s.mode = "ANALOG" => cell.digital = old.digital
  <2>1. -average \in Int
    OBVIOUS
  <2>2. CASE s.mode = "ANALOG"
    <3>1. [old EXCEPT !.analog = -average] \in Cells
      BY <1>2, <2>1
    <3>2. Stored(t, s, average) =
              WithCell(t, s.channel, s.range, [old EXCEPT !.analog = -average])
      BY <2>2 DEF Stored, WithCell
    <3>3. [old EXCEPT !.analog = -average].digital = old.digital
      BY <1>2
    <3> QED
      BY <3>1, <3>2, <3>3
  <2>3. CASE s.mode # "ANALOG"
    <3>1. [old EXCEPT !.digital = average] \in Cells
      BY <1>2
    <3>2. Stored(t, s, average) =
              WithCell(t, s.channel, s.range, [old EXCEPT !.digital = average])
      BY <2>3 DEF Stored, WithCell
    <3> QED
      BY <2>3, <3>1, <3>2
  <2> QED
    BY <2>2, <2>3
<1> HIDE DEF old
<1>4. /\ Stored(t, s, average) \in Drafts
      /\ Stored(t, s, average)[s.channel][s.range] = cell
      /\ \A c \in Channels, i \in Ranges : c # s.channel \/ i # s.range =>
            Stored(t, s, average)[c][i] = t[c][i]
  BY <1>1, <1>3, CellIsSet
<1> QED
  BY <1>3, <1>4 DEF old

\* What a READY with results does: all cells but the one of the first stage
\* stand for what they did.
LEMMA AnsweredIsTyped ==
    ASSUME NEW t \in Drafts, NEW stages \in SUBSET Stages,
           Answered(t, stages)
    PROVE  /\ draft' \in Drafts
           /\ \E s \in stages :
                 /\ First(s, stages)
                 /\ todo' = stages \ {s}
                 /\ \A c \in Channels, i \in Ranges :
                       c # s.channel \/ i # s.range =>
                           Alike(draft'[c][i], t[c][i])
                 /\ /\ s.mode = "ANALOG"
                    /\ t[s.channel][s.range].digital = 0
                    => draft'[s.channel][s.range].digital = 0
           /\ phase' = IF todo' = {} THEN "READY" ELSE "STARTING"
<1>1. PICK s \in stages, average \in Averages :
          /\ First(s, stages)
          /\ \E shown \in Shown(t, s.range) :
                draft' = Stored(shown, s, average)
          /\ todo' = stages \ {s}
  BY DEF Answered
<1>2. PICK shown \in Shown(t, s.range) : draft' = Stored(shown, s, average)
  BY <1>1
<1>3. s \in Stages /\ s.range \in Ranges /\ s.channel \in Channels
  BY DEF Stages
<1>4. /\ shown \in Drafts
      /\ \A c \in Channels, i \in Ranges : Alike(shown[c][i], t[c][i])
  BY <1>3, ShownIsTyped
<1>5. /\ draft' \in Drafts
      /\ \A c \in Channels, i \in Ranges : c # s.channel \/ i # s.range =>
            draft'[c][i] = shown[c][i]
      /\ s.mode = "ANALOG" => draft'[s.channel][s.range].digital =
                                  shown[s.channel][s.range].digital
  <2>1. average \in Int
    OBVIOUS
  <2> QED
    BY <1>2, <1>3, <1>4, <2>1, StoredIsTyped
<1>6. /\ s.mode = "ANALOG"
      /\ t[s.channel][s.range].digital = 0
      => draft'[s.channel][s.range].digital = 0
  BY <1>3, <1>4, <1>5 DEF Alike
<1> QED
  BY <1>1, <1>4, <1>5, <1>6 DEF Answered

LEMMA StageEndsKeepsInvariant ==
    ASSUME FrontEndInvariant, StageEnds
    PROVE  FrontEndInvariant'
<1> USE DEF FrontEndInvariant
<1>1. /\ Underway /\ calibrating /\ calibrating' = (todo' # {})
      /\ enabled' = TRUE
      /\ touched' = IF todo' = {} THEN {} ELSE touched
      /\ UNCHANGED <<asked, acquired, acq, table, device, file, requests>>
      /\ Answered(draft, todo)
  BY DEF StageEnds
<1>2. draft \in Drafts /\ todo \in SUBSET Stages
  BY DEF FrontEndTypeOK
<1>3. draft' \in Drafts /\ phase' = IF todo' = {} THEN "READY" ELSE "STARTING"
  BY <1>1, <1>2, AnsweredIsTyped
<1>4. PICK s \in todo :
          /\ First(s, todo)
          /\ todo' = todo \ {s}
          /\ \A c \in Channels, i \in Ranges : c # s.channel \/ i # s.range =>
                Alike(draft'[c][i], draft[c][i])
          /\ /\ s.mode = "ANALOG"
             /\ draft[s.channel][s.range].digital = 0
             => draft'[s.channel][s.range].digital = 0
  BY <1>1, <1>2, AnsweredIsTyped
<1>5. FrontEndTypeOK'
  BY <1>1, <1>3, <1>4 DEF FrontEndTypeOK
<1>6. ~Underway'
  BY <1>3 DEF Underway
<1>7. CalibrationIsAsked' /\ AcquiredIsUnderway'
  BY <1>1, <1>3 DEF CalibrationIsAsked, AcquiredIsUnderway
<1>8. OneKindOfStage'
  BY <1>4 DEF OneKindOfStage
<1>9. CellsAreReset'
  <2> SUFFICES ASSUME NEW t \in todo, t # s, t.channel \notin touched
               PROVE  /\ draft'[t.channel][t.range].digital = 0
                      /\ t.mode # "FINE_DIGITAL" =>
                            draft'[t.channel][t.range].analog = 0
    BY <1>1, <1>4 DEF CellsAreReset
  <2>1. t \in Stages /\ s \in Stages
    BY DEF FrontEndTypeOK
  <2>2. /\ draft[t.channel][t.range].digital = 0
        /\ t.mode # "FINE_DIGITAL" => draft[t.channel][t.range].analog = 0
    BY <1>1 DEF CellsAreReset
  <2>3. CASE t.channel = s.channel /\ t.range = s.range
    <3>1. Before(s, t)
      BY <1>4 DEF First
    <3>2. s.mode = "ANALOG" /\ t.mode # "ANALOG"
      BY <2>1, <2>3, <3>1 DEF Before, Stages, Channels, Ranges
    <3>3. t.mode = "FINE_DIGITAL"
      BY <2>1, <3>2 DEF OneKindOfStage, Stages, Modes
    <3> QED
      BY <1>4, <2>2, <2>3, <3>2, <3>3
  <2>4. CASE t.channel # s.channel \/ t.range # s.range
    <3>1. Alike(draft'[t.channel][t.range], draft[t.channel][t.range])
      BY <1>4, <2>1, <2>4 DEF Stages
    <3> QED
      BY <2>2, <3>1 DEF Alike
  <2> QED
    BY <2>3, <2>4
<1> QED
  BY <1>5, <1>6, <1>7, <1>8, <1>9
  DEF ProgrammedLevels, OffsetsFollowTable, StageIsProgrammed

\* What a refused or failed stage comes to, whatever it nests.
LEMMA GivenUpIsTyped ==
    ASSUME NEW t \in Drafts, NEW stages \in SUBSET Stages,
           GivenUp(t, stages),
           \A s, u \in stages : s.mode = "DIGITAL" => u.mode = "DIGITAL"
    PROVE  /\ draft' \in Drafts /\ todo' \subseteq Stages
           /\ phase' \in {"STOPPING", "READY", "STARTING"}
           /\ calibrating' = FALSE /\ enabled' = TRUE
           /\ OneKindOfStage'
<1>1. CASE Answered(t, stages)
  <2>1. /\ draft' \in Drafts /\ todo' \subseteq stages
        /\ phase' = IF todo' = {} THEN "READY" ELSE "STARTING"
    BY <1>1, AnsweredIsTyped
  <2> QED
    BY <2>1 DEF GivenUp, OneKindOfStage
<1>2. CASE ~Answered(t, stages)
  BY <1>2 DEF GivenUp, OneKindOfStage
<1> QED
  BY <1>1, <1>2

LEMMA StageFailsKeepsInvariant ==
    ASSUME FrontEndInvariant, StageFails
    PROVE  FrontEndInvariant'
<1> USE DEF FrontEndInvariant
<1>1. PICK s \in todo, done \in 0 .. 3 : ConfigureStage(s, done)
  BY DEF StageFails
<1>2. /\ draft' \in Drafts /\ todo' \subseteq Stages
      /\ phase' \in {"STOPPING", "READY", "STARTING"}
      /\ calibrating' = FALSE /\ enabled' = TRUE
      /\ OneKindOfStage'
  <2>1. draft \in Drafts /\ todo \in SUBSET Stages
    BY DEF FrontEndTypeOK
  <2>2. GivenUp(draft, todo)
    BY DEF StageFails
  <2> QED
    BY <2>1, <2>2, GivenUpIsTyped DEF OneKindOfStage
<1>3. device' \in [Channels -> Levels]
  <2>1. OfStage(s) \in Settings
    BY OfStageIsTyped
  <2>2. s.channel \in Channels
    BY OfStageIsTyped
  <2>3. device[s.channel] \in Levels
    BY <2>2 DEF FrontEndTypeOK
  <2>4. Told(device[s.channel], OfStage(s), done) \in Levels
    BY <2>1, <2>3, ToldIsLevel
  <2> QED
    BY <1>1, <2>2, <2>4 DEF ConfigureStage, FrontEndTypeOK
<1>4. /\ asked' = "calibration" /\ acquired' = {}
      /\ UNCHANGED <<acq, table, file, touched, requests>>
  BY DEF StageFails, InRunStage, AcquiredIsUnderway, Underway
<1>5. FrontEndTypeOK'
  BY <1>2, <1>3, <1>4 DEF FrontEndTypeOK
<1> QED
  BY <1>2, <1>4, <1>5
  DEF ProgrammedLevels, OffsetsFollowTable, CalibrationIsAsked,
      AcquiredIsUnderway, CellsAreReset, StageIsProgrammed

LEMMA StartRefusedKeepsInvariant ==
    ASSUME FrontEndInvariant, NEW chs \in SUBSET Channels,
           NEW irs \in SUBSET Ranges, NEW mode \in Modes,
           StartRefused(chs, irs, mode)
    PROVE  FrontEndInvariant'
<1> USE DEF FrontEndInvariant
<1>1. requests' \in Nat
  BY RequestsAreCounted DEF StartRefused
<1>2. /\ draft' \in Drafts /\ todo' \subseteq Stages
      /\ phase' \in {"STOPPING", "READY", "STARTING"}
      /\ calibrating' = FALSE /\ enabled' = TRUE
      /\ OneKindOfStage'
  <2> DEFINE reset  == ResetCells(chs, irs)
             stages == StagesOf(chs, irs, mode)
  <2>1. /\ reset \in Drafts /\ stages \in SUBSET Stages
        /\ \A s, t \in stages : s.mode = "DIGITAL" => t.mode = "DIGITAL"
    BY ResetIsTyped
  <2>2. GivenUp(reset, stages)
    BY DEF StartRefused
  <2> HIDE DEF reset, stages
  <2> QED
    BY <2>1, <2>2, GivenUpIsTyped
<1>3. /\ asked' = IF phase' = "STARTING" THEN "calibration" ELSE asked
      /\ acquired' = IF phase' = "STOPPING" THEN acquired ELSE {}
      /\ touched' = IF calibrating THEN touched \cup chs ELSE touched
      /\ UNCHANGED <<acq, table, device, file>>
  BY DEF StartRefused, TouchIf
<1>4. FrontEndTypeOK'
  BY <1>1, <1>2, <1>3 DEF FrontEndTypeOK
<1>5. acquired' # {} => /\ Underway /\ asked = "default"
                        /\ UNCHANGED <<asked, acquired>> /\ Underway'
  BY <1>3 DEF AcquiredIsUnderway, Underway
<1>6. ProgrammedLevels' /\ OffsetsFollowTable' /\ AcquiredIsUnderway'
  BY <1>3, <1>5
  DEF ProgrammedLevels, OffsetsFollowTable, AcquiredIsUnderway
<1> QED
  BY <1>2, <1>4, <1>6 DEF CalibrationIsAsked, CellsAreReset, StageIsProgrammed

---------------------------------------------------------------------------
(* The theorems.                                                           *)

LEMMA InitHasInvariant == Init => FrontEndInvariant
<1> SUFFICES ASSUME Init PROVE FrontEndInvariant
  OBVIOUS
<1>1. PICK config \in Configs :
          /\ acq = Loaded(config)
          /\ device = [ch \in Channels |->
                 [range |-> config[ch].range,
                  bias |-> Shift(Loaded(config)[ch]), offset |-> 0]]
  BY DEF Init
<1>2. config \in [Channels -> Settings]
  OBVIOUS
<1>3. Loaded(config) \in [Channels -> Settings]
  BY LoadedIsTyped
<1>4. \A ch \in Channels : Shift(Loaded(config)[ch]) \in Codes
  BY <1>3, ShiftIsCode
<1>5. device \in [Channels -> Levels]
  BY <1>1, <1>2, <1>4, CodesAreIntegers DEF Levels, Settings
<1>6. FrontEndTypeOK
  BY <1>1, <1>3, <1>5, NoOffsetsIsTable DEF Init, FrontEndTypeOK
<1> QED
  BY <1>6
  DEF Init, FrontEndInvariant, Underway, ProgrammedLevels, OffsetsFollowTable,
      AcquiredIsUnderway, CalibrationIsAsked, OneKindOfStage, CellsAreReset,
      StageIsProgrammed

LEMMA StepsKeepInvariant ==
    FrontEndInvariant /\ [Next]_vars => FrontEndInvariant'
<1> SUFFICES ASSUME FrontEndInvariant, [Next]_vars
             PROVE  FrontEndInvariant'
  OBVIOUS
<1>1. \A irs \in RangeChoices : irs \in SUBSET Ranges
  BY DEF RangeChoices
<1>2. CASE UserEdit
  <2>1. ASSUME NEW ch \in Channels, NEW range \in Ranges,
               SetInputRange(ch, range)
        PROVE  FrontEndInvariant'
    BY <2>1, SetInputRangeKeepsInvariant
  <2>2. ASSUME NEW ch \in Channels,
               (\E bias \in Biases : SetDCBias(ch, bias)) \/ OpenTab(ch)
        PROVE  FrontEndInvariant'
    BY <2>2, SettingsKeepInvariant
  <2>3. ASSUME DraftEdit
        PROVE  FrontEndInvariant'
    BY <2>3, DraftsKeepInvariant
  <2>4. ASSUME NEW config \in Configs, LoadConfig(config)
        PROVE  FrontEndInvariant'
    BY <2>4, LoadConfigKeepsInvariant
  <2>5. ASSUME NEW chs \in SUBSET Channels, NEW irs \in RangeChoices,
               Apply(chs, irs)
        PROVE  FrontEndInvariant'
    BY <1>1, <2>5, ApplyKeepsInvariant
  <2> QED
    BY <1>2, <2>1, <2>2, <2>3, <2>4, <2>5 DEF UserEdit, DraftEdit
<1>3. CASE AcquisitionStep
  BY <1>3, StartKeepsInvariant, StartFailsKeepsInvariant,
     ProgressKeepsInvariant DEF AcquisitionStep
<1>4. CASE CalibrationStep
  <2>1. ASSUME NEW chs \in SUBSET Channels, NEW irs \in RangeChoices,
               NEW mode \in Modes, StartCalibration(chs, irs, mode)
        PROVE  FrontEndInvariant'
    BY <1>1, <2>1, StartCalibrationKeepsInvariant
  <2>2. ASSUME NEW chs \in SUBSET Channels, NEW irs \in RangeChoices,
               NEW mode \in Modes, StartRefused(chs, irs, mode)
        PROVE  FrontEndInvariant'
    BY <1>1, <2>2, StartRefusedKeepsInvariant
  <2> QED
    BY <1>4, <2>1, <2>2, StageStartsKeepsInvariant, StageEndsKeepsInvariant,
       StageFailsKeepsInvariant DEF CalibrationStep
<1>5. CASE UNCHANGED vars
  BY <1>5
  DEF vars, lifeVars, dialogVars, FrontEndInvariant, FrontEndTypeOK, Underway,
      ProgrammedLevels, OffsetsFollowTable, AcquiredIsUnderway,
      CalibrationIsAsked, OneKindOfStage, CellsAreReset, StageIsProgrammed,
      Current
<1> QED
  BY <1>2, <1>3, <1>4, <1>5 DEF Next

\* The invariant holds of every behaviour, for every value of the constants.
THEOREM FrontEndInvariantHolds == Spec => []FrontEndInvariant
BY InitHasInvariant, StepsKeepInvariant, PTL DEF Spec

\* Every bias the device is told and every offset of the default table is a
\* code, whatever biases, tables and configurations ask for.
THEOREM FrontEndTypeCorrect == Spec => []FrontEndTypeOK
<1>1. FrontEndInvariant => FrontEndTypeOK
  BY DEF FrontEndInvariant
<1> QED
  BY <1>1, FrontEndInvariantHolds, PTL

\* The device has the range and the shift of every channel that is acquired.
THEOREM LevelsAreProgrammed == Spec => []ProgrammedLevels
<1>1. FrontEndInvariant => ProgrammedLevels
  BY DEF FrontEndInvariant
<1> QED
  BY <1>1, FrontEndInvariantHolds, PTL

\* An acquisition whose ranges are left alone runs calibrated.
THEOREM BiasIsCalibrated == Spec => []CalibratedBias
<1>1. FrontEndInvariant => CalibratedBias
  <2> SUFFICES ASSUME FrontEndInvariant, Underway, asked = "default",
                      NEW ch \in acquired \ touched
               PROVE  device[ch].bias = Clip(table[ch][acq[ch].range].analog
                                                 + acq[ch].dcBias)
    BY DEF CalibratedBias
  <2>1. device[ch].bias = Shift(acq[ch])
    BY DEF FrontEndInvariant, ProgrammedLevels
  <2>2. acq[ch].analog = table[ch][acq[ch].range].analog
    BY DEF FrontEndInvariant, OffsetsFollowTable
  <2> QED
    BY <2>1, <2>2 DEF Shift
<1> QED
  BY <1>1, FrontEndInvariantHolds, PTL

\* No stage of an untouched calibration measures on top of an earlier offset.
THEOREM StagesMeasureFromZero == Spec => []MeasuresFromZero
<1>1. FrontEndInvariant => MeasuresFromZero
  <2> SUFFICES ASSUME FrontEndInvariant, calibrating, phase = "ACTIVE",
                      NEW s \in todo, Current(s), s.channel \notin touched
               PROVE  device[s.channel] =
                          [range  |-> s.range,
                           bias   |->
                               IF s.mode = "FINE_DIGITAL"
                               THEN Clip(draft[s.channel][s.range].analog)
                               ELSE 0,
                           offset |-> 0]
    BY DEF MeasuresFromZero
  <2>1. device[s.channel] =
            [range  |-> s.range,
             bias   |-> Clip(draft[s.channel][s.range].analog),
             offset |-> 0]
    BY DEF FrontEndInvariant, StageIsProgrammed, Underway
  <2>2. s.mode # "FINE_DIGITAL" => draft[s.channel][s.range].analog = 0
    BY DEF FrontEndInvariant, CellsAreReset
  <2>3. Clip(0) = 0
    BY DEF Clip
  <2> QED
    BY <2>1, <2>2, <2>3
<1> QED
  BY <1>1, FrontEndInvariantHolds, PTL

---------------------------------------------------------------------------
(* What a calibration does to its table.                                   *)

\* While a calibration goes on, a cell of the draft is given another code only
\* by the end of a stage of its own: no stage, failed or not, overwrites what
\* another one has measured, unless someone edits that channel, loads a table
\* or presses Start for it again meanwhile.
ResultsAreOfStages ==
    calibrating => \A ch \in Channels \ touched', ir \in Ranges :
        \/ Alike(draft'[ch][ir], draft[ch][ir])
        \/ \E s \in todo \ todo' : s.channel = ch /\ s.range = ir

LEMMA CellsAreAlike ==
    ASSUME FrontEndTypeOK, UNCHANGED draft
    PROVE  \A ch \in Channels, ir \in Ranges :
               Alike(draft'[ch][ir], draft[ch][ir])
BY DEF Alike

\* The end of a stage is the end of the one whose cell it fills.
LEMMA StagesFillTheirCells ==
    ASSUME FrontEndInvariant, StageEnds \/ StageFails
    PROVE  ResultsAreOfStages
<1> USE DEF FrontEndInvariant
<1>1. draft \in Drafts /\ todo \in SUBSET Stages
  BY DEF FrontEndTypeOK
<1>2. CASE Answered(draft, todo)
  <2>1. PICK s \in todo :
            /\ todo' = todo \ {s}
            /\ \A c \in Channels, i \in Ranges :
                  c # s.channel \/ i # s.range =>
                      Alike(draft'[c][i], draft[c][i])
    BY <1>1, <1>2, AnsweredIsTyped
  <2> QED
    BY <2>1 DEF ResultsAreOfStages
<1>3. CASE UNCHANGED draft
  BY <1>3, CellsAreAlike DEF ResultsAreOfStages
<1> QED
  BY <1>2, <1>3 DEF StageEnds, StageFails, GivenUp

\* A Start that is refused resets cells, and may fill one, of its channels.
LEMMA StartTouchesItsCells ==
    ASSUME FrontEndInvariant, calibrating,
           NEW chs \in SUBSET Channels, NEW irs \in SUBSET Ranges,
           NEW mode \in Modes, StartRefused(chs, irs, mode)
    PROVE  ResultsAreOfStages
<1> USE DEF FrontEndInvariant
<1> DEFINE reset  == ResetCells(chs, irs)
           stages == StagesOf(chs, irs, mode)
<1>1. /\ reset \in Drafts /\ stages \in SUBSET Stages
      /\ \A ch \in Channels \ chs, ir \in Ranges :
            reset[ch][ir] = draft[ch][ir]
      /\ \A s \in stages : s.channel \in chs
  BY ResetIsTyped
<1>2. touched' = touched \cup chs /\ GivenUp(reset, stages)
  BY DEF StartRefused, TouchIf
<1> HIDE DEF reset, stages
<1>3. \A ch \in Channels \ chs, ir \in Ranges :
          Alike(draft'[ch][ir], draft[ch][ir])
  <2>1. CASE Answered(reset, stages)
    <3>1. PICK s \in stages :
              \A c \in Channels, i \in Ranges :
                  c # s.channel \/ i # s.range =>
                      Alike(draft'[c][i], reset[c][i])
      BY <1>1, <2>1, AnsweredIsTyped
    <3> QED
      BY <1>1, <3>1
  <2>2. CASE draft' = reset
    BY <1>1, <2>2 DEF Alike
  <2> QED
    BY <1>2, <2>1, <2>2 DEF GivenUp
<1> QED
  BY <1>2, <1>3 DEF ResultsAreOfStages

\* The results of a calibration are those of its stages.
THEOREM ResultsAreKept == Spec => [][ResultsAreOfStages]_vars
<1>1. ASSUME FrontEndInvariant, [Next]_vars
      PROVE  ResultsAreOfStages
  <2> SUFFICES ASSUME calibrating PROVE ResultsAreOfStages
    BY DEF ResultsAreOfStages
  <2>0. FrontEndTypeOK
    BY <1>1 DEF FrontEndInvariant
  <2>1. CASE DraftEdit
    BY <2>0, <2>1, DraftEditsAreTyped DEF ResultsAreOfStages, Kept
  <2>2. CASE StageEnds \/ StageFails
    BY <1>1, <2>2, StagesFillTheirCells
  <2>3. CASE \/ AcquisitionStep \/ StageStarts \/ UNCHANGED vars
             \/ \E ch \in Channels :
                   \/ \E range \in Ranges : SetInputRange(ch, range)
                   \/ \E bias \in Biases : SetDCBias(ch, bias)
                   \/ OpenTab(ch)
             \/ \E config \in Configs : LoadConfig(config)
    <3>1. UNCHANGED draft
      BY <2>3 DEF AcquisitionStep, Start, StartFails, GoLive, Drain, Complete,
         StageStarts, SetInputRange, SetDCBias, OpenTab, LoadConfig,
         dialogVars, vars
    <3> QED
      BY <2>0, <3>1, CellsAreAlike DEF ResultsAreOfStages
  <2>4. CASE \E chs \in SUBSET Channels, irs \in RangeChoices :
                 Apply(chs, irs)
    <3>1. \E ir \in Ranges : draft' \in Shown(draft, ir)
      BY <2>4 DEF Apply
    <3> QED
      BY <2>0, <3>1, ShownIsTyped DEF ResultsAreOfStages, FrontEndTypeOK
  <2>5. CASE \E chs \in SUBSET Channels, irs \in RangeChoices, mode \in Modes :
                 StartRefused(chs, irs, mode)
    <3>1. \A irs \in RangeChoices : irs \in SUBSET Ranges
      BY DEF RangeChoices
    <3> QED
      BY <1>1, <2>5, <3>1, StartTouchesItsCells
  <2>6. \A chs \in SUBSET Channels, irs \in RangeChoices, mode \in Modes :
            ~StartCalibration(chs, irs, mode)
    BY <1>1 DEF FrontEndInvariant, CalibrationIsAsked, Underway,
       StartCalibration
  <2> QED
    BY <1>1, <2>1, <2>2, <2>3, <2>4, <2>5, <2>6
    DEF Next, UserEdit, DraftEdit, CalibrationStep
<1>2. FrontEndInvariant /\ [Next]_vars => [ResultsAreOfStages]_vars
  BY <1>1
<1> QED
  BY <1>2, FrontEndInvariantHolds, PTL DEF Spec

=============================================================================
