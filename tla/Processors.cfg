\* Edits, calibrations and acquisitions in every order; no load while recording.
SPECIFICATION Spec
CONSTANTS
    Writers = {w1, w2}
    RecordSizes = {1, 2}
    HeaderSize = 1
    SizeLimit = 3
    LoadsSettled = TRUE
    None = None
SYMMETRY Symmetry
INVARIANTS ProcTypeOK ListedAreAlive ListedOnce PanelAgrees
    FilesFollowAcquisition VolumeBounded SaverNotPulled
