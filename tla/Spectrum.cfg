\* Settings, resets, ends of the program and acquisitions in every order.
SPECIFICATION Spec
CONSTANTS
    MaxBins = 8
    MaxShift = 2
    PlotterBins = 4
    TotalWords = 1
    Windows <- SmallWindows
    Waveforms <- ShortAndLong
    MaxSpectra = 2
    MaxResets = 2
    BinsSettled = TRUE
INVARIANTS SpectrumTypeOK DialogKnowsDevice BitsAreCleared SpectraWhole
