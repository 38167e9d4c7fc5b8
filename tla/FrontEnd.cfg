\* Two channels and two ranges; every order of MaxRequests things to do.
SPECIFICATION Spec
CONSTANTS
    NofChannels = 2
    NofRanges = 2
    CodeMin <- MCCodeMin
    CodeMax = 1
    MaxRequests = 3
    Biases <- MCBiases
    Offsets <- MCOffsets
    Averages <- MCAverages
    Configs <- MCConfigs
    TableFiles <- MCTableFiles
INVARIANTS FrontEndTypeOK ProgrammedLevels CalibratedBias MeasuresFromZero
CHECK_DEADLOCK FALSE
