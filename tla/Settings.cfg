\* Every file over two channels and the durations around the minimum.
SPECIFICATION SettingsSpec
CONSTANTS
    NofChannels = 2
    MinTime = 2
    Durations <- MCDurations
INVARIANTS SettingsTypeOK BoxesShowMasks SingleIsOneChannel DurationIsShown
