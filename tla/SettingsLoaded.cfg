\* Untimed files over two channels.
SPECIFICATION SettingsSpec
CONSTANTS
    NofChannels = 2
    MinTime = 2
    Durations = {0}
PROPERTY LoadedIsKept
