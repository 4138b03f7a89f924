\* Seven devices, up to two lines of the user, three changes, one fault.
CONSTANTS
    None = None
    All = All
    Devices <- MCDevices
    Model <- MCModel
    Channels <- MCChannels
    Multi <- MCMulti
    Description <- MCDescription
    Configs <- MCConfigs
    Lines <- MCLines
    Modes = {"BINARY_BEHAVIOR", "KEY_BEHAVIOR"}
    Defaults <- MCDefaults
    MaxLines = 2
    MaxEdits = 3
    MaxFaults = 1
SPECIFICATION FairSpec
INVARIANTS LineTakesEffect OnlyListedShown EventsReachTheLiving
PROPERTIES ModeCatchesUp
CHECK_DEADLOCK FALSE
