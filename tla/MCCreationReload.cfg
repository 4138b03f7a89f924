\* A thermostat of BidCos is configured anew once.
CONSTANTS
    None = None
    All = All
    Devices = {"thermostat"}
    Model <- MCModel
    Channels <- MCChannels
    Multi <- MCMulti
    Description <- MCDescription
    Configs <- MCConfigs
    Lines <- MCLines
    Modes = {"BINARY_BEHAVIOR"}
    Defaults <- MCDefaults
    MaxLines = 1
    MaxEdits = 1
    MaxFaults = 0
SPECIFICATION FairSpec
INVARIANTS MasterStaysUsable
CHECK_DEADLOCK FALSE
