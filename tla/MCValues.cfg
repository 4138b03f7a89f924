\* An interface that is polled: two readers, ages in ticks of about five seconds.
CONSTANTS
    Values = {0, 1}
    None = None
    NoValue = NoValue
    Readers = {"poll", "reload"}
    LoadAge = 1
    CacheAge = 1
    CommandAge = 1
    PollTicks = 2
    Day = 4
    MaxChanges = 1
    MaxCalls = 2
    MaxFaults = 1
SPECIFICATION FairSpec
PROPERTIES NoRepeatedCalls PolledCatchesUp
