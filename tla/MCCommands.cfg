SPECIFICATION Spec
CONSTANTS
    None = None
    Kinds = {"cover", "window", "blind", "ipblind", "hdm", "garage", "dimmer", "color", "effect", "temp",
             "rgbw", "pwm", "dali", "fixed", "switch", "iplock", "buttonlock", "rflock", "siren",
             "smoke", "simple", "rf", "ip", "schedule"}
    Levels = {0, 116}
    Tilts = {0, 200}
    Tasks = {"t1", "t2"}
    MaxCalls = 2
    MaxBlindCalls = 2
    MaxFaults = 1
INVARIANTS
    SentTakesEffect
    BlindKeepsCoordinates
PROPERTY SkippedIsDone
CHECK_DEADLOCK FALSE
