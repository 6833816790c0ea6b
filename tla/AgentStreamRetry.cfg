\* MaxMade, MaxBreaks: one lost connection and one more session are enough.
SPECIFICATION Spec
CONSTANTS
    Call = {k1}
    TheTool = TheTool
    NameOf <- OneTool
    MaxMade = 2
    MaxSaid = 1
    MaxWire = 1
    MaxAsked = 1
    MaxBreaks = 1
    None = None
PROPERTY RetryFindsSession
CHECK_DEADLOCK FALSE
