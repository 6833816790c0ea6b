SPECIFICATION FairSpec
CONSTANTS
    Id = {i1}
    MaxMade = 2
    Stream = {c1, c2}
    Request = {r1}
    None = None
PROPERTIES
    OnlyIdleGo
    LeftOnesGo
    StreamsEnd
CHECK_DEADLOCK FALSE
