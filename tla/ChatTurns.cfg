SPECIFICATION FairSpec
CONSTANTS
    Id = {i1}
    MaxMade = 1
    Stream = {c1}
    Request = {r1, r2}
    None = None
PROPERTIES
    OwnReply
    OneShotsAreAnswered
CHECK_DEADLOCK FALSE
