SPECIFICATION Spec
CONSTANTS
    Call = {k1, k2}
    TheTool = TheTool
    NameOf <- OneTool
    MaxMade = 2
    MaxSaid = 2
    MaxWire = 1
    MaxAsked = 2
    MaxBreaks = 1
    None = None
SYMMETRY CallSymmetry
INVARIANTS
    TranscriptInOrder
    CardsAgree
    ApprovalShown
CHECK_DEADLOCK FALSE
