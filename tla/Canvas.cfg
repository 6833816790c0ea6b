SPECIFICATION Spec
CONSTANTS
    Message = {m1, m2}
    Size = 3
    i1 = i1
    i2 = i2
    Named <- Names
    Limit = 1
    Generated = Generated
    Fresh = Fresh
    Header = Header
    NoCall = NoCall
    Ops <- SomeOps
    MaxCalls = 3
    PanelUse = TRUE
    MaxPanel = 1
    MaxFaults = 1
SYMMETRY MessageSymmetry
INVARIANTS
    UniqueIds
    BatchOrder
PROPERTY Serialized
CHECK_DEADLOCK FALSE
