SPECIFICATION Spec
CONSTANTS
    Session = {s1, s2, s3}
    Book = {b1, b2, b3}
    Cell = {k1, k2}
    Call = {c1, c2}
    Limit = 2
    MaxRuns = 2
    HasIPython = TRUE
    None = None
SYMMETRY Symmetry
INVARIANTS
    TypeOK
    OwnOutput
    OwnVariablesOnceBound
    RecentStays
    CountsDiffer
CHECK_DEADLOCK FALSE
